# ce-pin in TLA+

A verification development for ce-pin, the paid blob-pinning service in this
repository. It models the two sides of the program that keep promises over
time, the pinning host (`ce-pin serve`) and the publisher's index of its pins
(`add`, `rm`, `renew`, `status`, `watch`), what the two agree on over the life
of a pin (lease, rent, channels, proofs), and the two greedy algorithms
(eviction, placement). It checks them with TLC on small instances and proves
their invariants and action properties with TLAPS for every value of the
constants.
Paths below are relative to the repository root.

## The system

| component | code | state | operations | modules |
|---|---|---|---|---|
| held-set | `src/held.rs` | CID to entry (bytes, rent, expiry, last access), one JSON file | insert, touch, remove, expired, evict_to_fit, load, save | `HeldSet`, `EvictLoop` |
| host server | `src/host.rs` | held-set and revoked set behind mutexes, the limits | handlers of `pin/offer`, `audit`, `status`, `renew`, `release`; maintenance task; start | `PinHost`, `PinLedger`, `PublisherView` |
| admission | `src/config.rs` | limits from the environment | `admit` | `PinHost` (`Admissible`) |
| wire protocol | `src/proto.rs`, `docs/protocol.md` | none | requests and replies | `PinHost` (`Requests`, `Answers`) |
| publisher client | `src/client.rs` | none of its own | candidates, offer, replicate, renew, release, audit, rent | `PinLife`, `PinIndex`, `PublisherView`, `Placement` |
| pin-set | `src/pinset.rs` | CID to job and replicas, one JSON file | load, save, upsert, remove | `PinIndex`, `SharedIndex`, `PinLife` |
| repair daemon | `src/repair.rs` | a copy of the pin-set for the length of a pass | repair_plan, repair_once, watch | `PinIndex`, `SharedIndex`, `PinLife` |
| placement | `src/placement.rs` | none | rank, select | `Placement` |
| retrievability proofs | `src/audit.rs` | none | challenge_index, prove, verify | `PinLife` |
| command line | `src/main.rs` | none | add, ls, status, rm, renew, watch, serve | `PinIndex`, `SharedIndex`, `PinLife` |
| capability material, metrics | `src/caps.rs`, `src/lib.rs`, `src/metrics.rs` | counters that are only logged | | not modelled |
| node and chain | the external crate `ce_rs` | height, revocations, blobs, channels | | what the program sees of it, in `PinHost` and `PinLife` |

A publisher's client places an offer on several hosts by mesh requests. A host
authorizes each request against its copy of the chain's revoked set, checks the
offer against its limits and the total of its held-set, fetches the object from
the mesh, records it and saves the file. A maintenance task of the same process
refreshes the revoked set every 10 s and every 30 s collects pins whose lease
is over and pins beyond the disk budget. Handlers and task share the held-set
through an async mutex that none of them holds across an await. The publisher's
repair daemon audits the replicas it knows of and places new ones. The
daemon and the commands are processes of their own that share `pins.json` and
nothing else: each loads it, talks to hosts, and writes it whole.

What is hard here: a handler acts on what it learnt before an await (was the
CID held, the chain height, the sum of the sizes); nothing is reserved between
admission and the insert minutes later; the saves of several tasks go to one
file and may fail; the process may die between any two steps; the node may not
answer, which the code reads as height 0; the file may be of an older format or
damaged. What must come out right: the accounting, the size limit and the disk
budget, no pin dropped while its lease runs, a file that a restart can rely on,
and terms that are the ones the publisher was told. Progress: every request
gets an answer, lapsed pins go, revoked capabilities stop working.

On the publisher's side: a process may be killed with replicas placed and not
recorded; a reply may come too late; two processes overwrite each other's work
in the file; a pass acts on health it has measured itself and on health it has
read. What must come out right: every replica a host keeps is on record or
accounted for, recorded health is what the holder itself answered, a command
changes what it is for and nothing else, or, when another overlaps it, undoes
no more than a stale copy explains, the daemon restores the replication factor
and does not overshoot it, and pays who is healthy. Between the two
sides an offer may take effect after the publisher has given up on it, an
answer may be lost, a channel may be open when its process dies, and an audit
spans several blocks. What must come out right: the lease and rent on record
are those the host goes by, no channel is paid on twice or forgotten, a receipt
fits its channel, a holder that kept everything is recorded healthy, and one
without an entry for the pin is not.

## Modules

**`HeldSet`** is `held.rs` as a value: entries and operators, no state. CIDs
are integers because the code orders them. `TotalBytes` counts byte slots
instead of adding numbers, so that it needs no recursion and can be proved
about; the saturation of the u64 sum is abstracted (a sum of sizes on a disk
does not reach 2^64). The rent string is its parsed value; blank and malformed
strings are rate 0, as in `rent_base`. `publisher`, `pinned_at` and the schema
version are left out: nothing reads them back.

**`EvictLoop`** is the loop of `evict_to_fit`, one victim per step, and shows
that `HeldSet.EvictToFit`, a closed expression that the host uses, is what the
loop returns.

**`Placement`** is `placement.rs` with `candidate_hosts` and
`fault_domain_from_tags` of `client.rs`. `FaultDomain`, `Candidates` and
`Better` are the fault domain of a listing, who may be asked and the order of
`rank`; `VisitForSpread`, `SecondPass` and `VisitForCount` are the two loops of
`select`, one look at a candidate per step (`picked` is the result,
`used` is `used_domains`). A listing's tags are a sequence because the code
takes the first of a kind. Node ids are integers, for they break ties. `Select`
is the result as one expression, the reference the loops are compared with.
Scores are their fields: the code compares the same fields in the same order.

**`PinHost`** is `host.rs`. Correspondence of the state:

| variable | code |
|---|---|
| `held`, `revoked` | `HostState::held`, `HostState::revoked` |
| `disk`, `rotten` | `held.json`, and that it does not parse |
| `up` | the process serves |
| `mpc`, `gcHeight` | position of `maintenance_loop`; the height `run_gc` read |
| `pc`, `req`, `height`, `answer` | per handler: position, request, the height `do_offer` read, the reply |
| `tip`, `onChain`, `now` | the chain's height and revocations, the clock |
| `crashes` | a bound, no code |

A handler is cut into one action per stretch between two awaits:
`Receive` (authorize) then, for an offer, `OfferCheck` (`already_held`),
`OfferHeight`, `OfferAdmit` (drop expired pins in memory, admit), `OfferFetch`
and `OfferCommit` (insert and save in one critical section); for an audit
`AuditGate` and `AuditProve`; for a status `StatusGate` and `StatusProbe`;
`Renew` and `Release` are one critical section each; `Reply` frees the worker.
The `already_held` flag is the difference between the labels `fetch` and
`refetch`. The maintenance task is `Refresh`, `GcHeight`, `GcDrop`. `Crash`,
`Start` and `FileRot` are the process and its file: a start on a file that does
not parse moves it aside and exits, so the next start finds none. `Mine`,
`Tick` and `Revoke` are the world.

A save replaces the file or, where `SaveFails`, leaves it; `atomic_write` is a
temporary file and a rename, so a process crash leaves no third outcome.
Failures of the node are outcomes: an unknown height is 0, an unanswered
refresh keeps the set, a fetch fails or times out, a blob read fails. A request
that is delivered twice, after a restart or because a publisher retries, is
simply received again.

Abstractions to know about. `max_concurrent` is read and logged but no code of
the repository enforces it: how many requests run at once is up to the serve
loop of `ce_rs`, hence the constant `Workers`. Capabilities are valid until
revoked: time-limited ones and the checks of roots and abilities belong to
`ce_rs::authorize`. `do_offer` reads the clock just before it takes the lock,
`OfferCommit` with it; only the recency order depends on that. A proof is the
fact that one was given. Re-advertising, metrics and log lines change no state
of the host. The text `reason` is left out.

**`PinLedger`** is what the host promises about what a restart would load: a
ledger changed by one step per request, from which pins go only when their
lease is over, by release, or by an eviction that ends within the budget and
would not have with one victim fewer. `PinHost` implements it with
`ledger <- TermsOf(disk)`.

**`PublisherView`** adds to `PinHost` what a publisher learns from replies
(`client.rs`): `promise` maps a CID to the lease it was last told. From the
moment a request about the CID is sent until its positive reply the publisher
relies on nothing. `dismissed` has the CIDs it was last told are released.

**`PinIndex`** is `pinset.rs`, the commands of `main.rs` that write the index,
`repair.rs`, and the exchanges of `client.rs` they are made of.

| variable | code |
|---|---|
| `index` | `pins.json`: per CID the terms of the job and, of its replicas, the holders, those with `last_proof_ok`, those with a `channel_id` |
| `run` | per process: where it is (`at`), the pin it is at, the `PinSet` it loaded (`copy`), the pins a pass has yet to look at, the hosts it has yet to ask, those that said yes, those a channel was opened to |
| `kept`, `drops` | the replicas hosts hold (`PinHost` in full); how many were lost, a bound |
| `said`, `stray` | history: the last answer of each holder; replicas off the record for a reason the code accepts |

`cmd_add` is `AddStart` (load, select), `Accept`, `Decline` or
`LoseAcceptance` for each host, and `AddSave` (upsert, save). `cmd_rm` is `Rm`,
which removes and saves, then `Release` or `ReleaseFails` for each holder;
`RmLocal` is `--local`. `cmd_renew` is `RenewStart` and `RenewSave`: its
requests change nothing here, for the code records the new terms whatever the
holders answer. `cmd_status` is `StatusStart`, `Pass` or `Fail` for each holder
on record or on the DHT, and `StatusSave`, which loads again. A pass of
`repair_once` is `PassStart`, then for each pin `Examine`, `Pass` or `Fail` for
each holder, `Audited` (health into the copy), `Pay` for those paid, `Plan`
(`repair_plan`, candidates, `select`), an offer to each host selected and
`Placed`, and at the end `PassSave`. `Kill` ends a process anywhere; `Drop` is
a host that loses a replica or whose lease there ends.

Abstractions to know about. A load and the save that follows it without an
await (`cmd_rm`, the end of `cmd_status`) are one step, although the files of
two processes could interleave even there. A failed save ends the process as
`Kill` does. All pins ask for the same factor. The hosts are asked in any
order, and placement is any choice of at most as many as are asked for: the
atlas and the ranking are not modelled. Channels count as recorded or not;
amounts are left out. An audit that the publisher cannot make, for lack of a
beacon or of the chunk, is one that fails. An object without chunks, which
never passes an audit, is left out.

**`SharedIndex`** is `PinIndex` with one history variable: `behind` has, for
each process that works on a copy, the pins that others have changed on disk
since it loaded it. No action reads it; `LosesUpdate` and the two properties of
overlapping processes do.

**`PinLife`** is one pin from `add` to `rm` with both sides and the amounts:
what `PinHost` (one host, no publisher) and `PinIndex` (no terms at the hosts)
leave out.

| variable | code |
|---|---|
| `record` | the entry of the CID in `pins.json`: rent, expiry, holders, health, channels |
| `deal` | the rent and the expiry each host has in its held-set |
| `lost` | hosts whose node no longer has the object's bytes, whatever the held-set says |
| `pending` | an offer a host still works on after `OFFER_TIMEOUT_MS` at the client |
| `channel` | open payment channels: what each locks, the rent it was opened for, the highest receipt |
| `proc` | the one process at work: command, where it waits, whom it has yet to ask, terms, the challenge put, who took the terms, proved, was paid, and channels in hand |
| `tip`, `faults` | the chain's height; a bound |
| `seen`, `steady`, `missed`, `loose` | history, read by no action |

`replicate` is `Accept`, `Decline` or `GiveUp` per host, then `OpenChannel` or
`OpenFails`; `cmd_add` is `AddStart` and `AddSave` around it; `cmd_renew` is
`RenewStart`, `Renew` or `RenewFails` per holder, `RenewSave`. A pass is
`PassStart`, per holder `Challenge` (client), `Gate` and `Prove` (host) or
`AuditFails`, then `Audited`, `Pay` or `PayFails`, `Plan`, the offers and
`PassSave`. `cmd_rm` is `Rm`, then `Release` or `ReleaseFails`, `RmEnd`; or
`RmLocal`. `Land` and `Abandon` end a late offer, `Collect` and `Evict` are the
two halves of `run_gc`, `LoseBytes` is a node that loses the blobs while the
held-set keeps the entry, `Kill` ends the process. `status` is `PinIndex`'s. Lease hours, channel
capacity and rent owed are the integer formulas of `client.rs` with their
rounding and minimums.

Abstractions to know about. One process at a time; overlap is `PinIndex`'s.
One budget `MaxFaults` counts whatever goes wrong. A hash is the tuple of what
is hashed, so two inputs never collide, except that `Digest` says what chunk a
beacon picks. `get_blob` falls back to the mesh: a host without the bytes gives
the proof of one that has them, or none if there is no copy to be had, and
whether its node keeps what it fetched is left out, for no property depends on
it. Money and sizes are scaled: `Gib`, `Milli`, `BlocksPerHour` and
`Credit` stand for 2^30, 1000, 360 and 10^18, and the u128 saturation is left
out. `ChannelIds` bounds how many channels are open at once: with none free,
opening fails as it does when the node refuses, and which free id a channel
gets (`FreeId`) is the node's choice and tells nothing. Renewals are not delivered
late; offers are. `RenewSpans` are positive: with the span 0, `renew` would
name the height the publisher's node gives, or 0.

**`MCPinHost`, `MCPublisherView`, `MCPinIndex`, `MCSharedIndex`, `MCPinLife`** fix constants for
TLC; **`MCLoops`** has the calls for both loops, and a behaviour is one call of
either. **`HeldSetProofs`, `EvictLoopProofs`, `PinHostProofs`,
`HostSafetyProofs`, `PublisherViewProofs`, `IndexProofs`, `PinLifeProofs`,
`PlacementProofs`** hold the theorems.

Operators whose comment begins with "Mutant:" are not part of the model. Each
is a bug the definition after it could have had; putting it in that
definition's place makes TLC find a property of the run violated, which shows
that the property notices.

## What TLC checks

| run | setting | properties |
|---|---|---|
| `HostParallel` | 2 workers, 2 objects of 1 and 2 bytes, budget 2, lengths understated, object 2 migrated from a v0 file, 1 crash, 1 block | `TypeOK`, `RealSizes`, `FileAgrees`, `NoEarlyDrop`, `Implements` |
| `HostPublisher` | 1 worker, 3 objects of 1, 2, 3 bytes, budget 3, honest lengths, rents 0 and 1 with minimum 1, leases 0, 1, 2, 1 crash, 2 blocks | `ViewTypeOK`, `WithinCapacity`, `PublisherCanRely`, `LeaseAsTold`, `ReleaseIsFinal` |
| `HostLive` | 1 worker, an object at and one over the limit, saves fail, the file rots, a revocation, 1 crash | `NoOversizedPin`, `EveryRequestEnds`, `LapsedPinsGo`, `RevocationTakesHold` |
| `Loops` | every held-set of 3 CIDs with up to 2 bytes, two rents, two recencies, lapsed or not, every target; every atlas of 3 nodes with three scores and three sets of tags, 1 to 3 hosts asked for | `MatchesEvictToFit`, `FitsWithNoneToSpare`, `PayingPinsStay`, `MatchesSelect`, `FactorFilled`, `NoAvoidableOverlap`, `ProvenFirst` |
| `IndexAlone` | one process at a time, any command, 1 pin, 3 hosts, factor 2, free and paid terms, kills, late replies, deaf hosts, pins added anew, 1 loss | `IndexTypeOK`, `Accounted`, `NeverOverPlaces`, `HealthIsOwnAnswer` |
| `RepairLive` | `add` and `watch`; 2 pins, 3 hosts, factor 2, 1 loss | `EachToItsOwn`, `FactorRestored` |
| `IndexShared` | two processes at a time, any command each; 2 pins, 1 host, kills | `OnlyLostUpdates`, `OnlyLostUpdatesForget` |
| `PinLife` | every command that changes a lease, a channel or the record (`status` does not), 2 hosts, factor 1, leases 0 and 1, a renewal that quadruples the rent, 2 chunks, 2 channels, 1 block, 1 fault | `LifeTypeOK`, `LeaseAsRecorded`, `ChannelsAccounted`, `HealthIsTrue`, `ReceiptsFit` |

*Accounting and limits.* `RealSizes`: the recorded bytes are the object's,
or 0 for a pin that came from a v0 file and was not offered since.
`NoOversizedPin`: nothing over `max_object_bytes` is held. `WithinCapacity`: the total stays within the
budget; it needs one request at a time and honest lengths, and fails without.

*Leases.* `NoEarlyDrop`: a pin leaves a running host's memory only if its lease
is over at the real tip, the collector runs over budget, or its release is
served. `LeaseAsTold`, `PublisherCanRely`: a host keeps what it acknowledged,
on the lease it acknowledged, until that is over. `ReleaseIsFinal`: a pin that
was answered released stays gone, over any restart, until it is asked for
again. `LeaseAsRecorded`: once no command is at work, the record's lease and
rent are those of every holder that still has the pin, but for holders that
missed the last renewal or whose terms a late offer or a killed command
changed: that list is the whole price of `renew` not looking at its answers.

*The file.* `FileAgrees`: what a restart would load is what is held, on the
same terms, but for pins past their lease. `Implements`: stale checks, crashes
and interleavings change the file only as `PinLedger` allows.

*Progress.* `EveryRequestEnds`, `LapsedPinsGo`, `RevocationTakesHold`.

*Algorithms.* `MatchesEvictToFit`, `MatchesSelect`: the loops return what their
closed forms say, `select` in that order. `FitsWithNoneToSpare`,
`PayingPinsStay`: eviction takes no more than it must and unpaid pins first.
`FactorFilled`: as many hosts as asked for or all there are, none twice.
`NoAvoidableOverlap`: two share a fault domain only if every domain that could
be had has one. `ProvenFirst`: no host is passed over for one of its own domain
with less delivered work.

*Money and proofs.* `ChannelsAccounted`: an open channel is the channel of one
replica, on record or in hand, or off the record because opening was not heard,
an expiry failed or was not asked for, or the process died. `ReceiptsFit`: no
receipt takes a channel beyond what it locks, roundings and unknown heights
included, unless the rent it is for is higher than the one the channel was
opened for, which only `renew` brings about. `HealthIsTrue`: the health a pass
records. A holder that kept pin and bytes through the pass, and that no fault
touched, is recorded healthy, though an audit spans a challenge, a gate, two
blob reads and any blocks mined between; who is recorded healthy had the pin in
its held-set at some time in the pass. That it had the bytes is not claimed: a
host that lost them and kept the entry passes on a sibling's (see below).

*The index.* `Accounted`: what a host keeps is on record, in the hands of the
process at work, or in `stray`. A replica goes there only with a process that
is killed, by a reply that comes too late, a release that is not heard,
`rm --local`, or an `add` of a pin on record, which replaces its entry: that
list is what a reader can rely on. `HealthIsOwnAnswer`: the health a process
saves is each holder's own last answer. `NeverOverPlaces`: a pass that grows a
pin ends with no more than the desired number healthy. `EachToItsOwn`: with one
process at a time, an `add` or a pass, which write all pins, leave those they
are not about as they are; with two it fails (`LostUpdate` is an instance).
`OnlyLostUpdates` says how far: when processes overlap, what a command did to a
pin is undone only by a save whose copy another process had overtaken at that
very pin; `rm` and `status`, which load anew, undo nothing. And a replica is
forgotten only by such a save (`OnlyLostUpdatesForget`), never on its way from
a reply to the file or from one process to another. `FactorRestored`: the
daemon restores the factor if there is a host to spare for every loss; with
fewer it would not, for a holder that failed is never offered the pin again.

*Bounds.* Two workers are what it takes for one handler's await to see another
handler's step; the code has no interaction of three. With objects of 1 and 2
bytes and a budget of 2, either fits and both do not, so admission refuses,
collection evicts, and understated lengths overfill. One block makes a lease of
1 end while a lease of 0 and, in `HostPublisher`, of 2 do not. One crash at any
point covers every restart: a restarted host differs from a new one only by its
file, which the runs start from both empty and full. Workers are symmetric in
`HostParallel`, which has no liveness property. `HostPublisher` has one worker
because the statement is about one conversation; without that, a second
publisher's offer may replace the terms of the first, which the code means.
Three hosts and a factor of 2 give a pass a healthy holder, a lost one and one
to place on, and an add one that accepts and one that does not; a second pin,
in `RepairLive` and `IndexShared`, is there to be disturbed. In `IndexShared` a
third process would only overtake as a second does, one host is enough for a
replica to be known or not, and with one value of the terms a change of terms
is seen only as an entry that comes or goes, which is why the theorems for any
terms stand beside it. One loss per behaviour matches the
one host to spare. Hosts are symmetric in `IndexAlone` and `PinLife`, processes and pins in
`IndexShared`. Three
nodes give `select` two of one domain and one of another, and ties in every
place of the order; one of them may be excluded, not on offer, or the
publisher. In `PinLife` the second host is the one a repair turns to; 3 bytes
of 8 and thousandths of 4 make the two roundings of a size differ; rents of 9
and 36 make a lease of an hour lock more than the least and a renewal outgrow it; one block separates a
lease that ends from one that does not, and one fault at any point covers every
timeout, lost answer, kill, eviction and loss of bytes on its own (4.4 million
states; two faults at once are beyond a run of minutes).
Deadlock is checked in all runs.

*Fairness* (`FairSpec`). Weak fairness of each handler: tokio runs every ready
task, every await ends, the fetch by `fetch_timeout`. Weak fairness of `Start`:
`ceapp.toml` restarts the host when it fails. Weak fairness of `Refresh` and
`GcDrop`: the timers tick. Strong fairness of the two outcomes in which the
node answers the maintenance task: it may fail any number of times in a row,
but not for ever. Nothing is assumed about requests, blocks or revocations, nor
about the order of handlers. No fairness is put on the success of a fetch.
In `PinIndex`: weak fairness of the awaits of a process, which have timeouts
(`OFFER_TIMEOUT_MS`, `PROBE_TIMEOUT_MS`); strong fairness of `PassStart`, for
the timer of `watch` ticks whatever commands run; and strong fairness of the
outcomes in which the atlas lists a host that is not on record and a host asked
accepts. The last two are about the world: without them no program could
restore the factor. Nothing is assumed about commands or losses.

## Where the code and its documents differ

Each of these has a run in which TLC finds the documented property violated.

* `RenewShortens` (`NeverShortened`): a renewal "only ever extends the lease
  (never shortens it)", says `docs/protocol.md`; `do_renew` gives an open-ended
  lease (0) whatever end the renewal names.
* `LostUpdate` (`RemovedStaysRemoved`): `rm` is to "Remove a CID from the local
  pin-set"; a repair pass that runs meanwhile saves the copy it loaded before,
  and the pin is back. `add` and `renew` write such copies too.
* `PaidUnproven` (`PaidForProof`): `watch` signs a receipt "per healthy replica
  each pass"; `pay_rent_for` is given the entry as it was before the audits, so
  a holder that just failed is paid and one that recovered is not.
* `RentStalls` (`CumulativeRises`): "cumulative rises each pass the host stays
  healthy" (`src/repair.rs:156`, also line 10 and `README.md:103`); the amount
  is that of one hour in every pass, so from the second on nothing is added.

These were read and have no run of their own; the models do what the code does.

* "an offer that would push the held total over this is rejected"
  (`src/config.rs:10`): the check is on the declared length, so an offer that
  understates overfills the host until the next collection.
* The held-set "must be durable" (`src/held.rs:5`): an offer whose save fails
  is logged and accepted, and a restart forgets it.
* `RepairPlan` and `README.md:65` exclude "the still-healthy" holders;
  `repair_plan` excludes all on record, which never leave it
  (`src/repair.rs:44`), so a host that lost its replica is not offered it again.
* `HeldSet::load` says that for a v0 file "the host re-learns sizes on the next
  status/audit" (`src/held.rs:151`); both only touch the entry, so a migrated
  pin counts for 0 bytes until it is offered again.
* Channels are settled by `rm` only where the host answers `released`
  (`src/main.rs:355`), and never when a lease ends.
* The audit is "gated on the committed held-set so the bytes can never be
  re-sourced from a sibling replica" (`src/host.rs:8`, also `src/host.rs:401`
  and `src/audit.rs:6`): the gate looks at the entry, and a host that kept the
  entry and lost the bytes answers with a sibling's, which `src/host.rs:402`
  and `README.md:127` name as what is left to do.
* "Replicas are spread across distinct fault domains"
  (`src/placement.rs:22`): a repair knows the surviving holders only as hosts to
  exclude (`src/placement.rs:86`), so a replacement may join one of them in its
  domain although another is to be had.
* The audit's nonce is to be fresh; it is derived from the beacon, the CID and
  the chunk's index (`src/audit.rs:66`), hence the same within a block.
* The daemon places anew whatever lapses (`src/repair.rs:110`), on terms whose
  end is past; and an object without chunks never passes an audit
  (`src/client.rs:252`), so every pass places more of it.
* `renew` extends a lease and may raise its rent, and leaves the channel as it
  is, so receipts outgrow it; `ReceiptsFit` therefore excepts a raised rent.

## What is proved

From the assumptions `CidsAssumption`, `MaxBytesAssumption`, `ConfigAssumption`
(finite CIDs, limits and inputs of the right types), with no bound on CIDs,
workers, crashes or blocks.

* `TypeCorrect`: `TypeOK` is an invariant. It is not inductive alone, because a
  handler reads fields that only some requests have; `ReqOK` adds which request
  a worker can hold at each label.
* `SizeGate`: `NoOversizedPin` is an invariant whatever lengths are declared,
  with failing saves and a rotting file, provided the pins of a v0 file fit
  (`LegacyFits`; migration checks nothing). The invariant `SizeInv` has two
  parts more than the property: the file, which may come back as memory, and
  handlers at `refetch` or `commit`, whose CID passed the gate once. The lemma
  `NewPins` says that only a commit adds a CID, `NewLabels` that a handler gets
  past the gate only through it or on a CID that is held.
* `SizesReal`: `RealSizes` is an invariant whatever lengths are declared and
  whatever fails. Of the file, too, for it may come back as memory (`RealIn`).
* `LeaseKept`: `NoEarlyDrop` holds of every behaviour. The invariant `HeightInv`
  says that a height read earlier is never ahead of the chain, and leases that
  are over stay over; for the collector, `CollectedIsDue` uses that fewer pins
  have fewer bytes (`TotalOfSmaller`).
* `BudgetKept`, from `Plain` (one request at a time, honest lengths, no v0
  file): `WithinCapacity` is an invariant, with failing saves, a rotting file
  and crashes. `RoomInv` adds the file, real sizes, and that while an object is
  fetched there is room for it beside all others, whether it was admitted
  (`AdmittedFits`) or was held when offered and needed no admission; what is
  removed meanwhile only makes room (`LosingStep`, from `TotalOfMember` and
  `TotalOfSmaller`).
* `ReleaseFinal`, from `Alone` (one request at a time): `ReleaseIsFinal` is an
  invariant, whatever fails. `GoneInv` says that a positive answer to a release
  is true from the moment it is made, and that nothing is done about a CID the
  publisher has dismissed.
* `PromiseKept`, `LeaseTold`, from `Sound` (`Plain`, and the file takes every
  save): `PublisherCanRely` and `LeaseAsTold` are invariants. `RelyInv` joins
  `HeightInv` and `RoomInv`: memory loses only pins past their lease, for a
  collector within its budget evicts nothing (`LossIsDue`); a pin on a promised
  lease keeps it through every step that is not about it (`KeepsNext`); a
  positive answer is true when it is made (`AnswerHolds`).
* `FileTrue`: `FileAgrees` is an invariant while saves succeed. Apart from the
  drop in `do_offer` and touches, every change of memory is saved with it; the
  drop is justified by `HeightInv`, the touch by `TermsOf`.
* `LedgerKept`: `PinHost` implements `PinLedger` (`Implements`) while saves
  succeed and the file does not rot. With `FileAgrees` before a step, what the
  step writes is compared with what the file had: each handler's save is its
  ledger step (`CommitRefines`, `RenewRefines`, `ReleaseRefines`), the rest of
  the file keeping its terms or losing pins past their lease (`OthersKept`).
  The collector's save is `Clear` or `Evict` (`GcRefines`), by two lemmas about
  the order of eviction: what is left fits (`EvictionFits`) and would not with
  the last victim (`LastVictimNeeded`). `UpInv` rules out a handler at work in a
  process that is down.

For `EvictLoop`, from `CasesAssumption` (well-formed arguments), for held-sets
of any size: `LoopMatches` (`MatchesEvictToFit`), `NoneToSpare`
(`FitsWithNoneToSpare`), `PayersStay` (`PayingPinsStay`). In `LoopInv`, the
victims so far are the front of the eviction order and victims of the closed
form (`FrontInv`), and `need` is what the rest is over the target by
(`NeedInv`). So the theorems about `PinHost`, which evicts in one step, are
about the loop the code runs.

For `PinIndex`, from `IndexAssumption`, with no bound on pins, hosts, processes
or losses:

* `IndexTypeCorrect`: `IndexTypeOK` is an invariant, whatever overlaps. A save
  writes what was carried through several steps, so the invariant `IndexInv`
  adds what a process carries at each (`Carries`): the pin it is at is on its
  copy, and channels were opened to hosts that accepted.
* `NothingForgotten`: `Accounted` is an invariant as long as processes do not
  overlap (`"overlap" \notin Slips`; with it, `LostUpdate` shows the contrary of
  a like property). `AccountInv` adds that an idle process holds nothing
  (`NeatInv`), that one process is at work at a time, and that the copy it will
  write back records every holder the file does (`CopyAhead`). Two groups of
  lemmas carry it. `OneActs` says what an action does to its process: it loads
  the index, goes on with a copy that has lost nothing, or has none to write
  back. `ActsTracks` says, of a replica, that what the process, the index or
  `stray` knew of it before the action one of them knows after.
* `LossIsByStaleSave` (`OnlyLostUpdates`) and `ForgottenByStaleSave`
  (`OnlyLostUpdatesForget`), with any number of overlapping processes, of
  `SharedSpec`. The same two groups of lemmas serve, with `CurrentInv` in place
  of `CopyAhead`: a copy has every holder and the terms on file of each pin that
  is not in `behind`. So a save of such a pin is as if made alone (`OwnWork`),
  and what is known stays known (`KnownStays`).
* `HealthIsOwn`, `NeverOver`, under the same condition: `HealthIsOwnAnswer` and
  `NeverOverPlaces` hold of every step. They speak of a save, which writes what
  was gathered long before, so the invariant `HonestInv` follows it from the
  load on: the copy of `add` and `renew` is the index; of the holders a process
  has asked, those are noted that said yes (`Noted`); a pass has of each pin
  either the entry on file or one marked by the holders' last answers, on the
  same terms, with every holder on file and no more healthy than wanted if it
  grew (`Worked`); and offers go to hosts that are not on record, no more than
  are missing (`Offered`). `SameWork` says that an answer about one pin leaves
  what is held of the others true.

For `PinLife`, from `LifeAssumption` alone, for any hosts, rents, leases,
chunks, channels, blocks and faults. All rest on `LifeInv`:

* `LifeTypeCorrect` (`LifeTypeOK`) and `ChannelsKept` (`ChannelsAccounted`).
  Neither is inductive. `ChannelsAccounted` lets two hosts in hand have one
  channel and lets `loose` name an id that is closed and may be given out anew;
  `IdsInv` says that no id has two places, in the record, in hand or in
  `loose`, and that each is open. `Stages` says which command is at which
  await and what it has in hand there, `Placing` that each host is offered the
  pin once and that channels in hand are those of hosts that took it,
  `OnRecord` what a renewal, a pass and a removal know of the entry, such as
  that a repair offers only to hosts that are not on it.
* `LeaseRecorded` (`LeaseAsRecorded`). `TermsInv` follows the two moments at
  which record and hosts differ: while a renewal is at work, the hosts that
  took the new terms go by those and the others by the recorded ones; while
  offers are out, the hosts that accepted go by the terms in hand. The history
  `missed` has exactly the exceptions the property names.
* `HealthTrue` (`HealthIsTrue`). `SeenInv` says that every host that has the
  pin in a pass was seen with it, and that a proof can only wait to be given at
  a host that passed the gate of `do_audit` and so had it; `SteadyInv`, that a
  steady holder has pin and bytes, that the challenge it was put is one it can
  answer, whatever the tip is by now, and that it has passed once it is asked.
* `ReceiptsFitChannels` (`ReceiptsFit`). `CapInv` says that a channel locks at
  least one hour's rent at the rent it was opened for. Its step is arithmetic:
  the locked amount rounds the size up and counts an hour at least, the receipt
  rounds down and counts one (`CapacityCovers`); rent grows with the rate
  (`RentGrows`); and only `Pay` signs, for the record's rent (`SignedByPay`).

For `Placement`, from `PlacementAssumption`, for any atlas, exclusions and
number asked for: `Filled` (`FactorFilled`), `Spread` (`NoAvoidableOverlap`)
and `MostWorkFirst` (`ProvenFirst`). The invariant `SelectInv` says what the
loops have done so far: each host is picked once, and the second loop leaves
nobody it came to (`PickInv`); every domain the first loop came to has one host
(`SpreadInv`); and a host that is passed over is worse than the picked one of
its domain (`OrderInv`). `LoopsMatch` (`MatchesSelect`) is stronger: the loops
return the closed form, in its order. `Better` is a strict total order
(`BetterOrders`), so a place in the result is the number of those ahead
(`PositionIs`), and `RankInv` says that each loop goes down the ranking: the
picked ones are the best of their domains so far, in order, then the best of
the rest.

`ViewTypeCorrect`: `ViewTypeOK` is an invariant of `PublisherView` with any
number of workers and any failures; `Answered` adds to it that no worker
replies before it has an answer.

Every invariant and every action property that the passing runs check is thus a
theorem, some under conditions on failures and overlap that are named above, but
for `EachToItsOwn`, which `LossIsByStaleSave` generalises: without overlap
`behind` stays empty. Only model-checked: that, and liveness
(`EveryRequestEnds`, `LapsedPinsGo`, `RevocationTakesHold`, `FactorRestored`),
which needs fairness and ENABLED and is out of the prover's reach. That
`MaxFaults`, `MaxDrops` and the other bounds do not matter is what the theorems
add to the runs; that the constants of the model stand for the code's is not
proved but read.

## Not modelled

Capability material (`caps.rs`, `lib.rs`) is read from files and variables and
kept nowhere. Metrics are independent counters that are logged. Reading the
configuration from the environment, parsing and printing of the command line,
`get`, `ls` and `announce`, re-advertising, and the JSON form of messages and
files change no state the properties are about. The node, its serve loop and
the chain are external: only what the program can see of them is modelled. A
power loss that undoes a completed write is below what the code claims, and so
is not a step.

## Plan

In this order.

1. For `PinLife`: how far a late offer can set a host's terms apart from the
   record, as an invariant of `missed`.
2. For `PinHost` without `Plain`: by how much understated lengths and several
   workers can overfill the budget before the next collection.
