------------------------------ MODULE PinLife ------------------------------
(***************************************************************************)
(* One pin from add to rm, with what the publisher and its hosts agree on: *)
(* the lease and the rent on record and at each host, the proofs a host    *)
(* gives, and the payment channels and receipts.  One publisher process at *)
(* a time: PinIndex has them overlap, and PinHost has the host's side in   *)
(* full.  An offer may take effect after the publisher has given up on it. *)
(***************************************************************************)
EXTENDS Integers, FiniteSets, FiniteSetsExt

CONSTANTS
    Hosts,          \* nodes that may hold the pin
    Desired,        \* --replication
    Rates,          \* --rent of add, per GB-hour, in base units
    RenewRates,     \* --rent of renew
    Spans,          \* --expiry-blocks of add, 0 for open-ended
    RenewSpans,     \* --expiry-blocks of renew
    Bytes,          \* the object's size
    Gib, Milli,     \* 2^30 and 1000 in the code
    BlocksPerHour,  \* 360 in the code
    Credit,         \* the least a channel locks
    Chunks,         \* how many chunks the object has
    Digest,         \* [0..MaxTip -> Nat]: what a beacon hashes to, with the CID
    ChannelIds,     \* bound: channels open at once
    NoHost, NoDeal, NoChannel, NoRecord,
    MaxTip,         \* bound: the chain's height
    MaxFaults       \* bound: how many things go wrong: requests that fail or
                    \* whose answer is lost, kills, evictions, bytes lost

DealFields == [rate : Nat, expiry : Nat]
ChannelFields == [cap : Nat, rate : Nat, paid : Nat]
Chans == [Hosts -> ChannelIds \cup {NoChannel}]
RecordFields == [rate : Nat, expiry : Nat, held : SUBSET Hosts, ok : SUBSET Hosts,
                 chan : Chans]

ASSUME LifeAssumption ==
    /\ IsFiniteSet(Hosts) /\ NoHost \notin Hosts
    /\ {Desired, Bytes, Credit, Chunks, MaxTip, MaxFaults} \subseteq Nat
    /\ {Gib, Milli, BlocksPerHour} \subseteq Nat \ {0}
    /\ Rates \cup RenewRates \subseteq Nat /\ Spans \subseteq Nat /\ RenewSpans \subseteq Nat \ {0}
    /\ Digest \in [0..MaxTip -> Nat]
    /\ NoChannel \notin ChannelIds \cup ChannelFields
    /\ NoDeal \notin DealFields /\ NoRecord \notin RecordFields

VARIABLES
    tip,      \* the chain's height
    record,   \* the entry of pins.json
    deal,     \* what each host holds the pin on
    lost,     \* hosts that lost the object's bytes, not the entry for the pin
    pending,  \* an offer a host still works on though nobody waits for it
    channel,  \* open payment channels
    proc,     \* the ce-pin process at work
    faults,   \* how many things have gone wrong

    \* History, read by no action:
    seen,     \* hosts that had the pin when the pass started, or since
    steady,   \* hosts that had the pin and its bytes all the pass, with no fault
    missed,   \* holders whose terms the last renewal, or a late offer, changed
              \* otherwise than the record
    loose     \* channels off the record for a reason the code accepts

lifeVars == <<tip, record, deal, lost, pending, channel, proc, faults, seen, steady, missed, loose>>

----------------------------------------------------------------------------
(* Money *)

(* Mutant: a lease below an hour counts as none.                            *)
LeaseHoursFloored(expiry, t) ==
    (IF expiry > t THEN expiry - t ELSE 0) \div BlocksPerHour

LeaseHours(expiry, t) ==
    Max({1, (IF expiry > t THEN expiry - t ELSE 0) \div BlocksPerHour})

(* Milli-GB rounded up, and a credit at least.                              *)
ChannelCapacity(rate, hours) ==
    LET milliGb == Max({1, (Bytes * Milli + Gib - 1) \div Gib})
    IN  Max({Credit, (rate * milliGb * hours) \div Milli})

(* Milli-GB rounded down.                                                   *)
RentOwed(rate, hours) == (rate * ((Bytes * Milli) \div Gib) * hours) \div Milli

NoChans == [h \in Hosts |-> NoChannel]
Ids(chans) == {chans[h] : h \in Hosts} \ {NoChannel}
Open == {i \in ChannelIds : channel[i] # NoChannel}

----------------------------------------------------------------------------
(* Proofs of retrievability; a hash is the tuple of what goes into it, and  *)
(* a chunk is its index.                                                    *)

ChallengeIndex(beacon) == IF Chunks = 0 THEN 0 ELSE Digest[beacon] % Chunks

NonceFromSeed(beacon, index) == <<beacon, index>>

ProofOf(chunk, nonce) == <<chunk, nonce>>

Verify(expected, nonce, proof) == ProofOf(expected, nonce) = proof

NoChallenge == [index |-> 0, nonce |-> <<>>]

----------------------------------------------------------------------------
(* Leases *)

Terms(rate, expiry) == [rate |-> rate, expiry |-> expiry]

(* do_renew at the host                                                     *)
Extended(d, rate, expiry) ==
    [rate |-> rate,
     expiry |-> IF expiry > d.expiry \/ d.expiry = 0 THEN expiry ELSE d.expiry]

(* HeldSet::expired *)
Over(d) == d # NoDeal /\ d.expiry # 0 /\ d.expiry <= tip

(* No answer from the publisher's node reads as height 0.                   *)
TipAnswers == {tip, 0}

(* cmd: "add", "renew", "pass", "rm"; at: the await it is at; todo: hosts   *)
(* still to ask; rate, expiry: terms it asks for; host: the one it is       *)
(* dealing with, and the challenge put to it; got: hosts that took the      *)
(* terms; chan: channels in hand; passed: hosts that proved; signed: hosts  *)
(* a receipt was signed for.                                                *)
Idle == [cmd |-> "none", at |-> "idle", todo |-> {}, rate |-> 0, expiry |-> 0,
         host |-> NoHost, challenge |-> NoChallenge, got |-> {}, chan |-> NoChans,
         passed |-> {}, signed |-> {}]

(* select: at most n hosts, none excluded (module Placement).               *)
Chosen(n, exclude) == UNION {kSubset(k, Hosts \ exclude) : k \in 0 .. n}

Init ==
    /\ tip = 0
    /\ record = NoRecord
    /\ deal = [h \in Hosts |-> NoDeal]
    /\ lost = {}
    /\ pending = [h \in Hosts |-> NoDeal]
    /\ channel = [i \in ChannelIds |-> NoChannel]
    /\ proc = Idle
    /\ faults = 0
    /\ seen = {} /\ steady = {} /\ missed = {} /\ loose = {}

(* Something goes wrong, unless all is well.                                *)
Slip(well) ==
    /\ well \/ faults < MaxFaults
    /\ faults' = IF well THEN faults ELSE faults + 1

----------------------------------------------------------------------------
(* replicate *)

Offering(h) == proc.at = "offer" /\ h \in proc.todo

Accept(h) ==
    /\ Offering(h)
    /\ deal' = [deal EXCEPT ![h] = Terms(proc.rate, proc.expiry)]
    /\ proc' = [proc EXCEPT !.todo = @ \ {h}, !.got = @ \cup {h}, !.host = h,
                            !.at = IF proc.rate > 0 /\ proc.expiry > 0
                                   THEN "fund" ELSE "offer"]
    /\ lost' = lost \ {h}
    /\ missed' = missed \ {h}
    /\ UNCHANGED <<tip, record, pending, channel, faults, seen, steady, loose>>

(* Declined, or the request did not arrive.                                 *)
Decline(h) ==
    /\ Offering(h)
    /\ proc' = [proc EXCEPT !.todo = @ \ {h}]
    /\ UNCHANGED <<tip, record, deal, lost, pending, channel, faults, seen, steady, missed, loose>>

(* The offer times out; the host goes on with it.                           *)
GiveUp(h) ==
    /\ Offering(h) /\ pending[h] = NoDeal
    /\ proc' = [proc EXCEPT !.todo = @ \ {h}]
    /\ pending' = [pending EXCEPT ![h] = Terms(proc.rate, proc.expiry)]
    /\ Slip(FALSE)
    /\ UNCHANGED <<tip, record, deal, lost, channel, seen, steady, missed, loose>>

(* The node picks an id; which one makes no difference.                     *)
FreeId == CHOOSE i \in ChannelIds \ Open : TRUE

(* channel_open; heard tells if its answer arrives.                         *)
OpenChannel(heard) ==
    /\ proc.at = "fund" /\ Open # ChannelIds
    /\ \E t \in TipAnswers :
        /\ Slip(t = tip /\ heard)
        /\ channel' = [channel EXCEPT ![FreeId] =
                [cap |-> ChannelCapacity(proc.rate, LeaseHours(proc.expiry, t)),
                 rate |-> proc.rate, paid |-> 0]]
    /\ proc' = [proc EXCEPT !.at = "offer", !.host = NoHost,
                            !.chan[proc.host] = IF heard THEN FreeId ELSE @]
    /\ loose' = IF heard THEN loose ELSE loose \cup {FreeId}
    /\ UNCHANGED <<tip, record, deal, lost, pending, seen, steady, missed>>

(* The pin stands, unpaid.  With all ChannelIds in use an opening fails.    *)
OpenFails ==
    /\ proc.at = "fund"
    /\ proc' = [proc EXCEPT !.at = "offer", !.host = NoHost]
    /\ Slip(Open = ChannelIds)
    /\ UNCHANGED <<tip, record, deal, lost, pending, channel, seen, steady, missed, loose>>

----------------------------------------------------------------------------
(* add and renew *)

AddStart ==
    /\ proc.at = "idle"
    /\ \E rate \in Rates, span \in Spans, hs \in Chosen(Desired, {}) :
       \E expiry \in {0} \cup {tip + s : s \in {span} \ {0}} :
            /\ Slip(expiry > 0 \/ span = 0)
            /\ proc' = [Idle EXCEPT !.cmd = "add", !.at = "offer", !.todo = hs,
                                    !.rate = rate, !.expiry = expiry]
    /\ UNCHANGED <<tip, record, deal, lost, pending, channel, seen, steady, missed, loose>>

RecordedIds == IF record = NoRecord THEN {} ELSE Ids(record.chan)

(* Mutant: upsert keeps the channels of the entry it replaces.              *)
AddSaveKeeping ==
    /\ proc.cmd = "add" /\ proc.at = "offer" /\ proc.todo = {}
    /\ record' = [rate |-> proc.rate, expiry |-> proc.expiry, held |-> proc.got,
                  ok |-> proc.got,
                  chan |-> [h \in Hosts |->
                      IF record = NoRecord \/ h \in proc.got THEN proc.chan[h]
                      ELSE record.chan[h]]]
    /\ missed' = missed \cap proc.got
    /\ proc' = Idle
    /\ UNCHANGED <<tip, deal, lost, pending, channel, faults, seen, steady, loose>>

(* upsert: an entry for the CID is replaced, channels and all.              *)
AddSave ==
    /\ proc.cmd = "add" /\ proc.at = "offer" /\ proc.todo = {}
    /\ record' = [rate |-> proc.rate, expiry |-> proc.expiry, held |-> proc.got,
                  ok |-> proc.got, chan |-> proc.chan]
    /\ loose' = loose \cup RecordedIds
    /\ missed' = missed \cap proc.got
    /\ proc' = Idle
    /\ UNCHANGED <<tip, deal, lost, pending, channel, faults, seen, steady>>

RenewStart ==
    /\ proc.at = "idle" /\ record # NoRecord
    /\ \E rate \in RenewRates \cup {record.rate}, span \in RenewSpans, t \in TipAnswers :
        /\ Slip(t = tip)
        /\ proc' = [Idle EXCEPT !.cmd = "renew", !.at = "renew", !.todo = record.held,
                                !.rate = rate, !.expiry = t + span]
    /\ UNCHANGED <<tip, record, deal, lost, pending, channel, seen, steady, missed, loose>>

(* The host renews; its answer, heard or not, changes nothing here.         *)
Renew(h) ==
    /\ proc.at = "renew" /\ h \in proc.todo /\ deal[h] # NoDeal
    /\ deal' = [deal EXCEPT ![h] = Extended(@, proc.rate, proc.expiry)]
    /\ proc' = [proc EXCEPT !.todo = @ \ {h}, !.got = @ \cup {h}]
    /\ missed' = missed \ {h}
    /\ UNCHANGED <<tip, record, lost, pending, channel, faults, seen, steady, loose>>

RenewFails(h) ==
    /\ proc.at = "renew" /\ h \in proc.todo
    /\ proc' = [proc EXCEPT !.todo = @ \ {h}]
    /\ Slip(deal[h] = NoDeal)
    /\ UNCHANGED <<tip, record, deal, lost, pending, channel, seen, steady, missed, loose>>

RenewDone == proc.at = "renew" /\ proc.todo = {}

(* Mutant: the new expiry is reckoned again when it is recorded.            *)
RenewSaveAnew ==
    /\ RenewDone
    /\ \E span \in RenewSpans :
        record' = [record EXCEPT !.rate = proc.rate, !.expiry = tip + span]
    /\ missed' = missed \cup (record.held \ proc.got)
    /\ proc' = Idle
    /\ UNCHANGED <<tip, deal, lost, pending, channel, faults, seen, steady, loose>>

(* Recorded whatever the holders answered.                                  *)
RenewSave ==
    /\ RenewDone
    /\ record' = [record EXCEPT !.rate = proc.rate, !.expiry = proc.expiry]
    /\ missed' = missed \cup (record.held \ proc.got)
    /\ proc' = Idle
    /\ UNCHANGED <<tip, deal, lost, pending, channel, faults, seen, steady, loose>>

----------------------------------------------------------------------------
(* A pass of the repair daemon *)

PassStart ==
    /\ proc.at = "idle" /\ record # NoRecord
    /\ proc' = [Idle EXCEPT !.cmd = "pass", !.at = "audit", !.todo = record.held,
                            !.rate = record.rate, !.expiry = record.expiry]
    /\ seen' = {h \in Hosts : deal[h] # NoDeal}
    /\ steady' = seen' \ lost
    /\ UNCHANGED <<tip, record, deal, lost, pending, channel, faults, missed, loose>>

(* audit_replica up to its request; an empty object gets none.              *)
Challenge(h) ==
    /\ proc.at = "audit" /\ h \in proc.todo /\ Chunks > 0
    /\ proc' = [proc EXCEPT !.at = "gate", !.todo = @ \ {h}, !.host = h,
                            !.challenge =
                                [index |-> ChallengeIndex(tip),
                                 nonce |-> NonceFromSeed(tip, ChallengeIndex(tip))]]
    /\ UNCHANGED <<tip, record, deal, lost, pending, channel, faults, seen, steady, missed, loose>>

(* do_audit's look at the held-set                                          *)
Gate ==
    /\ proc.at = "gate" /\ deal[proc.host] # NoDeal
    /\ proc' = [proc EXCEPT !.at = "prove"]
    /\ UNCHANGED <<tip, record, deal, lost, pending, channel, faults, seen, steady, missed, loose>>

(* Mutant: the auditor derives the nonce again, from the beacon of now.     *)
ProveAnew ==
    /\ proc.at = "prove" /\ proc.challenge.index < Chunks
    /\ LET c == proc.challenge
       IN  proc' = [proc EXCEPT
                !.at = "audit", !.host = NoHost, !.challenge = NoChallenge,
                !.passed = IF Verify(c.index, NonceFromSeed(tip, c.index),
                                     ProofOf(c.index, c.nonce))
                           THEN @ \cup {proc.host} ELSE @]
    /\ UNCHANGED <<tip, record, deal, lost, pending, channel, faults, seen, steady, missed, loose>>

(* get_blob reads the disk, and the mesh when the bytes are not there: a    *)
(* host that lost them, or has dropped the pin since the gate, proves with  *)
(* a sibling's or the publisher's, and keeps no more of the object for it.  *)
Prove ==
    /\ proc.at = "prove" /\ proc.challenge.index < Chunks
    /\ LET c == proc.challenge
       IN  proc' = [proc EXCEPT
                !.at = "audit", !.host = NoHost, !.challenge = NoChallenge,
                !.passed = IF Verify(c.index, c.nonce, ProofOf(c.index, c.nonce))
                           THEN @ \cup {proc.host} ELSE @]
    /\ UNCHANGED <<tip, record, deal, lost, pending, channel, faults, seen, steady, missed, loose>>

(* An audit may fail though every request is served: there is no chunk to   *)
(* ask for, no entry at the gate, or no copy of the bytes to be had.        *)
NoProof(h) ==
    \/ Chunks = 0
    \/ proc.at \in {"gate", "prove"} /\ deal[h] = NoDeal
    \/ proc.at = "prove" /\ (h \in lost \/ proc.challenge.index >= Chunks)

(* No manifest, no beacon, no answer or no proof.                           *)
AuditFails(h) ==
    /\ \/ proc.at = "audit" /\ h \in proc.todo
       \/ proc.at \in {"gate", "prove"} /\ h = proc.host
    /\ Slip(NoProof(h))
    /\ proc' = [proc EXCEPT !.at = "audit", !.todo = @ \ {h}, !.host = NoHost,
                            !.challenge = NoChallenge]
    /\ steady' = IF NoProof(h) THEN steady ELSE steady \ {h}
    /\ UNCHANGED <<tip, record, deal, lost, pending, channel, seen, missed, loose>>

(* pay_rent_for goes by the health on record, not by this pass's.           *)
Audited ==
    /\ proc.at = "audit" /\ proc.todo = {}
    /\ proc' = [proc EXCEPT
            !.at = "pay",
            !.todo = {h \in record.ok : record.rate > 0 /\ record.chan[h] # NoChannel}]
    /\ UNCHANGED <<tip, record, deal, lost, pending, channel, faults, seen, steady, missed, loose>>

(* A receipt for one hour, whatever was paid before.                        *)
Pay(h) ==
    /\ proc.at = "pay" /\ h \in proc.todo
    /\ channel' = [channel EXCEPT ![record.chan[h]].paid =
                        Max({@, RentOwed(record.rate, 1)})]
    /\ proc' = [proc EXCEPT !.todo = @ \ {h}, !.signed = @ \cup {h}]
    /\ UNCHANGED <<tip, record, deal, lost, pending, faults, seen, steady, missed, loose>>

PayFails(h) ==
    /\ proc.at = "pay" /\ h \in proc.todo
    /\ proc' = [proc EXCEPT !.todo = @ \ {h}]
    /\ Slip(FALSE)
    /\ UNCHANGED <<tip, record, deal, lost, pending, channel, seen, steady, missed, loose>>

(* repair_plan; nothing to place is a choice of no hosts.                   *)
Plan ==
    /\ proc.at = "pay" /\ proc.todo = {}
    /\ LET healthy == Cardinality(record.held \cap proc.passed)
           toPlace == IF healthy < Desired THEN Desired - healthy ELSE 0
       IN  \E hs \in Chosen(toPlace, record.held) :
                proc' = [proc EXCEPT !.at = "offer", !.todo = hs, !.signed = {}]
    /\ UNCHANGED <<tip, record, deal, lost, pending, channel, faults, seen, steady, missed, loose>>

PassDone == proc.cmd = "pass" /\ proc.at = "offer" /\ proc.todo = {}

(* Mutant: the new replicas are recorded without their channels.            *)
PassSaveUnfunded ==
    /\ PassDone
    /\ record' = [record EXCEPT !.held = @ \cup proc.got,
                                !.ok = (record.held \cap proc.passed) \cup proc.got]
    /\ proc' = Idle /\ seen' = {} /\ steady' = {}
    /\ UNCHANGED <<tip, deal, lost, pending, channel, faults, missed, loose>>

(* The health found, and the new replicas.                                  *)
PassSave ==
    /\ PassDone
    /\ record' = [record EXCEPT
            !.held = @ \cup proc.got,
            !.ok = (record.held \cap proc.passed) \cup proc.got,
            !.chan = [h \in Hosts |-> IF h \in proc.got THEN proc.chan[h] ELSE @[h]]]
    /\ proc' = Idle /\ seen' = {} /\ steady' = {}
    /\ UNCHANGED <<tip, deal, lost, pending, channel, faults, missed, loose>>

----------------------------------------------------------------------------
(* rm *)

Rm ==
    /\ proc.at = "idle" /\ record # NoRecord
    /\ record' = NoRecord
    /\ proc' = [Idle EXCEPT !.cmd = "rm", !.at = "release", !.todo = record.held,
                            !.chan = record.chan]
    /\ missed' = {}
    /\ UNCHANGED <<tip, deal, lost, pending, channel, faults, seen, steady, loose>>

RmLocal ==
    /\ proc.at = "idle" /\ record # NoRecord
    /\ record' = NoRecord
    /\ loose' = loose \cup Ids(record.chan)
    /\ missed' = {}
    /\ UNCHANGED <<tip, deal, lost, pending, channel, proc, faults, seen, steady>>

(* channel_expire is only asked for when the host says it released the pin; *)
(* expired tells if it succeeds.                                            *)
Release(h, expired) ==
    /\ proc.at = "release" /\ h \in proc.todo /\ deal[h] # NoDeal
    /\ deal' = [deal EXCEPT ![h] = NoDeal]
    /\ LET mine == {proc.chan[h]} \ {NoChannel}
       IN  IF expired
           THEN /\ channel' = [i \in ChannelIds |->
                                   IF i \in mine THEN NoChannel ELSE channel[i]]
                /\ UNCHANGED loose
           ELSE loose' = loose \cup mine /\ UNCHANGED channel
    /\ proc' = [proc EXCEPT !.todo = @ \ {h}, !.chan[h] = NoChannel]
    /\ Slip(expired)
    /\ UNCHANGED <<tip, record, lost, pending, seen, steady, missed>>

(* It does not hold the pin, is not reached, or is not heard.               *)
ReleaseFails(h) ==
    /\ proc.at = "release" /\ h \in proc.todo
    /\ deal' \in {deal, [deal EXCEPT ![h] = NoDeal]}
    /\ loose' = loose \cup ({proc.chan[h]} \ {NoChannel})
    /\ proc' = [proc EXCEPT !.todo = @ \ {h}, !.chan[h] = NoChannel]
    /\ Slip(deal[h] = NoDeal)
    /\ UNCHANGED <<tip, record, lost, pending, channel, seen, steady, missed>>

RmEnd ==
    /\ proc.at = "release" /\ proc.todo = {}
    /\ proc' = Idle
    /\ UNCHANGED <<tip, record, deal, lost, pending, channel, faults, seen, steady, missed, loose>>

----------------------------------------------------------------------------
(* What happens to a process, and at the hosts *)

Kill ==
    /\ proc.at # "idle"
    /\ proc' = Idle /\ seen' = {} /\ steady' = {}
    /\ loose' = loose \cup Ids(proc.chan)
    /\ missed' = missed \cup proc.got
    /\ Slip(FALSE)
    /\ UNCHANGED <<tip, record, deal, lost, pending, channel>>

(* The late offer replaces the terms, if the host has the pin by now.       *)
Land(h) ==
    /\ pending[h] # NoDeal
    /\ deal' = [deal EXCEPT ![h] = pending[h]]
    /\ pending' = [pending EXCEPT ![h] = NoDeal]
    /\ lost' = lost \ {h}
    /\ missed' = missed \cup {h}
    /\ seen' = seen \cup {h}
    /\ UNCHANGED <<tip, record, channel, proc, faults, steady, loose>>

Abandon(h) ==
    /\ pending[h] # NoDeal
    /\ pending' = [pending EXCEPT ![h] = NoDeal]
    /\ UNCHANGED <<tip, record, deal, lost, channel, proc, faults, seen, steady, missed, loose>>

(* run_gc: the lease is over, or the disk is full.                          *)
Collect(h) ==
    /\ Over(deal[h])
    /\ deal' = [deal EXCEPT ![h] = NoDeal]
    /\ steady' = steady \ {h}
    /\ UNCHANGED <<tip, record, lost, pending, channel, proc, faults, seen, missed, loose>>

Evict(h) ==
    /\ deal[h] # NoDeal /\ Slip(FALSE)
    /\ deal' = [deal EXCEPT ![h] = NoDeal]
    /\ steady' = steady \ {h}
    /\ UNCHANGED <<tip, record, lost, pending, channel, proc, seen, missed, loose>>

(* The node loses the blobs; the held-set knows nothing of it.              *)
LoseBytes(h) ==
    /\ deal[h] # NoDeal /\ h \notin lost /\ Slip(FALSE)
    /\ lost' = lost \cup {h}
    /\ steady' = steady \ {h}
    /\ UNCHANGED <<tip, record, deal, pending, channel, proc, seen, missed, loose>>

Mine ==
    /\ tip < MaxTip
    /\ tip' = tip + 1
    /\ UNCHANGED <<record, deal, lost, pending, channel, proc, faults, seen, steady, missed, loose>>

Replicate ==
    \/ \E h \in Hosts : Accept(h) \/ Decline(h) \/ GiveUp(h)
    \/ \E heard \in BOOLEAN : OpenChannel(heard)
    \/ OpenFails

RenewCommand == RenewStart \/ (\E h \in Hosts : Renew(h) \/ RenewFails(h)) \/ RenewSave

Pass ==
    \/ PassStart \/ Gate \/ Prove \/ Audited \/ Plan \/ PassSave
    \/ \E h \in Hosts : Challenge(h) \/ AuditFails(h) \/ Pay(h) \/ PayFails(h)

RmCommand ==
    \/ Rm \/ RmLocal \/ RmEnd
    \/ \E h \in Hosts : ReleaseFails(h) \/ \E expired \in BOOLEAN : Release(h, expired)

HostStep == \E h \in Hosts : Land(h) \/ Abandon(h) \/ Collect(h) \/ Evict(h) \/ LoseBytes(h)

Next ==
    \/ Replicate \/ AddStart \/ AddSave \/ RenewCommand \/ Pass \/ RmCommand
    \/ Kill \/ HostStep \/ Mine

Spec == Init /\ [][Next]_lifeVars

----------------------------------------------------------------------------

(* The entry of pins.json is well formed: health and channels are of        *)
(* holders (Replica in pinset.rs).                                          *)
LifeTypeOK ==
    /\ tip \in 0..MaxTip /\ lost \subseteq Hosts
    /\ deal \in [Hosts -> DealFields \cup {NoDeal}]
    /\ pending \in [Hosts -> DealFields \cup {NoDeal}]
    /\ channel \in [ChannelIds -> ChannelFields \cup {NoChannel}]
    /\ record \in RecordFields \cup {NoRecord}
    /\ record # NoRecord =>
          /\ record.ok \subseteq record.held
          /\ \A h \in Hosts : record.chan[h] # NoChannel => h \in record.held
    /\ {proc.todo, proc.got, proc.passed} \subseteq SUBSET Hosts
    /\ proc.chan \in Chans

(* A lease that lasts at least as long as the other.                        *)
Covers(d, expiry) == d.expiry = 0 \/ (expiry # 0 /\ d.expiry >= expiry)

(* What pins.json says of the lease and the rent is what each holder that   *)
(* still has the pin goes by, or better: except those that missed the last  *)
(* renewal, or that a late offer or a killed command changed (main.rs:409   *)
(* records the renewal whatever the holders answered; do_renew).            *)
LeaseAsRecorded ==
    proc.at = "idle" /\ record # NoRecord =>
        \A h \in record.held \ missed :
            deal[h] # NoDeal => /\ Covers(deal[h], record.expiry)
                                /\ deal[h].rate = record.rate

(* No receipt takes a channel past what it locks unless renew raised the    *)
(* rent after the channel was opened: the estimate of channel_capacity_for, *)
(* taken from whatever tip was read, is never below what pay_rent_for asks. *)
ReceiptsFit ==
    [][\A h \in proc'.signed \ proc.signed :
          LET i == record.chan[h]
              c == channel'[i]
          IN  record.rate <= c.rate /\ channel[i].paid <= c.cap =>
                  c.paid <= c.cap]_lifeVars

(* Every open channel is the channel of one replica, on record or in hand,  *)
(* or off the record for a reason the code accepts: no channel is paid on   *)
(* for two holders, and rm, a repair pass or a kill forgets none (replicate,*)
(* repair_once, cmd_rm).                                                    *)
ChannelsAccounted ==
    /\ Open = RecordedIds \cup Ids(proc.chan) \cup (loose \cap Open)
    /\ RecordedIds \cap Ids(proc.chan) = {}
    /\ loose \cap (RecordedIds \cup Ids(proc.chan)) = {}
    /\ record # NoRecord =>
          \A g, h \in Hosts : g # h /\ record.chan[g] # NoChannel =>
                                  record.chan[g] # record.chan[h]

(* The health a pass records is true.  A holder that kept the pin and its   *)
(* bytes all through, and that no fault touched, is recorded healthy, though*)
(* blocks are mined between challenge and proof (audit_replica derives index*)
(* and nonce from one beacon).  A holder recorded healthy had the pin in its*)
(* held-set at some time in the pass (do_audit's gate); not the bytes: see  *)
(* Prove.                                                                   *)
HealthIsTrue ==
    [][PassSave =>
          /\ Chunks > 0 => record.held \cap steady \subseteq record'.ok
          /\ record'.ok \cap record.held \subseteq seen]_lifeVars

(* repair.rs: "cumulative rises each pass the host stays healthy".          *)
CumulativeRises ==
    [][\A h \in proc'.signed \ proc.signed :
          h \in proc.passed /\ channel[record.chan[h]].paid > 0 =>
              channel'[record.chan[h]].paid > channel[record.chan[h]].paid]_lifeVars

=============================================================================
