------------------------------ MODULE PinHost ------------------------------
(***************************************************************************)
(* A pinning host, `ce-pin serve` (src/host.rs): the handlers of the five  *)
(* pin/* requests, the maintenance task, and the process that crashes and  *)
(* restarts around the one file that survives it, held.json.               *)
(*                                                                         *)
(* A handler is cut into one action per stretch between two awaits.  What  *)
(* it does under the held-set lock is one action, the save that follows in *)
(* the same critical section included; what it read before an await it     *)
(* carries over the await in its program counter or in `height`, so every  *)
(* check that is stale when it is used is stale here too.                  *)
(*                                                                         *)
(* Outside the module: the chain, which mines blocks and records           *)
(* revocations; the mesh, which delivers an object or does not; and the    *)
(* file system, which takes a save or fails it.                            *)
(***************************************************************************)
EXTENDS HeldSet

CONSTANTS
    Workers,      \* requests the serve loop handles at the same time
    Size,         \* the real size of an object, which its CID determines
    MaxObject, Capacity, MinRent,     \* HostConfig
    Declared,     \* for each CID, the lengths an offer of it may declare
    Rents, Expiries,                  \* what offers and renewals propose
    Caps,         \* capability chains, each one valid until it is revoked
    Revocable,    \* those that the chain may come to revoke
    LegacyCids,   \* CIDs listed by the v0 file the host is first started on
    SaveFails,    \* may a save fail?
    FileRots,     \* may held.json become unreadable while the host is down?
    KeepRent,     \* the blank rent of a renew: keep the agreed rate
    NoRequest, NoAnswer,
    MaxTip, MaxNow, MaxCrashes        \* bounds on the environment

ASSUME ConfigAssumption ==
    /\ Size \in [Cids -> 0..MaxBytes]
    /\ MaxObject \in Nat /\ Capacity \in Nat /\ MinRent \in Nat
    /\ Declared \in [Cids -> SUBSET Nat]
    /\ Rents \subseteq Nat /\ Expiries \subseteq Nat
    /\ KeepRent \notin Nat
    /\ Revocable \subseteq Caps /\ LegacyCids \subseteq Cids
    /\ SaveFails \in BOOLEAN /\ FileRots \in BOOLEAN
    /\ MaxTip \in Nat /\ MaxNow \in Nat /\ MaxCrashes \in Nat

(* Mutants.  An operator whose comment starts with "Mutant:" is not part of *)
(* the model: it is a bug the definition after it could have had, and shows *)
(* which property would notice.                                             *)

VARIABLES
    tip,       \* block height of the chain
    now,       \* the host's clock
    onChain,   \* capabilities the chain has revoked
    crashes,   \* how often the host process died, for the bound only
    disk,      \* the held-set in held.json
    rotten,    \* held.json does not parse
    up,        \* the host process runs
    held,      \* the held-set in memory
    revoked,   \* the host's copy of the revoked set
    mpc,       \* where the maintenance task is
    gcHeight,  \* the height run_gc read before it took the lock
    pc,        \* where each worker is in its request
    req,       \* the request it handles
    height,    \* the height do_offer read before it took the lock
    answer     \* the reply it is about to send

chain == <<tip, now, onChain>>
file == <<disk, rotten>>
maintenance == <<revoked, mpc, gcHeight>>
worker == <<pc, req, height, answer>>
vars == <<chain, crashes, file, up, held, maintenance, worker>>

----------------------------------------------------------------------------
(* The wire types (src/proto.rs).  A declared length is untrusted: it need  *)
(* not be the size of the object.                                           *)

Offers == UNION {[op : {"offer"}, cap : Caps, cid : {c}, len : Declared[c],
                  rent : Rents, expiry : Expiries] : c \in Cids}
Renews == [op : {"renew"}, cap : Caps, cid : Cids,
           rent : Rents \cup {KeepRent}, expiry : Expiries]
Lookups == [op : {"audit", "status", "release"}, cap : Caps, cid : Cids]
Requests == Offers \cup Renews \cup Lookups

(* ok is accepted / renewed / held / released, or a proof that is not null. *)
Answers == [ok : BOOLEAN, expiry : Nat]
Yes(expiry) == [ok |-> TRUE, expiry |-> expiry]
No == [ok |-> FALSE, expiry |-> 0]

(* Where a handler waits: the name of a request, before its first step; the *)
(* lock or the call it awaits; or the reply.                                *)
Labels == {"idle", "offer", "tip", "admit", "fetch", "refetch", "commit",
           "audit", "prove", "status", "probe", "renew", "release", "reply"}

TypeOK ==
    /\ tip \in 0..MaxTip /\ now \in 0..MaxNow
    /\ onChain \subseteq Revocable /\ crashes \in 0..MaxCrashes
    /\ IsHeldSet(disk) /\ rotten \in BOOLEAN
    /\ up \in BOOLEAN /\ IsHeldSet(held)
    /\ revoked \subseteq Caps
    /\ mpc \in {"boot", "bootGc", "wait", "gc"} /\ gcHeight \in Nat
    /\ pc \in [Workers -> Labels]
    /\ req \in [Workers -> Requests \cup {NoRequest}]
    /\ height \in [Workers -> Nat]
    /\ answer \in [Workers -> Answers \cup {NoAnswer}]

Init ==
    /\ tip = 0 /\ now = 0 /\ onChain = {} /\ crashes = 0
    /\ disk = [c \in LegacyCids |-> DefaultRecord] /\ rotten = FALSE
    /\ up = FALSE /\ held = Empty
    /\ revoked = {} /\ mpc = "boot" /\ gcHeight = 0
    /\ pc = [w \in Workers |-> "idle"]
    /\ req = [w \in Workers |-> NoRequest]
    /\ height = [w \in Workers |-> 0]
    /\ answer = [w \in Workers |-> NoAnswer]

----------------------------------------------------------------------------
(* Persistence.  save replaces the file as a whole or leaves it as it was.  *)

Saved(h) == disk' = h /\ rotten' = FALSE

NotSaved == SaveFails /\ UNCHANGED file

(* A caller that only logs a failed save goes on the same way in both.      *)
TrySave(h) == Saved(h) \/ NotSaved

----------------------------------------------------------------------------
(* One worker.  Goto moves it on, Answer ends the handler with a reply.     *)

Goto(w, label) == pc' = [pc EXCEPT ![w] = label]

Answer(w, a) ==
    /\ Goto(w, "reply")
    /\ answer' = [answer EXCEPT ![w] = a]

cid(w) == req[w].cid

(* handle_inner: authorize against the host's copy of the revoked set, then *)
(* dispatch.  A revoked chain gets the generic negative reply.              *)
Receive(w) ==
    /\ up /\ pc[w] = "idle"
    /\ \E r \in Requests :
        /\ req' = [req EXCEPT ![w] = r]
        /\ IF r.cap \in revoked
           THEN Answer(w, No)
           ELSE Goto(w, r.op) /\ UNCHANGED answer
    /\ UNCHANGED <<chain, crashes, file, up, held, maintenance, height>>

(* do_offer: is it held?  The lock is released before the answer is used.   *)
OfferCheck(w) ==
    /\ pc[w] = "offer"
    /\ Goto(w, IF cid(w) \in DOMAIN held THEN "refetch" ELSE "tip")
    /\ UNCHANGED <<chain, crashes, file, up, held, maintenance, req, height, answer>>

(* The height, before the lock; 0 if the node does not answer.              *)
OfferHeight(w) ==
    /\ pc[w] = "tip"
    /\ \E seen \in {tip, 0} : height' = [height EXCEPT ![w] = seen]
    /\ Goto(w, "admit")
    /\ UNCHANGED <<chain, crashes, file, up, held, maintenance, req, answer>>

(* Mutant: the budget is compared with the offer alone.                     *)
AdmissibleAlone(r, heldBytes) ==
    r.len <= MaxObject /\ r.rent >= MinRent /\ r.len <= Capacity

(* HostConfig::admit, on the declared length and the total of the moment.   *)
Admissible(r, heldBytes) ==
    /\ r.len <= MaxObject
    /\ r.rent >= MinRent
    /\ heldBytes + r.len <= Capacity

(* Expired pins are dropped, in memory only, and the offer is judged by     *)
(* what is left.  Nothing is reserved for it.                               *)
OfferAdmit(w) ==
    LET kept == Without(held, Expired(held, height[w])) IN
    /\ pc[w] = "admit"
    /\ held' = kept
    /\ height' = [height EXCEPT ![w] = 0]
    /\ IF Admissible(req[w], TotalBytes(kept))
       THEN Goto(w, "fetch") /\ UNCHANGED answer
       ELSE Answer(w, No)
    /\ UNCHANGED <<chain, crashes, file, up, maintenance, req>>

(* Mutant: the real size is not looked at.                                  *)
FetchUnchecked(w) ==
    /\ pc[w] \in {"fetch", "refetch"}
    /\ \/ Goto(w, "commit") /\ UNCHANGED answer
       \/ Answer(w, No)
    /\ UNCHANGED <<chain, crashes, file, up, held, maintenance, req, height>>

(* Mutant: no timeout, and an oversized object is waited for in vain.       *)
FetchUntimed(w) ==
    /\ pc[w] \in {"fetch", "refetch"}
    /\ pc[w] = "fetch" => Size[cid(w)] <= MaxObject
    /\ Goto(w, "commit")
    /\ UNCHANGED <<chain, crashes, file, up, held, maintenance, req, height, answer>>

(* The object arrives, CID-verified, and its real size is checked unless    *)
(* the CID was held; or the pull fails or runs into fetch_timeout.          *)
OfferFetch(w) ==
    /\ pc[w] \in {"fetch", "refetch"}
    /\ \/ /\ pc[w] = "fetch" => Size[cid(w)] <= MaxObject
          /\ Goto(w, "commit") /\ UNCHANGED answer
       \/ Answer(w, No)
    /\ UNCHANGED <<chain, crashes, file, up, held, maintenance, req, height>>

(* Mutant: the declared length is recorded.                                 *)
CommitDeclared(w) ==
    /\ pc[w] = "commit"
    /\ held' = Insert(held, cid(w),
                      [bytes |-> req[w].len, rent |-> req[w].rent,
                       expiry |-> req[w].expiry, access |-> now])
    /\ TrySave(held')
    /\ Answer(w, Yes(req[w].expiry))
    /\ UNCHANGED <<chain, crashes, up, maintenance, req, height>>

(* Mutant: the pin is accepted without a save.                              *)
CommitUnsaved(w) ==
    /\ pc[w] = "commit"
    /\ held' = Insert(held, cid(w),
                      [bytes |-> Size[cid(w)], rent |-> req[w].rent,
                       expiry |-> req[w].expiry, access |-> now])
    /\ Answer(w, Yes(req[w].expiry))
    /\ UNCHANGED <<chain, crashes, file, up, maintenance, req, height>>

(* The entry replaces any other for the CID; a failed save is only logged.  *)
OfferCommit(w) ==
    LET entry == [bytes |-> Size[cid(w)], rent |-> req[w].rent,
                  expiry |-> req[w].expiry, access |-> now]
    IN
    /\ pc[w] = "commit"
    /\ held' = Insert(held, cid(w), entry)
    /\ TrySave(held')
    /\ Answer(w, Yes(req[w].expiry))
    /\ UNCHANGED <<chain, crashes, up, maintenance, req, height>>

(* do_audit and do_status ask the held-set first...                         *)
AuditGate(w) ==
    /\ pc[w] = "audit"
    /\ IF cid(w) \in DOMAIN held
       THEN Goto(w, "prove") /\ UNCHANGED answer
       ELSE Answer(w, No)
    /\ UNCHANGED <<chain, crashes, file, up, held, maintenance, req, height>>

StatusGate(w) ==
    /\ pc[w] = "status"
    /\ IF cid(w) \in DOMAIN held
       THEN Goto(w, "probe") /\ UNCHANGED answer
       ELSE Answer(w, No)
    /\ UNCHANGED <<chain, crashes, file, up, held, maintenance, req, height>>

(* ... then read blobs, which takes awaits, and touch the entry if all went *)
(* well, whether or not the CID is still held.                              *)
AuditProve(w) ==
    /\ pc[w] = "prove"
    /\ \/ held' = Touch(held, cid(w), now) /\ Answer(w, Yes(0))
       \/ UNCHANGED held /\ Answer(w, No)
    /\ UNCHANGED <<chain, crashes, file, up, maintenance, req, height>>

StatusProbe(w) ==
    /\ pc[w] = "probe"
    /\ \/ held' = Touch(held, cid(w), now) /\ Answer(w, Yes(0))
       \/ UNCHANGED held /\ Answer(w, No)
    /\ UNCHANGED <<chain, crashes, file, up, maintenance, req, height>>

(* Mutant: the lease becomes whatever was asked.                            *)
ExtendedAlways(old, asked) == asked

(* do_renew's rule for the lease: extend it, and give an open-ended one the *)
(* expiry asked for.                                                        *)
Extended(old, asked) == IF asked > old \/ old = 0 THEN asked ELSE old

(* Mutant: a blank rent is stored.                                          *)
RenewedBlank(e, r) ==
    [e EXCEPT !.expiry = Extended(e.expiry, r.expiry),
              !.rent   = r.rent,
              !.access = now]

Renewed(e, r) ==
    [e EXCEPT !.expiry = Extended(e.expiry, r.expiry),
              !.rent   = IF r.rent = KeepRent THEN e.rent ELSE r.rent,
              !.access = now]

(* Mutant: the reply repeats the expiry asked for.                          *)
RenewEcho(w) ==
    /\ pc[w] = "renew"
    /\ IF cid(w) \in DOMAIN held
       THEN /\ held' = Insert(held, cid(w), Renewed(held[cid(w)], req[w]))
            /\ TrySave(held')
            /\ Answer(w, Yes(req[w].expiry))
       ELSE /\ UNCHANGED <<held, file>>
            /\ Answer(w, No)
    /\ UNCHANGED <<chain, crashes, up, maintenance, req, height>>

Renew(w) ==
    /\ pc[w] = "renew"
    /\ IF cid(w) \in DOMAIN held
       THEN /\ held' = Insert(held, cid(w), Renewed(held[cid(w)], req[w]))
            /\ TrySave(held')
            /\ Answer(w, Yes(held'[cid(w)].expiry))
       ELSE /\ UNCHANGED <<held, file>>
            /\ Answer(w, No)
    /\ UNCHANGED <<chain, crashes, up, maintenance, req, height>>

(* Mutant: a release is saved with the next change.                         *)
ReleaseUnsaved(w) ==
    /\ pc[w] = "release"
    /\ held' = Without(held, {cid(w)})
    /\ UNCHANGED file
    /\ Answer(w, IF cid(w) \in DOMAIN held THEN Yes(0) ELSE No)
    /\ UNCHANGED <<chain, crashes, up, maintenance, req, height>>

(* A failed save makes this reply negative; the pin is gone from memory.    *)
Release(w) ==
    /\ pc[w] = "release"
    /\ held' = Without(held, {cid(w)})
    /\ \/ /\ Saved(held')
          /\ Answer(w, IF cid(w) \in DOMAIN held THEN Yes(0) ELSE No)
       \/ /\ NotSaved
          /\ Answer(w, No)
    /\ UNCHANGED <<chain, crashes, up, maintenance, req, height>>

(* The serve loop sends the reply and the worker is free.                   *)
Reply(w) ==
    /\ pc[w] = "reply"
    /\ Goto(w, "idle")
    /\ req' = [req EXCEPT ![w] = NoRequest]
    /\ answer' = [answer EXCEPT ![w] = NoAnswer]
    /\ UNCHANGED <<chain, crashes, file, up, held, maintenance, height>>

Handle(w) ==
    \/ OfferCheck(w) \/ OfferHeight(w) \/ OfferAdmit(w)
    \/ OfferFetch(w) \/ OfferCommit(w)
    \/ AuditGate(w) \/ AuditProve(w)
    \/ StatusGate(w) \/ StatusProbe(w)
    \/ Renew(w) \/ Release(w) \/ Reply(w)

----------------------------------------------------------------------------
(* The maintenance task: refresh and collect once at startup, in that       *)
(* order, then each on its own timer.  One task, so they never overlap.     *)

(* Mutant: the revoked set is fetched at startup only.                      *)
RefreshAtBoot ==
    /\ up /\ mpc = "boot"
    /\ revoked' \in {s \in SUBSET onChain : revoked \subseteq s}
    /\ mpc' = "bootGc"
    /\ UNCHANGED <<chain, crashes, file, up, held, gcHeight, worker>>

(* refresh_revoked: the host's copy is replaced if the node answers, by the *)
(* revocations of now or of any moment since the copy was made.             *)
Refresh ==
    /\ up /\ mpc \in {"boot", "wait"}
    /\ revoked' \in {s \in SUBSET onChain : revoked \subseteq s}
    /\ mpc' = IF mpc = "boot" THEN "bootGc" ELSE mpc
    /\ UNCHANGED <<chain, crashes, file, up, held, gcHeight, worker>>

(* Mutant: no answer from the node is -1.                                   *)
GcHeightSentinel ==
    /\ up /\ mpc \in {"bootGc", "wait"}
    /\ gcHeight' \in {tip, -1}
    /\ mpc' = "gc"
    /\ UNCHANGED <<chain, crashes, file, up, held, revoked, worker>>

(* run_gc: the height, before the lock; 0 if the node does not answer.      *)
GcHeight ==
    /\ up /\ mpc \in {"bootGc", "wait"}
    /\ gcHeight' \in {tip, 0}
    /\ mpc' = "gc"
    /\ UNCHANGED <<chain, crashes, file, up, held, revoked, worker>>

(* Mutant: what is dropped stays in the file.                               *)
GcDropUnsaved ==
    LET live == Without(held, Expired(held, gcHeight)) IN
    /\ up /\ mpc = "gc"
    /\ held' = Without(live, EvictToFit(live, Capacity, gcHeight))
    /\ mpc' = "wait" /\ gcHeight' = 0
    /\ UNCHANGED <<chain, crashes, file, up, revoked, worker>>

(* Mutant: expired pins go only when room is needed.                        *)
GcOverBudgetOnly ==
    LET fit == Without(held, EvictToFit(held, Capacity, gcHeight)) IN
    /\ up /\ mpc = "gc"
    /\ held' = fit
    /\ IF fit = held THEN UNCHANGED file ELSE TrySave(fit)
    /\ mpc' = "wait" /\ gcHeight' = 0
    /\ UNCHANGED <<chain, crashes, up, revoked, worker>>

(* run_gc under the lock: what has expired goes, then what is needed to get *)
(* back under the budget; saved only if something went.                     *)
GcDrop ==
    LET live == Without(held, Expired(held, gcHeight))
        fit  == Without(live, EvictToFit(live, Capacity, gcHeight))
    IN
    /\ up /\ mpc = "gc"
    /\ held' = fit
    /\ IF fit = held THEN UNCHANGED file ELSE TrySave(fit)
    /\ mpc' = "wait" /\ gcHeight' = 0
    /\ UNCHANGED <<chain, crashes, up, revoked, worker>>

----------------------------------------------------------------------------
(* The process.  Memory, tasks and the revoked set start afresh.            *)

Fresh ==
    /\ revoked' = {} /\ mpc' = "boot" /\ gcHeight' = 0
    /\ pc' = [w \in Workers |-> "idle"]
    /\ req' = [w \in Workers |-> NoRequest]
    /\ height' = [w \in Workers |-> 0]
    /\ answer' = [w \in Workers |-> NoAnswer]

Crash ==
    /\ up /\ crashes < MaxCrashes
    /\ crashes' = crashes + 1
    /\ up' = FALSE /\ held' = Empty
    /\ Fresh
    /\ UNCHANGED <<chain, file>>

(* serve_with: load the held-set, then serve.  A file that does not parse   *)
(* is moved aside and the process exits with an error.                      *)
Start ==
    /\ ~up
    /\ IF rotten
       THEN disk' = Empty /\ rotten' = FALSE /\ UNCHANGED <<up, held>>
       ELSE up' = TRUE /\ held' = disk /\ UNCHANGED file
    /\ UNCHANGED <<chain, crashes, maintenance, worker>>

(* The bad write or disk fault that HeldSet::load expects to meet.          *)
FileRot ==
    /\ FileRots /\ ~up /\ ~rotten
    /\ rotten' = TRUE
    /\ UNCHANGED <<chain, crashes, disk, up, held, maintenance, worker>>

----------------------------------------------------------------------------
(* The rest of the world.                                                   *)

Mine ==
    /\ tip < MaxTip
    /\ tip' = tip + 1
    /\ UNCHANGED <<now, onChain, crashes, file, up, held, maintenance, worker>>

Tick ==
    /\ now < MaxNow
    /\ now' = now + 1
    /\ UNCHANGED <<tip, onChain, crashes, file, up, held, maintenance, worker>>

Revoke ==
    /\ \E k \in Revocable \ onChain : onChain' = onChain \cup {k}
    /\ UNCHANGED <<tip, now, crashes, file, up, held, maintenance, worker>>

Next ==
    \/ \E w \in Workers : Receive(w) \/ Handle(w)
    \/ Refresh \/ GcHeight \/ GcDrop
    \/ Crash \/ Start \/ FileRot
    \/ Mine \/ Tick \/ Revoke

Spec == Init /\ [][Next]_vars

(* What the runtime and the supervisor guarantee.  Tokio runs every ready   *)
(* task; every await of a handler ends, the slow one by fetch_timeout; both *)
(* timers keep ticking; ceapp.toml restarts the host when it dies.  A node  *)
(* call may fail any number of times, but not forever: strong fairness on   *)
(* the two outcomes in which the maintenance task hears from the node.      *)
Fairness ==
    /\ \A w \in Workers : WF_vars(Handle(w))
    /\ WF_vars(Start)
    /\ WF_vars(Refresh) /\ SF_vars(Refresh /\ revoked' = onChain)
    /\ WF_vars(GcDrop)  /\ SF_vars(GcHeight /\ gcHeight' = tip)

FairSpec == Spec /\ Fairness

----------------------------------------------------------------------------
(* Safety.                                                                  *)

(* No object over the host's limit is ever held, although the check of the  *)
(* real size is skipped for a CID that was held when the offer arrived and  *)
(* may have been dropped, released or lost since.                           *)
NoOversizedPin == \A c \in DOMAIN held : Size[c] <= MaxObject

(* The accounting is real: what the capacity check adds up are the sizes of *)
(* the objects, except for a pin that came from a v0 file and was not       *)
(* offered since, which counts for nothing.                                 *)
RealSizes ==
    \A c \in DOMAIN held :
        \/ held[c].bytes = Size[c]
        \/ c \in LegacyCids /\ held[c].bytes = 0

(* The host stays within its disk budget.  True of one worker and of offers *)
(* that declare their real size.                                            *)
WithinCapacity == TotalBytes(held) <= Capacity

(* A pin leaves a running host's memory for one of three reasons: its lease *)
(* is over at the real tip (not at the height some task read a while ago),  *)
(* the collector runs over budget, or its release is being served.          *)
MayDrop(c) ==
    \/ Lapsed(held[c], tip)
    \/ mpc = "gc" /\ TotalBytes(held) > Capacity
    \/ \E w \in Workers : pc[w] = "release" /\ pc'[w] # pc[w] /\ cid(w) = c

DropsAreDue ==
    up /\ up' => \A c \in DOMAIN held \ DOMAIN held' : MayDrop(c)

NoEarlyDrop == [][DropsAreDue]_vars

(* The file lags behind memory only by pins whose lease is over: a restart  *)
(* loses nothing and brings back nothing that still binds the host.  Terms  *)
(* agree too, all but the recency of use, which a touch does not save.      *)
TermsOf(h) ==
    [c \in DOMAIN h |->
        [bytes |-> h[c].bytes, rent |-> h[c].rent, expiry |-> h[c].expiry]]

FileAgrees ==
    up => /\ \A c \in DOMAIN held :
                /\ c \in DOMAIN disk
                /\ TermsOf(disk)[c] = TermsOf(held)[c]
          /\ \A c \in DOMAIN disk \ DOMAIN held : Lapsed(disk[c], tip)

(* What a restart would load is the ledger of PinLedger: crashes, stale     *)
(* checks and interleaved handlers change it only as that module allows.    *)
Ledger == INSTANCE PinLedger WITH ledger <- TermsOf(disk)
Implements == Ledger!Spec

----------------------------------------------------------------------------
(* What the documents say and the code does not do: each is the one         *)
(* property of a run in which TLC finds it violated.                        *)

(* docs/protocol.md: a renewal "only ever extends the lease (never shortens *)
(* it)".  An open-ended lease (0) is the longest there is.                  *)
NeverShortened ==
    [][\A w \in Workers :
         pc[w] = "renew" /\ cid(w) \in DOMAIN held \cap DOMAIN held' =>
            \/ held'[cid(w)].expiry = 0
            \/ /\ held[cid(w)].expiry # 0
               /\ held'[cid(w)].expiry >= held[cid(w)].expiry]_vars

----------------------------------------------------------------------------
(* Liveness.                                                                *)

(* Every request gets its reply, or dies with the process: no handler waits *)
(* for ever on a fetch, on the node or on the lock.                         *)
EveryRequestEnds == \A w \in Workers : pc[w] # "idle" ~> pc[w] = "idle"

(* A pin whose lease is over does not stay: the collector takes it, or a    *)
(* renewal or a new offer gives it another lease, however often the node    *)
(* fails to report its height and the host restarts.                        *)
LapsedPinsGo ==
    \A c \in Cids :
        LET late == c \in DOMAIN held /\ Lapsed(held[c], tip)
        IN  late ~> ~late

(* A revocation takes hold for good: from some moment on no handler runs on *)
(* a chain that was revoked, the window after a restart included, in which  *)
(* the host serves with an empty revoked set.                               *)
RevocationTakesHold ==
    \A k \in Revocable :
        k \in onChain ~> [](\A w \in Workers :
                              pc[w] \notin {"idle", "reply"} => req[w].cap # k)

=============================================================================
