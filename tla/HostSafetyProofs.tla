-------------------------- MODULE HostSafetyProofs --------------------------
(***************************************************************************)
(* What a pinning host promises and stale checks put at risk, for any      *)
(* number of workers: the size gate, which an offer of a held CID skips,   *)
(* the accounting, which goes by the object and not by what was declared,  *)
(* the lease, which is compared with a height read before the lock, and    *)
(* the file, which all of them write.                                      *)
(***************************************************************************)
EXTENDS PinHostProofs

----------------------------------------------------------------------------
(* The size gate.                                                           *)

(* The migrated pins of a v0 file passed no gate of this version.           *)
LegacyFits == \A c \in LegacyCids : Size[c] <= MaxObject

(* NoOversizedPin is not inductive: the file can come back as memory, and a *)
(* handler past its check commits whatever has become of the CID since.     *)
SizeInv ==
    /\ \A c \in DOMAIN held \cup DOMAIN disk : Size[c] <= MaxObject
    /\ \A w \in Workers :
          pc[w] \in {"refetch", "commit"} => Size[cid(w)] <= MaxObject

LEMMA SizeInit == LegacyFits /\ Init => SizeInv
  BY EmptyType DEF LegacyFits, Init, SizeInv

(* Only an accepted offer brings in a CID that neither memory nor file had. *)
LEMMA NewPins ==
  ASSUME Typed, [Next]_vars, NEW c \in DOMAIN held' \cup DOMAIN disk'
  PROVE  \/ c \in DOMAIN held \cup DOMAIN disk
         \/ \E w \in Workers : pc[w] = "commit" /\ c = cid(w)
  <1>0. IsHeldSet(held) /\ \A S : DOMAIN Without(held, S) \subseteq DOMAIN held
    <2>1. IsHeldSet(held)
      BY DEF Typed, TypeOK
    <2> QED  BY <2>1 DEF Without, Restrict
  <1>1. CASE \E w \in Workers : Receive(w) \/ OfferCheck(w) \/ OfferHeight(w)
                \/ OfferFetch(w) \/ AuditGate(w) \/ StatusGate(w) \/ Reply(w)
    BY <1>1 DEF Receive, OfferCheck, OfferHeight, OfferFetch, AuditGate,
                StatusGate, Reply, file
  <1>2. CASE \E w \in Workers : OfferAdmit(w)
    BY <1>0, <1>2 DEF OfferAdmit, file
  <1>3. CASE \E w \in Workers : OfferCommit(w)
    BY <1>3 DEF OfferCommit, TrySave, Saved, NotSaved, file, Insert
  <1>4. CASE \E w \in Workers : AuditProve(w) \/ StatusProbe(w)
    BY <1>4 DEF AuditProve, StatusProbe, Touch, file
  <1>5. CASE \E w \in Workers : Renew(w)
    BY <1>5 DEF Renew, TrySave, Saved, NotSaved, file, Insert
  <1>6. CASE \E w \in Workers : Release(w)
    BY <1>0, <1>6 DEF Release, Saved, NotSaved, file
  <1>7. CASE GcDrop
    <2>1. DOMAIN held' \subseteq DOMAIN held
      <3> DEFINE live == Without(held, Expired(held, gcHeight))
      <3>1. DOMAIN live \subseteq DOMAIN held
        BY <1>0
      <3>2. held' = Without(live, EvictToFit(live, Capacity, gcHeight))
        BY <1>7 DEF GcDrop
      <3>3. DOMAIN held' \subseteq DOMAIN live
        BY <3>2 DEF Without, Restrict
      <3> QED  BY <3>1, <3>3
    <2> QED  BY <1>7, <2>1 DEF GcDrop, TrySave, Saved, NotSaved, file
  <1>8. CASE Crash
    BY <1>8, EmptyType DEF Crash, file
  <1>9. CASE Start
    BY <1>9, EmptyType DEF Start, file
  <1>10. CASE Refresh \/ GcHeight \/ FileRot \/ Mine \/ Tick \/ Revoke
              \/ UNCHANGED vars
    BY <1>10 DEF Refresh, GcHeight, FileRot, Mine, Tick, Revoke, vars, file
  <1> QED  BY <1>1, <1>2, <1>3, <1>4, <1>5, <1>6, <1>7, <1>8, <1>9, <1>10
           DEF Next, Handle

(* A handler reaches the labels behind the gate only through the gate or on *)
(* a CID that is held, and keeps its request on the way.                    *)
LEMMA NewLabels ==
  ASSUME Typed, [Next]_vars, NEW w \in Workers,
         pc'[w] \in {"refetch", "commit"}
  PROVE  /\ cid(w)' = cid(w)
         /\ \/ pc[w] \in {"refetch", "commit"}
            \/ cid(w) \in DOMAIN held
            \/ Size[cid(w)] <= MaxObject
  <1> USE DEF Typed, TypeOK
  <1>1. CASE \E v \in Workers : Receive(v)
    <2>1. PICK v \in Workers : Receive(v)
      BY <1>1
    <2>2. PICK r \in Requests :
            /\ req' = [req EXCEPT ![v] = r]
            /\ \/ pc' = [pc EXCEPT ![v] = r.op]
               \/ pc' = [pc EXCEPT ![v] = "reply"]
      BY <2>1 DEF Receive, Answer, Goto
    <2>3. v # w
      BY <2>2, RequestFields
    <2> QED  BY <2>2, <2>3 DEF cid
  <1>2. CASE \E v \in Workers : OfferCheck(v)
    BY <1>2 DEF OfferCheck, Goto, cid
  <1>3. CASE \E v \in Workers : OfferFetch(v)
    BY <1>3 DEF OfferFetch, Goto, Answer, cid
  <1>4. CASE \E v \in Workers : OfferHeight(v) \/ OfferAdmit(v) \/ OfferCommit(v)
    BY <1>4 DEF OfferHeight, OfferAdmit, OfferCommit, Goto, Answer, cid
  <1>5. CASE \E v \in Workers : AuditGate(v) \/ StatusGate(v) \/ AuditProve(v)
                \/ StatusProbe(v)
    BY <1>5 DEF AuditGate, StatusGate, AuditProve, StatusProbe, Goto, Answer, cid
  <1>6. CASE \E v \in Workers : Renew(v) \/ Release(v) \/ Reply(v)
    BY <1>6 DEF Renew, Release, Reply, Goto, Answer, cid
  <1>7. CASE Crash
    BY <1>7 DEF Crash, Fresh
  <1>8. CASE UNCHANGED worker
    BY <1>8 DEF worker, cid
  <1>9. Refresh \/ GcHeight \/ GcDrop \/ Start \/ FileRot \/ Mine \/ Tick
          \/ Revoke \/ UNCHANGED vars => UNCHANGED worker
    BY DEF Refresh, GcHeight, GcDrop, Start, FileRot, Mine, Tick, Revoke, vars
  <1> QED  BY <1>1, <1>2, <1>3, <1>4, <1>5, <1>6, <1>7, <1>8, <1>9
           DEF Next, Handle

LEMMA SizeNext == Typed /\ SizeInv /\ [Next]_vars => SizeInv'
  <1> SUFFICES ASSUME Typed, SizeInv, [Next]_vars PROVE SizeInv'
    OBVIOUS
  <1>1. ASSUME NEW c \in DOMAIN held' \cup DOMAIN disk'
        PROVE  Size[c] <= MaxObject
    BY <1>1, NewPins DEF SizeInv
  <1>2. ASSUME NEW w \in Workers, pc'[w] \in {"refetch", "commit"}
        PROVE  Size[cid(w)'] <= MaxObject
    BY <1>2, NewLabels DEF SizeInv
  <1> QED  BY <1>1, <1>2 DEF SizeInv, cid

(* An object over max_object_bytes is never held, with any number of        *)
(* workers and any lengths declared: do_offer skips the check of the real   *)
(* size only for a CID that once passed it.                                 *)
THEOREM SizeGate == LegacyFits /\ Spec => []NoOversizedPin
  <1>1. LegacyFits /\ Init => Typed /\ SizeInv
    BY InitTyped, SizeInit
  <1>2. Typed /\ SizeInv /\ [Next]_vars => (Typed /\ SizeInv)'
    BY NextTyped, SizeNext
  <1>3. SizeInv => NoOversizedPin
    BY DEF SizeInv, NoOversizedPin
  <1>4. LegacyFits /\ Spec => [](Typed /\ SizeInv)
    BY <1>1, <1>2, PTL DEF Spec
  <1> QED  BY <1>3, <1>4, PTL

----------------------------------------------------------------------------
(* The accounting.  The file can come back as memory, so it counts too.     *)

RealIn(h) ==
    \A c \in DOMAIN h : h[c].bytes = Size[c] \/ (c \in LegacyCids /\ h[c].bytes = 0)

LEMMA RealInFewer ==
  ASSUME NEW h, RealIn(h), NEW k, DOMAIN k \subseteq DOMAIN h,
         \A c \in DOMAIN k : k[c].bytes = h[c].bytes
  PROVE  RealIn(k)
  BY DEF RealIn

LEMMA RealNext ==
  ASSUME Typed, RealIn(held), RealIn(disk), [Next]_vars
  PROVE  RealIn(held') /\ RealIn(disk')
  <1>0. IsHeldSet(held) /\ now \in Nat /\ \A S : RealIn(Without(held, S))
    <2>1. IsHeldSet(held) /\ now \in Nat
      BY ConfigAssumption DEF Typed, TypeOK
    <2> QED  BY <2>1 DEF Without, Restrict, RealIn
  <1>1. CASE \E w \in Workers : OfferAdmit(w)
    BY <1>0, <1>1 DEF OfferAdmit, file
  <1>2. CASE \E w \in Workers : OfferCommit(w)
    BY <1>2 DEF OfferCommit, TrySave, Saved, NotSaved, file, Insert, RealIn
  <1>3. CASE \E w \in Workers : AuditProve(w) \/ StatusProbe(w)
    <2>1. disk' = disk /\ (held' = held \/ \E w \in Workers : held' = Touch(held, cid(w), now))
      BY <1>3 DEF AuditProve, StatusProbe, file
    <2> QED  BY <1>0, <2>1, TouchFacts, RealInFewer
  <1>4. CASE \E w \in Workers : Renew(w)
    <2>1. PICK w \in Workers : Renew(w)
      BY <1>4
    <2>2. CASE cid(w) \in DOMAIN held
      <3>1. held' = Insert(held, cid(w), Renewed(held[cid(w)], req[w]))
        BY <2>1, <2>2 DEF Renew
      <3>2. Renewed(held[cid(w)], req[w]).bytes = held[cid(w)].bytes
        BY <1>0, <2>2 DEF Renewed, IsHeldSet, Entry
      <3>3. DOMAIN held' = DOMAIN held /\ \A c \in DOMAIN held : held'[c].bytes = held[c].bytes
        BY <2>2, <3>1, <3>2 DEF Insert
      <3>4. disk' = held' \/ disk' = disk
        BY <2>1, <2>2 DEF Renew, TrySave, Saved, NotSaved, file
      <3> QED  BY <3>3, <3>4, RealInFewer
    <2>3. CASE cid(w) \notin DOMAIN held
      BY <2>1, <2>3 DEF Renew, file
    <2> QED  BY <2>2, <2>3
  <1>5. CASE \E w \in Workers : Release(w)
    BY <1>0, <1>5 DEF Release, Saved, NotSaved, file
  <1>6. CASE GcDrop
    <2> DEFINE live == Without(held, Expired(held, gcHeight))
    <2>1. /\ held' = Without(live, EvictToFit(live, Capacity, gcHeight))
          /\ disk' = held' \/ disk' = disk
      BY <1>6 DEF GcDrop, TrySave, Saved, NotSaved, file
    <2>2. RealIn(live)
      BY <1>0
    <2> HIDE DEF live
    <2>3. RealIn(held')
      BY <2>1, <2>2 DEF Without, Restrict, RealIn
    <2> QED  BY <2>1, <2>3
  <1>7. CASE Crash \/ Start
    BY <1>7, EmptyType DEF Crash, Start, file, RealIn
  <1>8. CASE \/ Refresh \/ GcHeight \/ FileRot \/ Mine \/ Tick \/ Revoke \/ UNCHANGED vars
             \/ \E w \in Workers : Receive(w) \/ OfferCheck(w) \/ OfferHeight(w)
                  \/ OfferFetch(w) \/ AuditGate(w) \/ StatusGate(w) \/ Reply(w)
    <2>1. held' = held /\ disk' = disk
      BY <1>8 DEF Refresh, GcHeight, FileRot, Mine, Tick, Revoke, vars, file, Receive,
                  OfferCheck, OfferHeight, OfferFetch, AuditGate, StatusGate, Reply
    <2> QED  BY <2>1
  <1> QED  BY <1>1, <1>2, <1>3, <1>4, <1>5, <1>6, <1>7, <1>8 DEF Next, Handle

(* What the capacity check adds up are the sizes of the objects, whatever   *)
(* lengths publishers declare (do_offer records what it fetched), over      *)
(* renewals, touches, restarts and failed saves; a pin of a v0 file may     *)
(* count for nothing.                                                       *)
THEOREM SizesReal == Spec => []RealSizes
  <1>1. Init => Typed /\ RealIn(held) /\ RealIn(disk)
    <2>1. Init => RealIn(held) /\ RealIn(disk)
      BY EmptyType DEF Init, RealIn, DefaultRecord
    <2> QED  BY <2>1, InitTyped
  <1>2. Typed /\ RealIn(held) /\ RealIn(disk) /\ [Next]_vars
          => (Typed /\ RealIn(held) /\ RealIn(disk))'
    <2> SUFFICES ASSUME Typed, RealIn(held), RealIn(disk), [Next]_vars
                 PROVE  (Typed /\ RealIn(held) /\ RealIn(disk))'
      OBVIOUS
    <2>1. Typed'
      BY NextTyped
    <2>2. RealIn(held') /\ RealIn(disk')
      BY RealNext
    <2> QED  BY <2>1, <2>2 DEF RealIn
  <1>3. RealIn(held) => RealSizes
    BY DEF RealIn, RealSizes
  <1> QED  BY <1>1, <1>2, <1>3, PTL DEF Spec

----------------------------------------------------------------------------
(* The lease.  A height read before the lock may be old, and 0 if the node  *)
(* did not answer, but it is never ahead of the chain.                      *)

HeightInv == gcHeight <= tip /\ \A w \in Workers : height[w] <= tip

LEMMA HeightInit == Init => HeightInv
  BY DEF Init, HeightInv

LEMMA HeightNext == Typed /\ HeightInv /\ [Next]_vars => HeightInv'
  <1> SUFFICES ASSUME Typed, HeightInv, [Next]_vars PROVE HeightInv'
    OBVIOUS
  <1>0. /\ tip \in Nat /\ gcHeight \in Nat /\ height \in [Workers -> Nat]
        /\ gcHeight <= tip /\ \A w \in Workers : height[w] <= tip
    BY ConfigAssumption DEF Typed, TypeOK, HeightInv
  <1>1. CASE \E w \in Workers : OfferHeight(w) \/ OfferAdmit(w)
    BY <1>0, <1>1 DEF OfferHeight, OfferAdmit, HeightInv, chain, maintenance
  <1>2. CASE \E w \in Workers :
                \/ Receive(w) \/ OfferCheck(w) \/ OfferFetch(w) \/ OfferCommit(w)
                \/ AuditGate(w) \/ StatusGate(w) \/ AuditProve(w)
                \/ StatusProbe(w) \/ Renew(w) \/ Release(w) \/ Reply(w)
    <2>1. UNCHANGED <<tip, gcHeight, height>>
      BY <1>2 DEF Receive, OfferCheck, OfferFetch, OfferCommit, AuditGate,
                  StatusGate, AuditProve, StatusProbe, Renew, Release, Reply,
                  chain, maintenance
    <2> QED  BY <1>0, <2>1 DEF HeightInv
  <1>3. CASE Refresh \/ GcHeight \/ GcDrop
    BY <1>0, <1>3 DEF Refresh, GcHeight, GcDrop, HeightInv, chain, worker
  <1>4. CASE Crash
    BY <1>0, <1>4 DEF Crash, Fresh, HeightInv, chain
  <1>5. CASE Mine
    <2>1. tip' = tip + 1 /\ UNCHANGED <<gcHeight, height>>
      BY <1>5 DEF Mine, maintenance, worker
    <2> QED  BY <1>0, <2>1 DEF HeightInv
  <1>6. CASE Start \/ FileRot \/ Tick \/ Revoke \/ UNCHANGED vars
    <2>1. UNCHANGED <<tip, gcHeight, height>>
      BY <1>6 DEF Start, FileRot, Tick, Revoke, vars, chain, maintenance, worker
    <2> QED  BY <1>0, <2>1 DEF HeightInv
  <1> QED  BY <1>1, <1>2, <1>3, <1>4, <1>5, <1>6 DEF Next, Handle

(* A lease that is over stays over.                                         *)
LEMMA LapsedLater ==
  ASSUME NEW e \in Entry, NEW h \in Nat, NEW k \in Nat, h <= k, Lapsed(e, h)
  PROVE  Lapsed(e, k)
  BY DEF Entry, Lapsed

(* evict_to_fit returns nothing unless the set is over the target.          *)
LEMMA VictimsOverTarget ==
  ASSUME NEW h, IsHeldSet(h), NEW target \in Nat, NEW t,
         NEW c \in EvictToFit(h, target, t)
  PROVE  TotalBytes(h) > target
  <1> DEFINE before == {d \in DOMAIN h : EvictedBefore(h, t, d, c)}
  <1>1. TotalBytes(h) - TotalBytes(Restrict(h, before)) > target
    BY DEF EvictToFit
  <1>2. IsHeldSet(Restrict(h, before))
    BY DEF IsHeldSet, Restrict
  <1> HIDE DEF before
  <1> QED  BY <1>1, <1>2, SlotsFinite

(* What run_gc drops has either lapsed or exceeds the budget.               *)
LEMMA CollectedIsDue ==
  ASSUME Typed, HeightInv, GcDrop, NEW c \in DOMAIN held \ DOMAIN held'
  PROVE  Lapsed(held[c], tip) \/ TotalBytes(held) > Capacity
  <1> DEFINE live == Without(held, Expired(held, gcHeight))
  <1>0. /\ IsHeldSet(held) /\ tip \in Nat /\ gcHeight \in Nat
        /\ gcHeight <= tip /\ Capacity \in Nat
    BY ConfigAssumption DEF Typed, TypeOK, HeightInv
  <1>1. /\ IsHeldSet(live) /\ DOMAIN live = DOMAIN held \ Expired(held, gcHeight)
        /\ \A d \in DOMAIN live : live[d] = held[d]
    BY <1>0 DEF IsHeldSet, Without, Restrict
  <1>2. held' = Without(live, EvictToFit(live, Capacity, gcHeight))
    BY DEF GcDrop
  <1> HIDE DEF live
  <1>3. CASE c \in Expired(held, gcHeight)
    <2>1. held[c] \in Entry /\ Lapsed(held[c], gcHeight)
      BY <1>0, <1>3 DEF Expired, IsHeldSet
    <2> QED  BY <1>0, <2>1, LapsedLater
  <1>4. CASE c \notin Expired(held, gcHeight)
    <2>1. c \in EvictToFit(live, Capacity, gcHeight)
      BY <1>1, <1>2, <1>4 DEF Without, Restrict
    <2>2. TotalBytes(live) > Capacity
      BY <1>0, <1>1, <2>1, VictimsOverTarget
    <2>3. TotalBytes(live) <= TotalBytes(held)
      BY <1>0, <1>1, TotalOfSmaller
    <2>4. TotalBytes(live) \in Nat /\ TotalBytes(held) \in Nat
      BY <1>0, <1>1, SlotsFinite
    <2> QED  BY <1>0, <2>2, <2>3, <2>4
  <1> QED  BY <1>3, <1>4

LEMMA StepsDropWhatIsDue ==
  ASSUME Typed, HeightInv, Next
  PROVE  DropsAreDue
  <1> SUFFICES ASSUME up, up', NEW c \in DOMAIN held \ DOMAIN held'
               PROVE  MayDrop(c)
    BY DEF DropsAreDue
  <1>0. /\ IsHeldSet(held) /\ tip \in Nat /\ held[c] \in Entry
        /\ pc \in [Workers -> Labels]
        /\ \A w \in Workers : height[w] \in Nat /\ height[w] <= tip
    BY ConfigAssumption DEF Typed, TypeOK, HeightInv, IsHeldSet
  <1>1. CASE \E w \in Workers : OfferAdmit(w)
    <2>1. PICK w \in Workers : held' = Without(held, Expired(held, height[w]))
      BY <1>1 DEF OfferAdmit
    <2>2. DOMAIN held' = DOMAIN held \ Expired(held, height[w])
      BY <2>1 DEF Without, Restrict
    <2>3. Lapsed(held[c], height[w])
      BY <2>2 DEF Expired
    <2> QED  BY <1>0, <2>3, LapsedLater DEF MayDrop
  <1>2. CASE \E w \in Workers : Release(w)
    <2>1. PICK w \in Workers :
            /\ pc[w] = "release" /\ pc' = [pc EXCEPT ![w] = "reply"]
            /\ held' = Without(held, {cid(w)})
      BY <1>2 DEF Release, Answer, Goto
    <2>2. c = cid(w)
      BY <2>1 DEF Without, Restrict
    <2> QED  BY <1>0, <2>1, <2>2 DEF MayDrop
  <1>3. CASE GcDrop
    BY <1>3, CollectedIsDue DEF MayDrop, GcDrop
  <1>4. CASE \E w \in Workers : OfferCommit(w) \/ Renew(w)
    BY <1>4 DEF OfferCommit, Renew, Insert
  <1>5. CASE \E w \in Workers : AuditProve(w) \/ StatusProbe(w)
    BY <1>5 DEF AuditProve, StatusProbe, Touch
  <1>6. CASE \E w \in Workers : Receive(w) \/ OfferCheck(w) \/ OfferHeight(w)
                \/ OfferFetch(w) \/ AuditGate(w) \/ StatusGate(w) \/ Reply(w)
    BY <1>6 DEF Receive, OfferCheck, OfferHeight, OfferFetch, AuditGate,
                StatusGate, Reply
  <1>7. CASE Refresh \/ GcHeight \/ FileRot \/ Mine \/ Tick \/ Revoke
    BY <1>7 DEF Refresh, GcHeight, FileRot, Mine, Tick, Revoke
  <1>8. CASE Crash \/ Start
    BY <1>8 DEF Crash, Start
  <1> QED  BY <1>1, <1>2, <1>3, <1>4, <1>5, <1>6, <1>7, <1>8 DEF Next, Handle

(* A pin whose lease still runs at the tip leaves a running host's memory   *)
(* only over budget or by its own release, although run_gc and do_offer act *)
(* on a height they read before they took the lock.                         *)
THEOREM LeaseKept == Spec => NoEarlyDrop
  <1>1. Init => Typed /\ HeightInv
    BY InitTyped, HeightInit
  <1>2. Typed /\ HeightInv /\ [Next]_vars => (Typed /\ HeightInv)'
    BY NextTyped, HeightNext
  <1>3. Typed /\ HeightInv /\ [Next]_vars => [DropsAreDue]_vars
    BY StepsDropWhatIsDue
  <1> QED  BY <1>1, <1>2, <1>3, PTL DEF Spec, NoEarlyDrop

----------------------------------------------------------------------------
(* The one file a pinning host keeps: held.json says what memory says,      *)
(* although expired pins are dropped from memory without a save, touches    *)
(* are not saved, and handlers and the collector write it in any order.     *)

(* Terms are the three fields of an entry that a save must not lose.        *)
LEMMA SameTerms ==
  ASSUME NEW h, NEW k, NEW c \in DOMAIN h, c \in DOMAIN k,
         h[c].bytes = k[c].bytes, h[c].rent = k[c].rent, h[c].expiry = k[c].expiry
  PROVE  TermsOf(h)[c] = TermsOf(k)[c]
  BY DEF TermsOf

LEMMA TermsExpiry ==
  ASSUME NEW h, NEW k, NEW c \in DOMAIN h, c \in DOMAIN k,
         TermsOf(h)[c] = TermsOf(k)[c], NEW t
  PROVE  Lapsed(h[c], t) <=> Lapsed(k[c], t)
  <1>1. TermsOf(h)[c].expiry = h[c].expiry /\ TermsOf(k)[c].expiry = k[c].expiry
    BY DEF TermsOf
  <1> QED  BY <1>1 DEF Lapsed

(* After a save the file is memory.                                         *)
LEMMA SavedAgrees ==
  ASSUME disk' = held'
  PROVE  FileAgrees'
  BY DEF FileAgrees

(* Neither changes, and time may pass.                                      *)
LEMMA StillAgrees ==
  ASSUME Typed, FileAgrees, UNCHANGED <<held, disk, up>>, tip' = tip \/ tip' = tip + 1
  PROVE  FileAgrees'
  <1>1. /\ tip \in Nat /\ tip' \in Nat /\ tip <= tip'
        /\ \A c \in DOMAIN disk : disk[c] \in Entry
    BY ConfigAssumption DEF Typed, TypeOK, IsHeldSet
  <1>2. \A c \in DOMAIN disk : Lapsed(disk[c], tip) => Lapsed(disk[c], tip')
    BY <1>1, LapsedLater
  <1> QED  BY <1>2 DEF FileAgrees

(* do_offer drops expired pins from memory only.                            *)
LEMMA AdmitAgrees ==
  ASSUME Typed, HeightInv, FileAgrees, NEW w \in Workers, OfferAdmit(w)
  PROVE  FileAgrees'
  <1> SUFFICES ASSUME up' PROVE FileAgrees'
    BY DEF FileAgrees
  <1>0. /\ up /\ tip' = tip /\ disk' = disk /\ tip \in Nat
        /\ height[w] \in Nat /\ height[w] <= tip
        /\ \A c \in DOMAIN held : held[c] \in Entry
    BY ConfigAssumption
    DEF OfferAdmit, file, chain, Typed, TypeOK, HeightInv, IsHeldSet
  <1>1. /\ DOMAIN held' = DOMAIN held \ Expired(held, height[w])
        /\ \A c \in DOMAIN held' : held'[c] = held[c]
    BY DEF OfferAdmit, Without, Restrict
  <1>2. ASSUME NEW c \in DOMAIN held'
        PROVE  c \in DOMAIN disk /\ TermsOf(disk)[c] = TermsOf(held')[c]
    <2>1. c \in DOMAIN held /\ c \in DOMAIN disk /\ TermsOf(disk)[c] = TermsOf(held)[c]
      BY <1>0, <1>1, <1>2 DEF FileAgrees
    <2>2. TermsOf(held)[c] = TermsOf(held')[c]
      BY <1>1, <1>2, <2>1, SameTerms
    <2> QED  BY <2>1, <2>2
  <1>3. ASSUME NEW c \in DOMAIN disk \ DOMAIN held'
        PROVE  Lapsed(disk[c], tip)
    <2>1. CASE c \in DOMAIN held
      <3>1. Lapsed(held[c], height[w])
        BY <1>1, <1>3, <2>1 DEF Expired
      <3>2. Lapsed(held[c], tip)
        BY <1>0, <2>1, <3>1, LapsedLater
      <3>3. TermsOf(disk)[c] = TermsOf(held)[c]
        BY <1>0, <2>1 DEF FileAgrees
      <3> QED  BY <1>3, <2>1, <3>2, <3>3, TermsExpiry
    <2>2. CASE c \notin DOMAIN held
      BY <1>0, <1>3, <2>2 DEF FileAgrees
    <2> QED  BY <2>1, <2>2
  <1> QED  BY <1>0, <1>2, <1>3 DEF FileAgrees

(* A touch is not saved, and changes nothing that must be.                  *)
LEMMA TouchAgrees ==
  ASSUME Typed, FileAgrees, NEW w \in Workers, AuditProve(w) \/ StatusProbe(w)
  PROVE  FileAgrees'
  <1> SUFFICES ASSUME up' PROVE FileAgrees'
    BY DEF FileAgrees
  <1>0. up /\ tip' = tip /\ disk' = disk
    BY DEF AuditProve, StatusProbe, file, chain
  <1>1. now \in Nat /\ IsHeldSet(held)
    BY ConfigAssumption DEF Typed, TypeOK
  <1>2. held' = held \/ held' = Touch(held, cid(w), now)
    BY DEF AuditProve, StatusProbe
  <1>3. /\ DOMAIN held' = DOMAIN held
        /\ \A c \in DOMAIN held : /\ held'[c].bytes = held[c].bytes
                                  /\ held'[c].rent = held[c].rent
                                  /\ held'[c].expiry = held[c].expiry
    <2>1. CASE held' = held
      BY <2>1
    <2>2. CASE held' = Touch(held, cid(w), now)
      <3>1. \A c \in DOMAIN held : held[c] \in Entry
        BY <1>1 DEF IsHeldSet
      <3> QED  BY <2>2, <3>1 DEF Touch, Entry
    <2> QED  BY <1>2, <2>1, <2>2
  <1>4. \A c \in DOMAIN held : TermsOf(held')[c] = TermsOf(held)[c]
    BY <1>3, SameTerms
  <1> QED  BY <1>0, <1>3, <1>4 DEF FileAgrees

(* With saves that succeed, every other change of memory is saved.          *)
LEMMA AgreesNext ==
  ASSUME ~SaveFails, Typed, HeightInv, FileAgrees, [Next]_vars
  PROVE  FileAgrees'
  <1>0. ~NotSaved /\ \A h : TrySave(h) => disk' = h
    BY DEF NotSaved, TrySave, Saved
  <1>1. CASE \E w \in Workers : OfferAdmit(w)
    BY <1>1, AdmitAgrees
  <1>2. CASE \E w \in Workers : AuditProve(w) \/ StatusProbe(w)
    BY <1>2, TouchAgrees
  <1>3. CASE \E w \in Workers : OfferCommit(w)
    <2>1. disk' = held'
      BY <1>0, <1>3 DEF OfferCommit
    <2> QED  BY <2>1, SavedAgrees
  <1>4. CASE \E w \in Workers : Release(w)
    <2>1. disk' = held'
      BY <1>0, <1>4 DEF Release, Saved
    <2> QED  BY <2>1, SavedAgrees
  <1>5. CASE \E w \in Workers : Renew(w)
    <2>1. disk' = held' \/ UNCHANGED <<held, disk>>
      BY <1>0, <1>5 DEF Renew, file
    <2>2. tip' = tip /\ up' = up
      BY <1>5 DEF Renew, chain
    <2> QED  BY <2>1, <2>2, SavedAgrees, StillAgrees
  <1>6. CASE GcDrop
    <2>1. disk' = held' \/ UNCHANGED <<held, disk>>
      BY <1>0, <1>6 DEF GcDrop, file
    <2>2. tip' = tip /\ up' = up
      BY <1>6 DEF GcDrop, chain
    <2> QED  BY <2>1, <2>2, SavedAgrees, StillAgrees
  <1>7. CASE \E w \in Workers : Receive(w) \/ OfferCheck(w) \/ OfferHeight(w)
                \/ OfferFetch(w) \/ AuditGate(w) \/ StatusGate(w) \/ Reply(w)
    <2>1. UNCHANGED <<tip, held, disk, up>>
      BY <1>7 DEF Receive, OfferCheck, OfferHeight, OfferFetch, AuditGate,
                  StatusGate, Reply, chain, file
    <2> QED  BY <2>1, StillAgrees
  <1>8. CASE Refresh \/ GcHeight \/ Mine \/ Tick \/ Revoke \/ UNCHANGED vars
    <2>1. UNCHANGED <<held, disk, up>> /\ (tip' = tip \/ tip' = tip + 1)
      BY <1>8 DEF Refresh, GcHeight, Mine, Tick, Revoke, vars, chain, file
    <2> QED  BY <2>1, StillAgrees
  <1>9. CASE Crash \/ Start \/ FileRot
    <2>1. ~up' \/ disk' = held'
      BY <1>9 DEF Crash, Start, FileRot, file
    <2> QED  BY <2>1, SavedAgrees DEF FileAgrees
  <1> QED  BY <1>1, <1>2, <1>3, <1>4, <1>5, <1>6, <1>7, <1>8, <1>9 DEF Next, Handle

(* While the file system takes every save, a restart at any moment brings   *)
(* back every pin on its terms, and nothing else but pins past their lease. *)
THEOREM FileTrue == ~SaveFails /\ Spec => []FileAgrees
  <1>1. Init => Typed /\ HeightInv /\ FileAgrees
    BY InitTyped, HeightInit DEF Init, FileAgrees
  <1>2. ~SaveFails /\ Typed /\ HeightInv /\ FileAgrees /\ [Next]_vars
          => (Typed /\ HeightInv /\ FileAgrees)'
    BY NextTyped, HeightNext, AgreesNext
  <1>3. CASE ~SaveFails
    BY <1>1, <1>2, <1>3, PTL DEF Spec
  <1> QED  BY <1>3

----------------------------------------------------------------------------
(* The file as the ledger of PinLedger.                                     *)

(* A handler runs in a process that is up.                                  *)
UpInv == ~rotten /\ \A w \in Workers : pc[w] # "idle" => up

LEMMA UpNext ==
  ASSUME ~SaveFails, ~FileRots, Typed, UpInv, [Next]_vars
  PROVE  UpInv'
  <1>0. pc \in [Workers -> Labels]
    BY DEF Typed, TypeOK
  <1>1. CASE \E w \in Workers : Receive(w) \/ Handle(w)
    <2>1. PICK w \in Workers : Receive(w) \/ Handle(w)
      BY <1>1
    <2>2. /\ up' = up /\ (rotten' = rotten \/ rotten' = FALSE)
          /\ up
          /\ \A v \in Workers : v # w => pc'[v] = pc[v]
      BY <1>0, <2>1
      DEF Handle, Receive, OfferCheck, OfferHeight, OfferAdmit, OfferFetch, OfferCommit,
          AuditGate, AuditProve, StatusGate, StatusProbe, Renew, Release, Reply,
          Answer, Goto, TrySave, Saved, NotSaved, file, UpInv
    <2> QED  BY <2>2 DEF UpInv
  <1>2. CASE Crash
    BY <1>2 DEF Crash, Fresh, file, UpInv
  <1>3. CASE Start
    BY <1>3 DEF Start, file, worker, UpInv
  <1>4. CASE Refresh \/ GcHeight \/ GcDrop \/ FileRot \/ Mine \/ Tick \/ Revoke
              \/ UNCHANGED vars
    BY <1>4 DEF Refresh, GcHeight, GcDrop, FileRot, Mine, Tick, Revoke, vars, file,
                worker, TrySave, Saved, NotSaved, UpInv
  <1> QED  BY <1>1, <1>2, <1>3, <1>4 DEF Next

LEMMA TermsFacts ==
  ASSUME NEW h, IsHeldSet(h)
  PROVE  /\ DOMAIN TermsOf(h) = DOMAIN h
         /\ \A c \in DOMAIN h : /\ TermsOf(h)[c].bytes = h[c].bytes
                                /\ TermsOf(h)[c].rent = h[c].rent
                                /\ TermsOf(h)[c].expiry = h[c].expiry
                                /\ TermsOf(h)[c] \in Ledger!Terms
         /\ Ledger!TotalBytes(TermsOf(h)) = TotalBytes(h)
  <1>1. DOMAIN TermsOf(h) = DOMAIN h
    BY DEF TermsOf
  <1>2. ASSUME NEW c \in DOMAIN h
        PROVE  /\ TermsOf(h)[c].bytes = h[c].bytes
               /\ TermsOf(h)[c].rent = h[c].rent
               /\ TermsOf(h)[c].expiry = h[c].expiry
               /\ TermsOf(h)[c] \in Ledger!Terms
    <2>1. h[c].bytes \in Nat /\ h[c].rent \in Nat /\ h[c].expiry \in Nat
      BY MaxBytesAssumption DEF IsHeldSet, Entry
    <2> QED  BY <2>1 DEF TermsOf, Ledger!Terms
  <1>3. Ledger!ByteSlots(TermsOf(h)) = ByteSlots(h)
    BY <1>1, <1>2 DEF ByteSlots, Ledger!ByteSlots
  <1>4. \A S : Ledger!Cardinality(S) = Cardinality(S)
    BY DEF Cardinality, Ledger!Cardinality
  <1> QED  BY <1>1, <1>2, <1>3, <1>4 DEF TotalBytes, Ledger!TotalBytes

(* If the file becomes memory but for some CIDs of memory, all other CIDs   *)
(* are as the ledger wants them: on the terms they had, or gone and lapsed. *)
LEMMA OthersKept ==
  ASSUME Typed, Typed', FileAgrees, up, NEW d \in Cids,
         d \in DOMAIN held => (d \in DOMAIN disk' /\ TermsOf(disk')[d] = TermsOf(held)[d])
                              \/ (d \notin DOMAIN disk' /\ Lapsed(held[d], tip)),
         d \notin DOMAIN held => d \notin DOMAIN disk'
  PROVE  Ledger!Kept(d)
  <1>0. IsHeldSet(held) /\ IsHeldSet(disk) /\ IsHeldSet(disk')
    BY DEF Typed, TypeOK
  <1>1. DOMAIN TermsOf(disk) = DOMAIN disk /\ DOMAIN TermsOf(disk)' = DOMAIN disk'
    BY DEF TermsOf
  <1>2. CASE d \in DOMAIN held
    <2>1. d \in DOMAIN disk /\ TermsOf(disk)[d] = TermsOf(held)[d]
      BY <1>2 DEF FileAgrees
    <2>2. CASE d \in DOMAIN disk' /\ TermsOf(disk')[d] = TermsOf(held)[d]
      BY <1>1, <2>1, <2>2 DEF Ledger!Kept, Ledger!Same
    <2>3. CASE d \notin DOMAIN disk' /\ Lapsed(held[d], tip)
      <3>1. Lapsed(TermsOf(disk)[d], tip)
        BY <1>0, <1>2, <2>1, <2>3, TermsFacts DEF Lapsed
      <3> QED  BY <1>1, <2>1, <2>3, <3>1
               DEF Ledger!Kept, Ledger!Gone, Ledger!Lapsed, Lapsed
    <2> QED  BY <1>2, <2>2, <2>3
  <1>3. CASE d \notin DOMAIN held
    <2>1. CASE d \in DOMAIN disk
      <3>1. Lapsed(disk[d], tip)
        BY <1>3, <2>1 DEF FileAgrees
      <3>2. Lapsed(TermsOf(disk)[d], tip)
        BY <1>0, <2>1, <3>1, TermsFacts DEF Lapsed
      <3> QED  BY <1>1, <1>3, <2>1, <3>2
               DEF Ledger!Kept, Ledger!Gone, Ledger!Lapsed, Lapsed
    <2>2. CASE d \notin DOMAIN disk
      BY <1>1, <1>3, <2>2 DEF Ledger!Kept, Ledger!Same
    <2> QED  BY <2>1, <2>2
  <1> QED  BY <1>2, <1>3

LEMMA CommitRefines ==
  ASSUME ~SaveFails, Typed, Typed', FileAgrees, UpInv, NEW w \in Workers, OfferCommit(w)
  PROVE  Ledger!Next
  <1>0. /\ pc[w] = "commit" /\ up /\ tip' = tip /\ disk' = held'
        /\ IsHeldSet(held) /\ IsHeldSet(held') /\ cid(w) \in Cids
    <2>1. /\ pc[w] = "commit" /\ tip' = tip /\ disk' = held'
      BY DEF OfferCommit, TrySave, Saved, NotSaved, chain
    <2>2. cid(w) \in Cids
      BY <2>1, OfferFields DEF Typed, ReqOK, OfferLabels, cid
    <2> QED  BY <2>1, <2>2 DEF UpInv, Typed, TypeOK
  <1>1. /\ DOMAIN held' = DOMAIN held \cup {cid(w)}
        /\ held'[cid(w)].bytes = Size[cid(w)]
        /\ \A d \in DOMAIN held : d # cid(w) => held'[d] = held[d]
    BY DEF OfferCommit, Insert
  <1>2. /\ cid(w) \in DOMAIN TermsOf(disk')
        /\ TermsOf(disk')[cid(w)].bytes = Size[cid(w)]
    BY <1>0, <1>1, TermsFacts
  <1>3. ASSUME NEW d \in Cids \ {cid(w)}
        PROVE  Ledger!Kept(d)
    <2>1. d \in DOMAIN held => d \in DOMAIN disk' /\ TermsOf(disk')[d] = TermsOf(held)[d]
      BY <1>0, <1>1, <1>3, SameTerms
    <2>2. d \notin DOMAIN held => d \notin DOMAIN disk'
      BY <1>0, <1>1, <1>3
    <2> QED  BY <1>0, <2>1, <2>2, OthersKept
  <1>4. Ledger!Commit(cid(w))
    BY <1>2, <1>3 DEF Ledger!Commit
  <1> QED  BY <1>0, <1>4 DEF Ledger!Next, Ledger!Serve

LEMMA RenewRefines ==
  ASSUME ~SaveFails, Typed, Typed', FileAgrees, UpInv, NEW w \in Workers, Renew(w),
         cid(w) \in DOMAIN held
  PROVE  Ledger!Next
  <1>0. /\ up /\ tip' = tip /\ disk' = held'
        /\ IsHeldSet(held) /\ IsHeldSet(disk) /\ IsHeldSet(held') /\ cid(w) \in Cids
        /\ req[w].expiry \in Nat
    <2>1. /\ pc[w] = "renew" /\ tip' = tip /\ disk' = held'
      BY DEF Renew, TrySave, Saved, NotSaved, chain
    <2>2. req[w].expiry \in Nat
      BY <2>1, RenewFields DEF Typed, ReqOK
    <2> QED  BY <2>1, <2>2 DEF UpInv, Typed, TypeOK, IsHeldSet
  <1>1. /\ DOMAIN held' = DOMAIN held
        /\ \A d \in DOMAIN held : d # cid(w) => held'[d] = held[d]
        /\ held'[cid(w)].bytes = held[cid(w)].bytes
        /\ held[cid(w)].expiry = 0 \/ held'[cid(w)].expiry >= held[cid(w)].expiry
    <2>1. held' = Insert(held, cid(w), Renewed(held[cid(w)], req[w]))
      BY DEF Renew
    <2>2. held[cid(w)] \in Entry
      BY <1>0 DEF IsHeldSet
    <2>3. /\ Renewed(held[cid(w)], req[w]).bytes = held[cid(w)].bytes
          /\ Renewed(held[cid(w)], req[w]).expiry
                = Extended(held[cid(w)].expiry, req[w].expiry)
      BY <2>2 DEF Renewed, Entry
    <2>4. /\ held[cid(w)].expiry \in Nat
          /\ held[cid(w)].expiry = 0
               \/ Extended(held[cid(w)].expiry, req[w].expiry) >= held[cid(w)].expiry
      BY <1>0, <2>2 DEF Extended, Entry
    <2> QED  BY <2>1, <2>3, <2>4 DEF Insert
  <1>2. cid(w) \in DOMAIN disk /\ TermsOf(disk)[cid(w)] = TermsOf(held)[cid(w)]
    BY <1>0 DEF FileAgrees
  <1>3. /\ cid(w) \in DOMAIN TermsOf(disk) \cap DOMAIN TermsOf(disk')
        /\ TermsOf(disk')[cid(w)].bytes = TermsOf(disk)[cid(w)].bytes
        /\ \/ TermsOf(disk)[cid(w)].expiry = 0
           \/ TermsOf(disk')[cid(w)].expiry >= TermsOf(disk)[cid(w)].expiry
    BY <1>0, <1>1, <1>2, TermsFacts
  <1>4. ASSUME NEW d \in Cids \ {cid(w)}
        PROVE  Ledger!Kept(d)
    <2>1. d \in DOMAIN held => d \in DOMAIN disk' /\ TermsOf(disk')[d] = TermsOf(held)[d]
      BY <1>0, <1>1, <1>4, SameTerms
    <2>2. d \notin DOMAIN held => d \notin DOMAIN disk'
      BY <1>0, <1>1, <1>4
    <2> QED  BY <1>0, <2>1, <2>2, OthersKept
  <1>5. Ledger!Extend(cid(w))
    BY <1>3, <1>4 DEF Ledger!Extend
  <1> QED  BY <1>0, <1>5 DEF Ledger!Next, Ledger!Serve

LEMMA ReleaseRefines ==
  ASSUME ~SaveFails, Typed, Typed', FileAgrees, UpInv, NEW w \in Workers, Release(w)
  PROVE  Ledger!Next
  <1>0. /\ up /\ tip' = tip /\ disk' = held'
        /\ IsHeldSet(held) /\ IsHeldSet(disk) /\ IsHeldSet(held')
    BY DEF Release, Saved, NotSaved, chain, UpInv, Typed, TypeOK
  <1>1. /\ DOMAIN held' = DOMAIN held \ {cid(w)}
        /\ \A d \in DOMAIN held' : held'[d] = held[d]
    BY DEF Release, Without, Restrict
  <1>2. ASSUME NEW d \in Cids \ {cid(w)}
        PROVE  Ledger!Kept(d)
    <2>1. d \in DOMAIN held => d \in DOMAIN disk' /\ TermsOf(disk')[d] = TermsOf(held)[d]
      BY <1>0, <1>1, <1>2, SameTerms
    <2>2. d \notin DOMAIN held => d \notin DOMAIN disk'
      BY <1>0, <1>1, <1>2
    <2> QED  BY <1>0, <2>1, <2>2, OthersKept
  <1>3. DOMAIN TermsOf(disk) = DOMAIN disk /\ cid(w) \notin DOMAIN TermsOf(disk')
    BY <1>0, <1>1 DEF TermsOf
  <1>4. CASE cid(w) \in DOMAIN disk
    <2>1. cid(w) \in Cids
      BY <1>0, <1>4 DEF IsHeldSet
    <2>2. Ledger!Drop(cid(w))
      BY <1>2, <1>3, <1>4 DEF Ledger!Drop, Ledger!Gone
    <2> QED  BY <1>0, <2>1, <2>2 DEF Ledger!Next, Ledger!Serve
  <1>5. CASE cid(w) \notin DOMAIN disk
    <2>1. Ledger!Kept(cid(w))
      BY <1>3, <1>5 DEF Ledger!Kept, Ledger!Same
    <2>2. Ledger!Clear
      BY <1>2, <2>1 DEF Ledger!Clear
    <2> QED  BY <1>0, <2>2 DEF Ledger!Next, Ledger!Serve
  <1> QED  BY <1>4, <1>5

(* The collector drops lapsed pins alone, or evicts and needs every victim. *)
LEMMA GcRefines ==
  ASSUME ~SaveFails, Typed, Typed', HeightInv, FileAgrees, GcDrop, disk' # disk
  PROVE  Ledger!Next
  <1> DEFINE live == Without(held, Expired(held, gcHeight))
             victims == EvictToFit(live, Capacity, gcHeight)
  <1>0. /\ up /\ tip' = tip /\ disk' = held' /\ held' = Without(live, victims)
        /\ IsHeldSet(held) /\ IsHeldSet(disk) /\ IsHeldSet(held')
        /\ tip \in Nat /\ gcHeight \in Nat /\ gcHeight <= tip /\ Capacity \in Nat
    BY ConfigAssumption
    DEF GcDrop, TrySave, Saved, NotSaved, chain, file, Typed, TypeOK, HeightInv
  <1>1. /\ IsHeldSet(live) /\ DOMAIN live = DOMAIN held \ Expired(held, gcHeight)
        /\ \A d \in DOMAIN live : live[d] = held[d]
    BY <1>0 DEF IsHeldSet, Without, Restrict
  <1>2. victims \subseteq DOMAIN live
    BY DEF EvictToFit
  <1>3. TotalBytes(Without(live, victims)) <= Capacity
    BY <1>0, <1>1, EvictionFits
  <1>4. victims # {} => \E c \in victims :
            TotalBytes(Without(live, victims)) + live[c].bytes > Capacity
    BY <1>0, <1>1, LastVictimNeeded
  <1>5. ASSUME NEW d \in Expired(held, gcHeight)
        PROVE  Lapsed(held[d], tip)
    <2>1. held[d] \in Entry /\ Lapsed(held[d], gcHeight)
      BY <1>0, <1>5 DEF Expired, IsHeldSet
    <2> QED  BY <1>0, <2>1, LapsedLater
  <1> HIDE DEF live, victims
  <1>6. /\ DOMAIN held' = DOMAIN live \ victims
        /\ \A d \in DOMAIN held' : held'[d] = held[d]
    BY <1>0, <1>1 DEF Without, Restrict
  <1>7. ASSUME NEW d \in Cids, d \notin victims
        PROVE  Ledger!Kept(d)
    <2>1. CASE d \in DOMAIN live
      <3>1. d \in DOMAIN held /\ d \in DOMAIN disk' /\ TermsOf(disk')[d] = TermsOf(held)[d]
        BY <1>0, <1>1, <1>6, <1>7, <2>1, SameTerms
      <3> QED  BY <1>0, <3>1, OthersKept
    <2>2. CASE d \notin DOMAIN live
      <3>1. d \notin DOMAIN disk' /\ (d \in DOMAIN held => Lapsed(held[d], tip))
        BY <1>0, <1>1, <1>5, <1>6, <2>2
      <3> QED  BY <1>0, <3>1, OthersKept
    <2> QED  BY <2>1, <2>2
  <1>8. CASE victims = {}
    <2>1. Ledger!Clear
      BY <1>7, <1>8 DEF Ledger!Clear
    <2> QED  BY <1>0, <2>1 DEF Ledger!Next, Ledger!Serve
  <1>9. CASE victims # {}
    <2>1. DOMAIN TermsOf(disk) = DOMAIN disk /\ DOMAIN TermsOf(disk') = DOMAIN disk'
      BY DEF TermsOf
    <2>2. ASSUME NEW v \in victims
          PROVE  /\ v \in Cids /\ Ledger!Gone(v)
                 /\ TermsOf(disk)[v].bytes = live[v].bytes
      <3>1. v \in DOMAIN held /\ live[v] = held[v] /\ v \notin DOMAIN disk'
        BY <1>0, <1>1, <1>2, <1>6, <2>2
      <3>2. v \in DOMAIN disk /\ TermsOf(disk)[v] = TermsOf(held)[v]
        BY <1>0, <3>1 DEF FileAgrees
      <3>3. TermsOf(held)[v].bytes = held[v].bytes /\ v \in Cids
        BY <1>0, <3>1, TermsFacts DEF IsHeldSet
      <3> QED  BY <2>1, <3>1, <3>2, <3>3 DEF Ledger!Gone
    <2>3. \A c \in Cids : Ledger!Same(c) \/ Ledger!Gone(c)
      BY <1>7, <2>2 DEF Ledger!Kept
    <2>4. Ledger!TotalBytes(TermsOf(disk')) = TotalBytes(Without(live, victims))
      BY <1>0, TermsFacts
    <2>5. Ledger!TotalBytes(TermsOf(disk')) <= Capacity
      BY <1>3, <2>4
    <2>6. \E c \in Cids :
             /\ Ledger!Gone(c)
             /\ Ledger!TotalBytes(TermsOf(disk')) + TermsOf(disk)[c].bytes > Capacity
      BY <1>4, <1>9, <2>2, <2>4
    <2>7. Ledger!Evict
      BY <2>3, <2>5, <2>6 DEF Ledger!Evict
    <2> QED  BY <1>0, <2>7 DEF Ledger!Next, Ledger!Serve
  <1> QED  BY <1>8, <1>9

LEMMA StepRefines ==
  ASSUME ~SaveFails, ~FileRots, Typed, HeightInv, FileAgrees, UpInv, [Next]_vars
  PROVE  [Ledger!Next]_(Ledger!ledgerVars)
  <1>0. Typed'
    BY NextTyped
  <1>1. disk' = disk /\ tip' = tip => UNCHANGED Ledger!ledgerVars
    BY DEF Ledger!ledgerVars
  <1>2. CASE \E w \in Workers : OfferCommit(w)
    BY <1>0, <1>2, CommitRefines
  <1>3. CASE \E w \in Workers : Renew(w)
    <2>1. PICK w \in Workers : Renew(w)
      BY <1>3
    <2>2. CASE cid(w) \notin DOMAIN held
      <3>1. disk' = disk /\ tip' = tip
        BY <2>1, <2>2 DEF Renew, file, chain
      <3> QED  BY <1>1, <3>1
    <2> QED  BY <1>0, <2>1, <2>2, RenewRefines
  <1>4. CASE \E w \in Workers : Release(w)
    BY <1>0, <1>4, ReleaseRefines
  <1>5. CASE GcDrop
    <2>1. tip' = tip
      BY <1>5 DEF GcDrop, chain
    <2> QED  BY <1>0, <1>1, <1>5, <2>1, GcRefines
  <1>6. CASE Mine
    <2>1. tip' = tip + 1 /\ disk' = disk
      BY <1>6 DEF Mine, file
    <2> QED  BY <2>1 DEF Ledger!Next, Ledger!Mine
  <1>7. CASE Start
    <2>1. disk' = disk /\ tip' = tip
      BY <1>7 DEF Start, UpInv, file, chain
    <2> QED  BY <1>1, <2>1
  <1>8. CASE \/ Crash \/ Refresh \/ GcHeight \/ FileRot \/ Tick \/ Revoke \/ UNCHANGED vars
             \/ \E w \in Workers : Receive(w) \/ OfferCheck(w) \/ OfferHeight(w)
                  \/ OfferAdmit(w) \/ OfferFetch(w) \/ AuditGate(w) \/ AuditProve(w)
                  \/ StatusGate(w) \/ StatusProbe(w) \/ Reply(w)
    <2>1. disk' = disk /\ tip' = tip
      BY <1>8 DEF Crash, Refresh, GcHeight, FileRot, Tick, Revoke, vars, file, chain,
           Receive, OfferCheck, OfferHeight, OfferAdmit, OfferFetch, AuditGate, AuditProve,
           StatusGate, StatusProbe, Reply
    <2> QED  BY <1>1, <2>1
  <1> QED  BY <1>2, <1>3, <1>4, <1>5, <1>6, <1>7, <1>8 DEF Next, Handle

(* What a restart would load changes only as the ledger of PinLedger may:   *)
(* by one request a step, by leases that are over, and by evictions that    *)
(* need every pin they take; for any number of handlers and any capacity,   *)
(* with crashes, as long as the file takes every save and stays readable.   *)
THEOREM LedgerKept == ~SaveFails /\ ~FileRots => (Spec => Implements)
  <1> SUFFICES ASSUME ~SaveFails, ~FileRots PROVE Spec => Implements
    OBVIOUS
  <1>1. Init => Ledger!Init
    <2> SUFFICES ASSUME Init PROVE Ledger!Init
      OBVIOUS
    <2>1. IsHeldSet(disk) /\ tip = 0
      BY InitTyped DEF Init, Typed, TypeOK
    <2>2. /\ DOMAIN TermsOf(disk) \subseteq Cids
          /\ \A c \in DOMAIN disk : TermsOf(disk)[c] \in Ledger!Terms
          /\ DOMAIN TermsOf(disk) = DOMAIN disk
      BY <2>1, TermsFacts DEF IsHeldSet
    <2>3. TermsOf(disk) \in [DOMAIN TermsOf(disk) -> Ledger!Terms]
      BY <2>2 DEF TermsOf
    <2> QED  BY <2>1, <2>2, <2>3 DEF Ledger!Init
  <1>2. Init => Typed /\ HeightInv /\ FileAgrees /\ UpInv
    BY InitTyped, HeightInit DEF Init, FileAgrees, UpInv
  <1>3. Typed /\ HeightInv /\ FileAgrees /\ UpInv /\ [Next]_vars
          => (Typed /\ HeightInv /\ FileAgrees /\ UpInv)'
    BY NextTyped, HeightNext, AgreesNext, UpNext
  <1>4. Typed /\ HeightInv /\ FileAgrees /\ UpInv /\ [Next]_vars
          => [Ledger!Next]_(Ledger!ledgerVars)
    BY StepRefines
  <1> QED  BY <1>1, <1>2, <1>3, <1>4, PTL DEF Spec, Implements, Ledger!Spec

=============================================================================
