------------------------ MODULE PublisherViewProofs ------------------------
(***************************************************************************)
(* What a publisher can rely on, for any CIDs, limits, crashes and number  *)
(* of requests, of a host that serves one request at a time (Alone):       *)
(*   - a release that was answered positively is final, even with failing  *)
(*     saves and a rotting file (ReleaseFinal);                            *)
(*   - with honest lengths (Plain) the host keeps its disk budget          *)
(*     (BudgetKept);                                                       *)
(*   - and if the file takes every save (Sound), what was acknowledged is  *)
(*     held until its lease is over, on that lease (PromiseKept,           *)
(*     LeaseTold).                                                         *)
(* The types (ViewTypeCorrect) hold of any host.                           *)
(***************************************************************************)
EXTENDS PublisherView, HostSafetyProofs

----------------------------------------------------------------------------
(* A release is final.                                                      *)

(* One request at a time.                                                   *)
Alone == \A v, w \in Workers : v = w

Looks == {"audit", "prove", "status", "probe"}

(* A positive answer to a release is true from the moment it is made, which *)
(* is before the publisher hears it; and nothing is done about a CID the    *)
(* publisher has dismissed.                                                 *)
GoneInv ==
    /\ \A c \in dismissed : c \notin DOMAIN held \cup DOMAIN disk
    /\ \A w \in Workers :
          /\ pc[w] \in Looks => req[w].op # "release"
          /\ pc[w] # "idle" /\ req[w].op \notin {"audit", "status"} =>
                cid(w) \notin dismissed
          /\ pc[w] = "reply" /\ req[w].op = "release" /\ answer[w].ok =>
                cid(w) \notin DOMAIN held \cup DOMAIN disk

LEMMA GoneInit == ViewInit => GoneInv
  BY DEF ViewInit, Init, GoneInv, Looks

----------------------------------------------------------------------------
(* What a step may do to a worker.                                          *)

Rests(w) == pc'[w] = pc[w] /\ req'[w] = req[w] /\ answer'[w] = answer[w]

Takes(w) ==
    /\ pc[w] = "idle" /\ req'[w] \in Requests
    /\ pc'[w] = req'[w].op \/ (pc'[w] = "reply" /\ answer'[w] = No)

Proceeds(w) ==
    /\ pc[w] \notin {"idle", "reply"} /\ pc'[w] # "idle" /\ req'[w] = req[w]
    /\ pc'[w] \in Looks => pc[w] \in Looks
    /\ pc'[w] = "reply" =>
          \/ pc[w] \in Looks \cup OfferLabels \cup {"renew"}
          \/ ~answer'[w].ok
          \/ cid(w) \notin DOMAIN held' \cup DOMAIN disk'

(* A release is answered positively only once the file is without the pin.  *)
LEMMA ReleaseMoves ==
  ASSUME Typed, NEW v \in Workers, Release(v), NEW w \in Workers
  PROVE  Rests(w) \/ Proceeds(w)
  <1>1. CASE v = w
    <2>1. /\ pc[w] = "release" /\ pc'[w] = "reply" /\ req' = req
          /\ held' = Without(held, {cid(w)})
          /\ disk' = held' \/ ~answer'[w].ok
      BY <1>1 DEF Release, Answer, Goto, Saved, NotSaved, No, Typed, TypeOK
    <2>2. cid(w) \notin DOMAIN held'
      BY <2>1 DEF Without, Restrict
    <2> QED  BY <2>1, <2>2 DEF Proceeds, Looks
  <1>2. CASE v # w
    BY <1>2 DEF Release, Answer, Goto, Rests, Typed, TypeOK
  <1> QED  BY <1>1, <1>2

LEMMA Moves ==
  ASSUME Typed, [Next]_vars, NEW w \in Workers
  PROVE  pc'[w] = "idle" \/ Rests(w) \/ Takes(w) \/ Proceeds(w)
  <1> USE DEF Typed, TypeOK
  <1>1. CASE \E v \in Workers : Receive(v)
    <2>1. PICK v \in Workers : Receive(v)
      BY <1>1
    <2>2. CASE v = w
      <3>1. PICK r \in Requests :
              /\ req' = [req EXCEPT ![w] = r]
              /\ pc'[w] = r.op \/ (pc'[w] = "reply" /\ answer'[w] = No)
        BY <2>1, <2>2 DEF Receive, Answer, Goto
      <3>2. req'[w] = r /\ pc[w] = "idle"
        BY <2>1, <2>2, <3>1 DEF Receive
      <3> QED  BY <3>1, <3>2 DEF Takes
    <2>3. CASE v # w
      BY <2>1, <2>3 DEF Receive, Answer, Goto, Rests
    <2> QED  BY <2>2, <2>3
  <1>2. CASE \E v \in Workers : OfferCheck(v) \/ OfferHeight(v) \/ OfferAdmit(v)
                                \/ OfferFetch(v) \/ OfferCommit(v)
    <2>1. PICK v \in Workers : OfferCheck(v) \/ OfferHeight(v) \/ OfferAdmit(v)
                                \/ OfferFetch(v) \/ OfferCommit(v)
      BY <1>2
    <2>2. CASE v = w
      BY <2>1, <2>2 DEF OfferCheck, OfferHeight, OfferAdmit, OfferFetch, OfferCommit,
                        Answer, Goto, Proceeds, OfferLabels, Looks
    <2>3. CASE v # w
      BY <2>1, <2>3 DEF OfferCheck, OfferHeight, OfferAdmit, OfferFetch, OfferCommit,
                        Answer, Goto, Rests
    <2> QED  BY <2>2, <2>3
  <1>3. CASE \E v \in Workers : AuditGate(v) \/ StatusGate(v) \/ AuditProve(v)
                                \/ StatusProbe(v) \/ Renew(v)
    <2>1. PICK v \in Workers : AuditGate(v) \/ StatusGate(v) \/ AuditProve(v)
                                \/ StatusProbe(v) \/ Renew(v)
      BY <1>3
    <2>2. CASE v = w
      BY <2>1, <2>2 DEF AuditGate, StatusGate, AuditProve, StatusProbe, Renew,
                        Answer, Goto, Proceeds, Looks
    <2>3. CASE v # w
      BY <2>1, <2>3 DEF AuditGate, StatusGate, AuditProve, StatusProbe, Renew,
                        Answer, Goto, Rests
    <2> QED  BY <2>2, <2>3
  <1>4. CASE \E v \in Workers : Release(v)
    BY <1>4, ReleaseMoves
  <1>5. CASE \E v \in Workers : Reply(v)
    BY <1>5 DEF Reply, Goto, Rests
  <1>6. CASE Crash
    BY <1>6 DEF Crash, Fresh
  <1>7. CASE UNCHANGED worker
    BY <1>7 DEF worker, Rests
  <1>8. Refresh \/ GcHeight \/ GcDrop \/ Start \/ FileRot \/ Mine \/ Tick
          \/ Revoke \/ UNCHANGED vars => UNCHANGED worker
    BY DEF Refresh, GcHeight, GcDrop, Start, FileRot, Mine, Tick, Revoke, vars
  <1> QED  BY <1>1, <1>2, <1>3, <1>4, <1>5, <1>6, <1>7, <1>8 DEF Next, Handle

----------------------------------------------------------------------------

(* What is dismissed after a step was dismissed before and is not asked for *)
(* by it, or is what the step answers.                                      *)
LEMMA Dismissing ==
  ASSUME [Next /\ Listen]_viewVars, NEW c \in dismissed'
  PROVE  \/ /\ c \in dismissed
            /\ \A w \in Workers : Asked(w) => c # cid(w)'
         \/ \E w \in Workers : Told(w, {"release"}) /\ c = cid(w)
  <1>1. CASE Listen
    BY <1>1 DEF Listen, cid
  <1>2. CASE UNCHANGED viewVars
    BY <1>2 DEF viewVars, vars, worker, Asked
  <1> QED  BY <1>1, <1>2

LEMMA GoneNext ==
  Alone /\ Typed /\ GoneInv /\ [Next /\ Listen]_viewVars => GoneInv'
  <1> SUFFICES ASSUME Alone, Typed, GoneInv, [Next /\ Listen]_viewVars
               PROVE  GoneInv'
    OBVIOUS
  <1>0. [Next]_vars
    BY DEF viewVars
  <1>1. ASSUME NEW c \in dismissed', c \in DOMAIN held' \cup DOMAIN disk'
        PROVE  FALSE
    <2>1. CASE c \in DOMAIN held \cup DOMAIN disk
      BY <1>1, <2>1, Dismissing DEF GoneInv, Told
    <2>2. CASE \E w \in Workers : pc[w] = "commit" /\ c = cid(w)
      <3>1. PICK w \in Workers : pc[w] = "commit" /\ c = cid(w)
        BY <2>2
      <3>2. req[w].op = "offer"
        BY <3>1, OfferFields DEF Typed, ReqOK, OfferLabels
      <3> QED  BY <1>1, <3>1, <3>2, Dismissing DEF GoneInv, Told, Alone
    <2> QED  BY <1>0, <1>1, <2>1, <2>2, NewPins
  <1>2. ASSUME NEW w \in Workers, pc'[w] \in Looks
        PROVE  req'[w].op # "release"
    BY <1>0, <1>2, Moves DEF GoneInv, Rests, Takes, Proceeds, Looks
  <1>3. ASSUME NEW w \in Workers, pc'[w] # "idle", req'[w].op \notin {"audit", "status"},
               cid(w)' \in dismissed'
        PROVE  FALSE
    <2>1. ~ \E v \in Workers : Told(v, {"release"})
      BY <1>3 DEF Alone, Told
    <2>2. cid(w)' \in dismissed /\ ~Asked(w)
      BY <1>3, <2>1, Dismissing
    <2>3. pc[w] # "idle"
      BY <1>3, <2>2 DEF Asked
    <2>4. req'[w] = req[w]
      BY <1>0, <1>3, <2>3, Moves DEF Rests, Takes, Proceeds
    <2> QED  BY <1>3, <2>2, <2>3, <2>4 DEF GoneInv, cid
  <1>4. ASSUME NEW w \in Workers, pc'[w] = "reply", req'[w].op = "release", answer'[w].ok
        PROVE  cid(w)' \notin DOMAIN held' \cup DOMAIN disk'
    <2>1. CASE Rests(w)
      <3>1. /\ pc[w] = "reply" /\ cid(w)' = cid(w)
            /\ cid(w) \notin DOMAIN held \cup DOMAIN disk
        BY <1>4, <2>1 DEF Rests, GoneInv, cid
      <3> QED  BY <1>0, <3>1, NewPins DEF Alone
    <2>2. CASE Takes(w)
      BY <1>4, <2>2 DEF Takes, No
    <2>3. CASE Proceeds(w)
      <3>1. pc[w] \notin Looks /\ cid(w)' = cid(w)
        BY <1>4, <2>3 DEF Proceeds, GoneInv, cid
      <3>2. pc[w] \notin OfferLabels \cup {"renew"}
        BY <1>4, <2>3, OfferFields, RenewFields DEF Proceeds, Typed, ReqOK
      <3> QED  BY <1>4, <2>3, <3>1, <3>2 DEF Proceeds
    <2> QED  BY <1>0, <1>4, <2>1, <2>2, <2>3, Moves
  <1> QED  BY <1>1, <1>2, <1>3, <1>4 DEF GoneInv, cid

(* A released pin stays gone until it is asked for again, whatever crashes, *)
(* restarts and saves that fail come between (the release arm of            *)
(* handle_inner answers only after its save).                               *)
THEOREM ReleaseFinal == Alone => (ViewSpec => []ReleaseIsFinal)
  <1> SUFFICES ASSUME Alone PROVE ViewSpec => []ReleaseIsFinal
    OBVIOUS
  <1>1. ViewInit => Typed /\ GoneInv
    BY InitTyped, GoneInit DEF ViewInit
  <1>2. Typed /\ GoneInv /\ [Next /\ Listen]_viewVars => (Typed /\ GoneInv)'
    BY NextTyped, GoneNext DEF viewVars
  <1>3. GoneInv => ReleaseIsFinal
    BY DEF GoneInv, ReleaseIsFinal
  <1>4. ViewSpec => [](Typed /\ GoneInv)
    BY <1>1, <1>2, PTL DEF ViewSpec
  <1> QED  BY <1>3, <1>4, PTL

----------------------------------------------------------------------------
(* The budget.                                                              *)

(* Offers declare the real size.                                            *)
Honest == \A c \in Cids : Declared[c] \subseteq {Size[c]}

(* A host of today's format, one request at a time, of honest publishers.   *)
Plain == Alone /\ Honest /\ LegacyCids = {}

Fetching == {"fetch", "refetch", "commit"}

Real(h) == \A c \in DOMAIN h : h[c].bytes = Size[c]

(* The object that is being fetched fits beside all the others, whether it  *)
(* was admitted or was held when it was offered, and is held no more.       *)
RoomInv ==
    /\ Real(held) /\ Real(disk)
    /\ TotalBytes(held) <= Capacity /\ TotalBytes(disk) <= Capacity
    /\ \A w \in Workers :
          /\ pc[w] # "idle" => up
          /\ pc[w] \in Fetching =>
                TotalBytes(Without(held, {cid(w)})) + Size[cid(w)] <= Capacity

Within(k, h) ==
    /\ IsHeldSet(k) /\ DOMAIN k \subseteq DOMAIN h
    /\ \A d \in DOMAIN k : k[d].bytes = h[d].bytes

LEMMA WithoutWithin ==
  ASSUME NEW h, IsHeldSet(h), NEW S
  PROVE  Within(Without(h, S), h)
  <1>1. /\ IsHeldSet(Without(h, S)) /\ DOMAIN Without(h, S) = DOMAIN h \ S
        /\ \A d \in DOMAIN h \ S : Without(h, S)[d] = h[d]
    BY WithoutFacts
  <1> QED  BY <1>1 DEF Within

LEMMA WithinFits ==
  ASSUME NEW h, IsHeldSet(h), NEW k, Within(k, h), NEW S
  PROVE  /\ TotalBytes(k) <= TotalBytes(h)
         /\ TotalBytes(Without(k, S)) <= TotalBytes(Without(h, S))
         /\ TotalBytes(Without(k, S)) <= TotalBytes(k)
         /\ {TotalBytes(k), TotalBytes(h), TotalBytes(Without(k, S)),
             TotalBytes(Without(h, S))} \subseteq Nat
  <1>1. /\ IsHeldSet(Without(k, S)) /\ IsHeldSet(Without(h, S))
        /\ DOMAIN Without(k, S) = DOMAIN k \ S /\ DOMAIN Without(h, S) = DOMAIN h \ S
        /\ \A d \in DOMAIN k \ S : Without(k, S)[d] = k[d]
        /\ \A d \in DOMAIN h \ S : Without(h, S)[d] = h[d]
    BY WithoutFacts DEF Within
  <1>2. TotalBytes(k) <= TotalBytes(h)
    BY TotalOfSmaller DEF Within
  <1>3. TotalBytes(Without(k, S)) <= TotalBytes(Without(h, S))
    BY <1>1, TotalOfSmaller DEF Within
  <1>4. TotalBytes(Without(k, S)) <= TotalBytes(k)
    BY <1>1, TotalOfSmaller DEF Within
  <1> QED  BY <1>1, <1>2, <1>3, <1>4, SlotsFinite DEF Within

(* Memory and file only lose pins, and nobody begins to fetch.              *)
LEMMA LosingStep ==
  ASSUME Typed, RoomInv,
         Within(held', held), Within(disk', disk) \/ Within(disk', held),
         \A w \in Workers :
            /\ pc'[w] # "idle" => up'
            /\ pc'[w] \in Fetching => pc[w] \in Fetching /\ req'[w] = req[w]
  PROVE  RoomInv'
  <1>0. IsHeldSet(held) /\ IsHeldSet(disk) /\ Capacity \in Nat /\ Size \in [Cids -> Nat]
    BY ConfigAssumption, MaxBytesAssumption DEF Typed, TypeOK
  <1>1. Real(held)' /\ Real(disk)'
    BY DEF RoomInv, Real, Within
  <1>2. TotalBytes(held') <= Capacity
    BY <1>0, WithinFits DEF RoomInv
  <1>3. TotalBytes(disk') <= Capacity
    BY <1>0, WithinFits DEF RoomInv
  <1>4. ASSUME NEW w \in Workers, pc'[w] \in Fetching
        PROVE  TotalBytes(Without(held', {cid(w)'})) + Size[cid(w)'] <= Capacity
    <2>1. pc[w] \in Fetching /\ cid(w)' = cid(w)
      BY <1>4 DEF cid
    <2>2. TotalBytes(Without(held, {cid(w)})) + Size[cid(w)] <= Capacity
      BY <2>1 DEF RoomInv
    <2>3. cid(w) \in Cids
      BY <2>1, RequestFields DEF Typed, ReqOK, Fetching, cid
    <2>4. Size[cid(w)] \in Nat
      BY <1>0, <2>3
    <2>5. /\ TotalBytes(Without(held', {cid(w)})) <= TotalBytes(Without(held, {cid(w)}))
          /\ {TotalBytes(Without(held', {cid(w)})), TotalBytes(Without(held, {cid(w)}))}
                \subseteq Nat
      BY <1>0, WithinFits
    <2> QED  BY <1>0, <2>1, <2>2, <2>4, <2>5
  <1> QED  BY <1>1, <1>2, <1>3, <1>4 DEF RoomInv, cid

(* The offer of a CID that is held, and the admission of one that is not.   *)
LEMMA AdmittedFits ==
  ASSUME Plain, Typed, RoomInv, NEW w \in Workers, OfferCheck(w) \/ OfferAdmit(w)
  PROVE  RoomInv'
  <1> DEFINE c == cid(w)
  <1>0. /\ IsHeldSet(held) /\ IsHeldSet(disk) /\ Capacity \in Nat
        /\ req[w] \in Offers /\ c \in Cids /\ Size[c] \in Nat
        /\ pc \in [Workers -> Labels]
    <2>1. req[w] \in Offers
      BY DEF OfferCheck, OfferAdmit, Typed, ReqOK, OfferLabels
    <2>2. c \in Cids
      BY <2>1, OfferFields DEF cid
    <2> QED  BY <2>1, <2>2, ConfigAssumption, MaxBytesAssumption DEF Typed, TypeOK
  <1>1. /\ req' = req /\ UNCHANGED <<disk, up>> /\ up
        /\ \A v \in Workers : v = w
        /\ Within(held', held) /\ Within(disk', disk)
    <2>1. CASE OfferCheck(w)
      BY <1>0, <2>1 DEF OfferCheck, file, Plain, Alone, Within, RoomInv
    <2>2. CASE OfferAdmit(w)
      <3>1. held' = Without(held, Expired(held, height[w]))
        BY <2>2 DEF OfferAdmit
      <3>2. Within(held', held)
        BY <1>0, <3>1, WithoutWithin
      <3> QED  BY <1>0, <2>2, <3>2 DEF OfferAdmit, file, Plain, Alone, Within, RoomInv
    <2> QED  BY <2>1, <2>2
  <1>2. CASE pc'[w] \notin Fetching
    BY <1>1, <1>2, LosingStep
  <1>3. CASE pc'[w] \in Fetching
    <2>1. TotalBytes(Without(held', {c})) + Size[c] <= Capacity
      <3>1. CASE OfferCheck(w)
        <4>1. c \in DOMAIN held /\ held' = held
          BY <1>0, <1>3, <3>1 DEF OfferCheck, Goto, Fetching
        <4>2. held[c].bytes = Size[c] /\ TotalBytes(held) <= Capacity
          BY <4>1 DEF RoomInv, Real
        <4>3. TotalBytes(held) = TotalBytes(Without(held, {c})) + held[c].bytes
          BY <1>0, <4>1, TotalOfMember
        <4> QED  BY <4>1, <4>2, <4>3
      <3>2. CASE OfferAdmit(w)
        <4>1. Admissible(req[w], TotalBytes(held'))
          BY <1>0, <1>3, <3>2 DEF OfferAdmit, Answer, Goto, Fetching
        <4>2. req[w].len = Size[c]
          BY <1>0, OfferFields DEF Plain, Honest, cid
        <4>3. TotalBytes(held') + Size[c] <= Capacity
          BY <4>1, <4>2 DEF Admissible
        <4>4. IsHeldSet(held') /\ Within(held', held')
          BY <1>1 DEF Within
        <4>5. /\ TotalBytes(Without(held', {c})) <= TotalBytes(held')
              /\ {TotalBytes(Without(held', {c})), TotalBytes(held')} \subseteq Nat
          BY <4>4, WithinFits
        <4> QED  BY <1>0, <4>3, <4>5
      <3> QED  BY <3>1, <3>2
    <2>2. /\ Real(held)' /\ Real(disk)'
          /\ TotalBytes(held') <= Capacity /\ TotalBytes(disk') <= Capacity
      <3>1. TotalBytes(held') <= TotalBytes(held)
            /\ {TotalBytes(held'), TotalBytes(held)} \subseteq Nat
        BY <1>0, <1>1, WithinFits
      <3> QED  BY <1>0, <1>1, <3>1 DEF RoomInv, Real, Within
    <2> QED  BY <1>1, <2>1, <2>2 DEF RoomInv, cid
  <1> QED  BY <1>2, <1>3

(* What was fetched takes the room that was left for it.                    *)
LEMMA CommittedFits ==
  ASSUME Plain, Typed, Typed', RoomInv, NEW w \in Workers, OfferCommit(w)
  PROVE  RoomInv'
  <1> DEFINE c == cid(w)
  <1>0. /\ IsHeldSet(held) /\ IsHeldSet(held') /\ Capacity \in Nat
        /\ pc[w] = "commit" /\ pc'[w] = "reply" /\ up /\ up' = up
        /\ \A v \in Workers : v = w
        /\ disk' = held' \/ disk' = disk
    BY ConfigAssumption DEF OfferCommit, Answer, Goto, TrySave, Saved, NotSaved, file,
                            Typed, TypeOK, Plain, Alone, RoomInv
  <1>1. /\ DOMAIN held' = DOMAIN held \cup {c} /\ held'[c].bytes = Size[c]
        /\ \A d \in DOMAIN held : d # c => held'[d] = held[d]
    BY DEF OfferCommit, Insert
  <1>2. TotalBytes(Without(held', {c})) <= TotalBytes(Without(held, {c}))
    <2>1. /\ IsHeldSet(Without(held', {c})) /\ IsHeldSet(Without(held, {c}))
          /\ DOMAIN Without(held', {c}) = DOMAIN held' \ {c}
          /\ DOMAIN Without(held, {c}) = DOMAIN held \ {c}
          /\ \A d \in DOMAIN held' \ {c} : Without(held', {c})[d] = held'[d]
          /\ \A d \in DOMAIN held \ {c} : Without(held, {c})[d] = held[d]
      BY <1>0, WithoutFacts
    <2> QED  BY <1>1, <2>1, TotalOfSmaller
  <1>3. TotalBytes(held') = TotalBytes(Without(held', {c})) + Size[c]
    BY <1>0, <1>1, TotalOfMember
  <1>4. TotalBytes(Without(held, {c})) + Size[c] <= Capacity
    BY <1>0 DEF RoomInv, Fetching
  <1>5. TotalBytes(held') <= Capacity
    <2>1. Size[c] \in Nat
      <3>1. c \in Cids
        BY <1>0, OfferFields DEF Typed, ReqOK, OfferLabels, cid
      <3> QED  BY <3>1, ConfigAssumption, MaxBytesAssumption
    <2>2. TotalBytes(Without(held', {c})) \in Nat /\ TotalBytes(Without(held, {c})) \in Nat
      BY <1>0, WithoutFacts, SlotsFinite
    <2> QED  BY <1>0, <1>2, <1>3, <1>4, <2>1, <2>2
  <1>6. Real(held)' /\ Real(disk)'
    BY <1>0, <1>1 DEF RoomInv, Real
  <1>7. TotalBytes(disk') <= Capacity
    BY <1>0, <1>5 DEF RoomInv
  <1> QED  BY <1>0, <1>5, <1>6, <1>7 DEF RoomInv, Fetching

LEMMA RoomNext == Plain /\ Typed /\ RoomInv /\ [Next]_vars => RoomInv'
  <1> SUFFICES ASSUME Plain, Typed, RoomInv, [Next]_vars
               PROVE  RoomInv'
    OBVIOUS
  <1>0. /\ Typed' /\ IsHeldSet(held) /\ IsHeldSet(held') /\ IsHeldSet(disk) /\ IsHeldSet(disk')
        /\ pc \in [Workers -> Labels] /\ req \in [Workers -> Requests \cup {NoRequest}]
        /\ Within(held, held) /\ Within(disk, disk)
        /\ \A w \in Workers : pc[w] # "idle" => up
    BY NextTyped DEF Typed, TypeOK, Within, RoomInv
  <1>1. CASE \E w \in Workers : OfferCheck(w) \/ OfferAdmit(w)
    BY <1>1, AdmittedFits
  <1>2. CASE \E w \in Workers : OfferCommit(w)
    BY <1>0, <1>2, CommittedFits
  <1>3. CASE \E w \in Workers : Receive(w)
    <2>0. PICK w \in Workers : Receive(w)
      BY <1>3
    <2>1. PICK r \in Requests :
            /\ up /\ up' /\ req' = [req EXCEPT ![w] = r]
            /\ \/ pc' = [pc EXCEPT ![w] = r.op]
               \/ pc' = [pc EXCEPT ![w] = "reply"]
            /\ UNCHANGED <<held, disk>>
      BY <2>0 DEF Receive, Answer, Goto, file
    <2>2. pc'[w] \notin Fetching /\ \A v \in Workers : v = w
      BY <1>0, <2>1, RequestFields DEF Plain, Alone, Fetching
    <2> QED  BY <1>0, <2>1, <2>2, LosingStep
  <1>4. CASE \E w \in Workers : OfferHeight(w) \/ OfferFetch(w) \/ AuditGate(w)
                                  \/ StatusGate(w) \/ Reply(w)
    <2>1. /\ UNCHANGED <<held, disk, up>>
          /\ \A w \in Workers :
                /\ pc'[w] # "idle" => pc[w] # "idle"
                /\ pc'[w] \in Fetching => pc[w] \in Fetching /\ req'[w] = req[w]
      BY <1>0, <1>4 DEF OfferHeight, OfferFetch, AuditGate, StatusGate, Reply, Answer,
                        Goto, file, Fetching
    <2> QED  BY <1>0, <2>1, LosingStep
  <1>5. CASE \E w \in Workers : AuditProve(w) \/ StatusProbe(w) \/ Renew(w) \/ Release(w)
    <2>1. PICK w \in Workers : AuditProve(w) \/ StatusProbe(w) \/ Renew(w) \/ Release(w)
      BY <1>5
    <2>2. /\ UNCHANGED <<up, req>> /\ pc[w] # "idle" /\ pc' = [pc EXCEPT ![w] = "reply"]
          /\ disk' = held' \/ disk' = disk
      BY <2>1 DEF AuditProve, StatusProbe, Renew, Release, Answer, Goto, TrySave, Saved,
                  NotSaved, file
    <2>3. Within(held', held)
      <3>1. CASE AuditProve(w) \/ StatusProbe(w)
        <4>1. held' = held \/ held' = Touch(held, cid(w), now)
          BY <3>1 DEF AuditProve, StatusProbe
        <4>2. now \in Nat
          BY ConfigAssumption DEF Typed, TypeOK
        <4> QED  BY <1>0, <4>1, <4>2, TouchFacts DEF Within
      <3>2. CASE Renew(w)
        <4>1. CASE cid(w) \in DOMAIN held
          <5>1. held' = Insert(held, cid(w), Renewed(held[cid(w)], req[w]))
            BY <3>2, <4>1 DEF Renew
          <5>2. Renewed(held[cid(w)], req[w]).bytes = held[cid(w)].bytes
            <6>1. held[cid(w)] \in Entry /\ req[w] \in Renews /\ now \in Nat
              BY <1>0, <3>2, <4>1, ConfigAssumption
              DEF Renew, Typed, TypeOK, ReqOK, IsHeldSet
            <6> QED  BY <6>1, RenewedEntry
          <5> QED  BY <1>0, <4>1, <5>1, <5>2 DEF Within, Insert
        <4>2. CASE cid(w) \notin DOMAIN held
          BY <1>0, <3>2, <4>2 DEF Renew
        <4> QED  BY <4>1, <4>2
      <3>3. CASE Release(w)
        <4>1. held' = Without(held, {cid(w)})
          BY <3>3 DEF Release
        <4> QED  BY <1>0, <4>1, WithoutWithin
      <3> QED  BY <2>1, <3>1, <3>2, <3>3
    <2>4. \A v \in Workers :
            /\ pc'[v] # "idle" => up'
            /\ pc'[v] \in Fetching => pc[v] \in Fetching /\ req'[v] = req[v]
      BY <1>0, <2>2 DEF Fetching
    <2> QED  BY <1>0, <2>2, <2>3, <2>4, LosingStep
  <1>6. CASE GcDrop
    <2> DEFINE live == Without(held, Expired(held, gcHeight))
    <2>1. held' = Without(live, EvictToFit(live, Capacity, gcHeight))
      BY <1>6 DEF GcDrop
    <2>2. Within(live, held)
      BY <1>0, WithoutWithin
    <2> HIDE DEF live
    <2>3. Within(held', live)
      BY <2>1, <2>2, WithoutWithin DEF Within
    <2>4. Within(held', held)
      BY <2>2, <2>3 DEF Within
    <2>5. UNCHANGED <<up, worker>> /\ (disk' = held' \/ disk' = disk)
      BY <1>6 DEF GcDrop, TrySave, Saved, NotSaved, file
    <2> QED  BY <1>0, <2>4, <2>5, LosingStep DEF worker
  <1>7. CASE Crash
    <2>1. held' = Empty /\ disk' = disk /\ \A w \in Workers : pc'[w] = "idle"
      BY <1>7 DEF Crash, Fresh, file
    <2>2. Within(held', held)
      BY <2>1, EmptyType DEF Within
    <2> QED  BY <1>0, <2>1, <2>2, LosingStep DEF Fetching
  <1>8. CASE Start
    <2>1. \A w \in Workers : pc'[w] = "idle"
      BY <1>0, <1>8 DEF Start, worker
    <2>2. CASE rotten
      <3>1. held' = held /\ disk' = Empty
        BY <1>8, <2>2 DEF Start
      <3>2. Within(disk', disk)
        BY <3>1, EmptyType DEF Within
      <3> QED  BY <1>0, <2>1, <3>1, <3>2, LosingStep DEF Fetching
    <2>3. CASE ~rotten
      BY <1>8, <2>1, <2>3 DEF Start, file, RoomInv, Fetching, Real
    <2> QED  BY <2>2, <2>3
  <1>9. CASE Refresh \/ GcHeight \/ FileRot \/ Mine \/ Tick \/ Revoke \/ UNCHANGED vars
    <2>1. UNCHANGED <<held, disk, up, worker>>
      BY <1>9 DEF Refresh, GcHeight, FileRot, Mine, Tick, Revoke, vars, file
    <2> QED  BY <1>0, <2>1, LosingStep DEF worker
  <1> QED  BY <1>1, <1>2, <1>3, <1>4, <1>5, <1>6, <1>7, <1>8, <1>9 DEF Next, Handle

LEMMA RoomInit == Plain /\ Init => RoomInv
  <1> SUFFICES ASSUME Plain, Init PROVE RoomInv
    OBVIOUS
  <1>1. held = Empty /\ DOMAIN disk = {} /\ IsHeldSet(disk) /\ DOMAIN held = {}
    BY InitTyped, EmptyType DEF Plain, Init, Typed, TypeOK
  <1>2. ByteSlots(held) = {} /\ ByteSlots(disk) = {}
    BY <1>1 DEF ByteSlots
  <1>3. TotalBytes(held) = 0 /\ TotalBytes(disk) = 0
    BY <1>2, FS_EmptySet DEF TotalBytes
  <1> QED  BY <1>1, <1>3, ConfigAssumption DEF Init, RoomInv, Real, Fetching

(* The host stays within its disk budget although nothing is reserved while *)
(* an object is fetched, and although an offer of a held CID is not         *)
(* admitted at all (do_offer), for any budget, with failing saves, a        *)
(* rotting file and crashes, as long as lengths are honest and requests     *)
(* come one at a time.                                                      *)
THEOREM BudgetKept == Plain => (ViewSpec => []WithinCapacity)
  <1> SUFFICES ASSUME Plain PROVE ViewSpec => []WithinCapacity
    OBVIOUS
  <1>1. ViewInit => Typed /\ RoomInv
    BY InitTyped, RoomInit DEF ViewInit
  <1>2. Typed /\ RoomInv /\ [Next /\ Listen]_viewVars => (Typed /\ RoomInv)'
    BY NextTyped, RoomNext DEF viewVars
  <1>3. RoomInv => WithinCapacity
    BY DEF RoomInv, WithinCapacity
  <1>4. ViewSpec => [](Typed /\ RoomInv)
    BY <1>1, <1>2, PTL DEF ViewSpec
  <1> QED  BY <1>3, <1>4, PTL

----------------------------------------------------------------------------
(* What the publisher was told.                                             *)

(* And the file takes every save and stays readable.                        *)
Sound == Plain /\ ~SaveFails /\ ~FileRots

Past(e) == e # 0 /\ e <= tip

(* The host and its file have the pin on the lease e, or e is over.         *)
Keeps(c, e) ==
    /\ c \in DOMAIN held => held[c].expiry = e
    /\ c \in DOMAIN disk => disk[c].expiry = e
    /\ up => c \in DOMAIN held \/ Past(e)
    /\ c \in DOMAIN disk \/ Past(e)

(* What was promised is kept, nothing is done about a CID with a promise,   *)
(* and a positive answer is true while it is on its way.                    *)
RelyInv ==
    /\ ~rotten
    /\ \A c \in DOMAIN promise : promise[c] \in Nat /\ Keeps(c, promise[c])
    /\ \A w \in Workers :
          /\ pc[w] \in Looks => req[w].op \in {"audit", "status"}
          /\ pc[w] = "release" => req[w].op = "release"
          /\ pc[w] # "idle" /\ req[w].op \notin {"audit", "status"} =>
                cid(w) \notin DOMAIN promise
          /\ pc[w] = "reply" /\ req[w].op \in {"offer", "renew"} /\ answer[w].ok =>
                answer[w] \in Answers /\ Keeps(cid(w), answer[w].expiry)

LEMMA RelyStart == ViewInit => RelyInv
  BY EmptyType DEF ViewInit, Init, RelyInv, Looks

(* Memory loses only pins whose lease is over, for it is within its budget. *)
LEMMA LossIsDue ==
  ASSUME Plain, Typed, HeightInv, RoomInv, Next, up, up',
         NEW c \in DOMAIN held \ DOMAIN held', NEW e, Keeps(c, e),
         \A w \in Workers : pc[w] = "release" => cid(w) # c
  PROVE  Past(e)
  <1>1. MayDrop(c)
    BY StepsDropWhatIsDue DEF DropsAreDue
  <1>2. ~(TotalBytes(held) > Capacity)
    <2>1. IsHeldSet(held) /\ Capacity \in Nat
      BY ConfigAssumption DEF Typed, TypeOK
    <2> QED  BY <2>1, SlotsFinite DEF RoomInv
  <1> QED  BY <1>1, <1>2 DEF MayDrop, Lapsed, Keeps, Past

(* A promise is kept by every step that is not about its CID.               *)
LEMMA KeepsNext ==
  ASSUME Sound, Typed, Typed', HeightInv, RoomInv, ~rotten, [Next]_vars,
         NEW c, NEW e \in Nat, Keeps(c, e),
         \A w \in Workers : pc[w] \in {"commit", "renew", "release"} => cid(w) # c
  PROVE  Keeps(c, e)'
  <1>0. /\ IsHeldSet(held) /\ IsHeldSet(disk) /\ tip \in Nat /\ now \in Nat
        /\ \A w \in Workers : pc[w] # "idle" => up
    <2>1. IsHeldSet(held) /\ IsHeldSet(disk) /\ tip \in Nat /\ now \in Nat
      BY ConfigAssumption DEF Typed, TypeOK
    <2> QED  BY <2>1 DEF RoomInv
  <1>1. tip' \in Nat /\ tip <= tip'
    <2>1. tip' = tip \/ Mine
      BY DEF Next, Handle, Receive, OfferCheck, OfferHeight, OfferAdmit, OfferFetch,
             OfferCommit, AuditGate, AuditProve, StatusGate, StatusProbe, Renew,
             Release, Reply, Refresh, GcHeight, GcDrop, Crash, Start, FileRot, Tick,
             Revoke, chain, vars
    <2> QED  BY <1>0, <2>1 DEF Mine
  <1>2. Past(e) => Past(e)'
    BY <1>0, <1>1 DEF Past
  <1>3. CASE GcDrop \/ \E w \in Workers : OfferAdmit(w)
    <2>1. up /\ up' /\ Next
      BY <1>0, <1>3 DEF GcDrop, OfferAdmit, Next, Handle
    <2>2. DOMAIN held' \subseteq DOMAIN held /\ \A d \in DOMAIN held' : held'[d] = held[d]
      <3>1. CASE GcDrop
        <4> DEFINE live == Without(held, Expired(held, gcHeight))
        <4>1. held' = Without(live, EvictToFit(live, Capacity, gcHeight))
          BY <3>1 DEF GcDrop
        <4>2. DOMAIN live \subseteq DOMAIN held /\ \A d \in DOMAIN live : live[d] = held[d]
          BY DEF Without, Restrict
        <4> HIDE DEF live
        <4>3. DOMAIN held' \subseteq DOMAIN live /\ \A d \in DOMAIN held' : held'[d] = live[d]
          BY <4>1 DEF Without, Restrict
        <4> QED  BY <4>2, <4>3
      <3>2. CASE \E w \in Workers : OfferAdmit(w)
        <4>1. PICK w \in Workers : held' = Without(held, Expired(held, height[w]))
          BY <3>2 DEF OfferAdmit
        <4> QED  BY <4>1 DEF Without, Restrict
      <3> QED  BY <1>3, <3>1, <3>2
    <2>3. disk' = disk \/ disk' = held'
      BY <1>3 DEF GcDrop, OfferAdmit, TrySave, Saved, NotSaved, file
    <2>4. c \in DOMAIN held' \/ Past(e)
      BY <2>1, LossIsDue DEF Keeps, Sound
    <2> QED  BY <1>2, <2>1, <2>2, <2>3, <2>4 DEF Keeps
  <1>4. CASE \E w \in Workers : OfferCommit(w) \/ Renew(w) \/ Release(w)
    <2>1. PICK w \in Workers : OfferCommit(w) \/ Renew(w) \/ Release(w)
      BY <1>4
    <2>2. up /\ up' /\ cid(w) # c
      BY <1>0, <2>1 DEF OfferCommit, Renew, Release
    <2>3. /\ c \in DOMAIN held' <=> c \in DOMAIN held
          /\ c \in DOMAIN held => held'[c] = held[c]
      BY <2>1, <2>2 DEF OfferCommit, Renew, Release, Insert, Without, Restrict
    <2>4. disk' = held' \/ disk' = disk
      BY <2>1 DEF OfferCommit, Renew, Release, TrySave, Saved, NotSaved, file
    <2> QED  BY <1>2, <2>2, <2>3, <2>4 DEF Keeps
  <1>5. CASE \E w \in Workers : AuditProve(w) \/ StatusProbe(w)
    <2>1. /\ held' = held \/ \E w \in Workers : held' = Touch(held, cid(w), now)
          /\ disk' = disk /\ up' = up
      BY <1>5 DEF AuditProve, StatusProbe, file
    <2>2. /\ DOMAIN held' = DOMAIN held
          /\ \A d \in DOMAIN held : held'[d].expiry = held[d].expiry
      BY <1>0, <2>1, TouchFacts
    <2> QED  BY <1>2, <2>1, <2>2 DEF Keeps
  <1>6. CASE Crash
    BY <1>2, <1>6, EmptyType DEF Crash, file, Keeps
  <1>7. CASE Start
    BY <1>2, <1>7 DEF Start, file, Keeps
  <1>8. CASE UNCHANGED <<held, disk, up>>
    BY <1>2, <1>8 DEF Keeps
  <1>9. Next \/ UNCHANGED vars =>
          \/ UNCHANGED <<held, disk, up>> \/ GcDrop \/ Crash \/ Start
          \/ \E w \in Workers : OfferAdmit(w) \/ OfferCommit(w) \/ Renew(w)
                                \/ Release(w) \/ AuditProve(w) \/ StatusProbe(w)
    BY DEF Next, Handle, Receive, OfferCheck, OfferHeight, OfferFetch, AuditGate,
           StatusGate, Reply, Refresh, GcHeight, FileRot, Mine, Tick, Revoke, file, vars
  <1> QED  BY <1>3, <1>4, <1>5, <1>6, <1>7, <1>8, <1>9

(* A positive answer to an offer or a renewal is true when it is made.      *)
LEMMA AnswerHolds ==
  ASSUME Sound, Typed, Typed', RelyInv, RoomInv, [Next]_vars, NEW w \in Workers,
         pc[w] # "reply", pc'[w] = "reply", req'[w] = req[w],
         req[w].op \in {"offer", "renew"}, answer'[w].ok, NEW c, c = cid(w)
  PROVE  answer'[w] \in Answers /\ \A e : e = answer'[w].expiry => Keeps(c, e)'
  <1>0. /\ pc \in [Workers -> Labels] /\ answer \in [Workers -> Answers \cup {NoAnswer}]
        /\ (\A v \in Workers : v = w)
        /\ pc[w] \notin Looks \cup {"release"} /\ ~No.ok
    BY DEF Typed, TypeOK, Sound, Plain, Alone, RelyInv, No
  <1>1. CASE OfferCommit(w)
    <2>1. /\ held'[c].expiry = req[w].expiry /\ c \in DOMAIN held'
          /\ disk' = held' /\ answer'[w] = Yes(req[w].expiry)
      BY <1>0, <1>1 DEF OfferCommit, Insert, TrySave, Saved, NotSaved, Answer, Sound
    <2>2. req[w].expiry \in Nat
      BY <1>1, OfferFields DEF OfferCommit, Typed, ReqOK, OfferLabels
    <2> QED  BY <2>1, <2>2 DEF Keeps, Yes, Answers
  <1>2. CASE Renew(w)
    <2>1. cid(w) \in DOMAIN held
      BY <1>0, <1>2 DEF Renew, Answer
    <2>2. /\ c \in DOMAIN held' /\ disk' = held'
          /\ answer'[w] = Yes(held'[c].expiry)
      BY <1>0, <1>2, <2>1 DEF Renew, Insert, TrySave, Saved, NotSaved, Answer, Sound
    <2>3. held'[c].expiry \in Nat
      BY <2>2 DEF Typed, TypeOK, IsHeldSet, Entry
    <2> QED  BY <2>2, <2>3 DEF Keeps, Yes, Answers
  <1>3. OfferCommit(w) \/ Renew(w)
    <2>1. ~Receive(w)
      <3>1. ASSUME Receive(w), NEW r \in Requests,
                   pc'[w] = r.op \/ answer'[w] = No
            PROVE  FALSE
        BY <1>0, <3>1, RequestFields
      <3>2. Receive(w) => \E r \in Requests : pc'[w] = r.op \/ answer'[w] = No
        BY <1>0 DEF Receive, Answer, Goto
      <3> QED  BY <3>1, <3>2
    <2>1a. ~OfferCheck(w) /\ ~OfferHeight(w) /\ ~Reply(w)
      <3>1. OfferCheck(w) => pc'[w] \in {"refetch", "tip"}
        BY <1>0 DEF OfferCheck, Goto
      <3>2. OfferHeight(w) => pc'[w] = "admit"
        BY <1>0 DEF OfferHeight, Goto
      <3>3. Reply(w) => pc[w] = "reply"
        BY DEF Reply
      <3> QED  BY <3>1, <3>2, <3>3
    <2>2. ~OfferAdmit(w) /\ ~OfferFetch(w)
      BY <1>0 DEF OfferAdmit, OfferFetch, Answer, Goto
    <2>3. ~AuditGate(w) /\ ~AuditProve(w) /\ ~StatusGate(w) /\ ~StatusProbe(w) /\ ~Release(w)
      BY <1>0 DEF AuditGate, AuditProve, StatusGate, StatusProbe, Release, Looks
    <2>4. pc' # pc /\ ~Crash
      BY <1>0 DEF Crash, Fresh
    <2> QED  BY <1>0, <2>1, <2>1a, <2>2, <2>3, <2>4
             DEF Next, Handle, Refresh, GcHeight, GcDrop, Start, FileRot, Mine, Tick,
                 Revoke, vars, worker
  <1> QED  BY <1>1, <1>2, <1>3

(* What is promised after a step was promised before and is not asked for   *)
(* by it, or is what the step answers.                                      *)
LEMMA Promising ==
  ASSUME Alone, [Next /\ Listen]_viewVars, NEW c \in DOMAIN promise'
  PROVE  \/ /\ c \in DOMAIN promise /\ promise'[c] = promise[c]
            /\ \A w \in Workers : Asked(w) => c # cid(w)'
         \/ \E w \in Workers : /\ Told(w, {"offer", "renew"}) /\ c = cid(w)
                               /\ promise'[c] = answer[w].expiry
  <1>1. CASE UNCHANGED viewVars
    BY <1>1 DEF viewVars, vars, worker, Asked
  <1>2. CASE Listen
    <2> DEFINE asked == {req'[w].cid : w \in {v \in Workers : Asked(v)}}
               told  == {w \in Workers : Told(w, {"offer", "renew"})}
               new   == {cid(w) : w \in told}
    <2>1. promise' = [d \in (DOMAIN promise \cup new) \ asked |->
                        IF d \in new
                        THEN answer[CHOOSE w \in told : cid(w) = d].expiry
                        ELSE promise[d]]
      BY <1>2 DEF Listen
    <2>2. c \notin asked /\ (c \in DOMAIN promise \/ c \in new)
      BY <2>1
    <2>3. CASE c \in new
      <3>1. PICK w \in told : cid(w) = c
        BY <2>3
      <3>2. (CHOOSE v \in told : cid(v) = c) \in told
        BY <3>1
      <3>3. (CHOOSE v \in told : cid(v) = c) = w
        BY <3>1, <3>2 DEF Alone
      <3>4. promise'[c] = answer[w].expiry
        BY <2>1, <2>2, <2>3, <3>3
      <3> QED  BY <3>1, <3>4
    <2>4. CASE c \notin new
      <3>1. promise'[c] = promise[c] /\ c \in DOMAIN promise
        BY <2>1, <2>2, <2>4
      <3> QED  BY <2>2, <3>1 DEF cid
    <2> QED  BY <2>3, <2>4
  <1> QED  BY <1>1, <1>2

(* Only an incoming release brings a worker to the label of that name.      *)
LEMMA RelyMoves ==
  ASSUME Typed, [Next]_vars, NEW w \in Workers, pc'[w] = "release"
  PROVE  (pc[w] = "release" /\ req'[w] = req[w]) \/ req'[w].op = "release"
  <1> USE DEF Typed, TypeOK
  <1>1. CASE \E v \in Workers : Receive(v)
    <2>1. PICK v \in Workers : Receive(v)
      BY <1>1
    <2> QED  BY <2>1 DEF Receive, Answer, Goto
  <1>2. CASE \E v \in Workers : Handle(v)
    BY <1>2 DEF Handle, OfferCheck, OfferHeight, OfferAdmit, OfferFetch, OfferCommit,
           AuditGate, AuditProve, StatusGate, StatusProbe, Renew, Release, Reply,
           Answer, Goto
  <1>3. CASE Crash
    BY <1>3 DEF Crash, Fresh
  <1>4. CASE UNCHANGED worker
    BY <1>4 DEF worker
  <1>5. Refresh \/ GcHeight \/ GcDrop \/ Start \/ FileRot \/ Mine \/ Tick
          \/ Revoke \/ UNCHANGED vars => UNCHANGED worker
    BY DEF Refresh, GcHeight, GcDrop, Start, FileRot, Mine, Tick, Revoke, vars
  <1> QED  BY <1>1, <1>2, <1>3, <1>4, <1>5 DEF Next

LEMMA RelyNext ==
  ASSUME Sound, Typed, HeightInv, RoomInv, RelyInv,
         [Next /\ Listen]_viewVars
  PROVE  RelyInv'
  <1>0. [Next]_vars /\ Typed' /\ Alone
    BY NextTyped DEF viewVars, Sound, Plain
  <1>1. ~rotten'
    BY <1>0 DEF RelyInv, Sound, Next, Handle, Receive, OfferCheck, OfferHeight, OfferAdmit,
           OfferFetch, OfferCommit, AuditGate, AuditProve, StatusGate, StatusProbe, Renew,
           Release, Reply, Refresh, GcHeight, GcDrop, Crash, Start, FileRot, Mine, Tick,
           Revoke, TrySave, Saved, NotSaved, file, vars
  <1>2. ASSUME NEW c \in DOMAIN promise', NEW e \in Nat, e = promise'[c]
        PROVE  Keeps(c, e)'
    <2>1. CASE c \in DOMAIN promise /\ promise'[c] = promise[c]
      <3>1. Keeps(c, e)
        BY <1>2, <2>1 DEF RelyInv
      <3>2. ASSUME NEW w \in Workers, pc[w] \in {"commit", "renew", "release"}
            PROVE  cid(w) # c
        <4>1. req[w].op \in {"offer", "renew", "release"}
          BY <3>2, OfferFields, RenewFields DEF RelyInv, Typed, ReqOK, OfferLabels
        <4> QED  BY <2>1, <3>2, <4>1 DEF RelyInv
      <3> QED  BY <1>0, <3>1, <3>2, KeepsNext DEF RelyInv
    <2>2. CASE \E w \in Workers : /\ Told(w, {"offer", "renew"}) /\ c = cid(w)
                                  /\ promise'[c] = answer[w].expiry
      <3>1. PICK w \in Workers : /\ Told(w, {"offer", "renew"}) /\ c = cid(w)
                                 /\ promise'[c] = answer[w].expiry
        BY <2>2
      <3>2. Keeps(c, e)
        BY <1>2, <3>1 DEF Told, RelyInv
      <3>3. \A v \in Workers : pc[v] \notin {"commit", "renew", "release"}
        BY <1>0, <3>1 DEF Alone, Told
      <3> QED  BY <1>0, <3>2, <3>3, KeepsNext DEF RelyInv
    <2> QED  BY <1>0, <2>1, <2>2, Promising
  <1>3. ASSUME NEW w \in Workers
        PROVE  /\ pc'[w] \in Looks => req'[w].op \in {"audit", "status"}
               /\ pc'[w] = "release" => req'[w].op = "release"
    <2>1. pc'[w] = "release" => req'[w].op = "release"
      BY <1>0, RelyMoves DEF RelyInv
    <2>2. pc'[w] \in Looks => req'[w].op \in {"audit", "status"}
      <3>1. CASE Rests(w)
        BY <3>1 DEF Rests, RelyInv
      <3>2. CASE Takes(w)
        BY <3>2, RequestFields DEF Takes, Looks
      <3>3. CASE Proceeds(w)
        BY <3>3 DEF Proceeds, RelyInv
      <3> QED  BY <1>0, <3>1, <3>2, <3>3, Moves DEF Looks
    <2> QED  BY <2>1, <2>2
  <1>4. ASSUME NEW w \in Workers, pc'[w] # "idle", req'[w].op \notin {"audit", "status"},
               cid(w)' \in DOMAIN promise'
        PROVE  FALSE
    <2>1. ~ \E v \in Workers : Told(v, {"offer", "renew"})
      BY <1>0, <1>4 DEF Alone, Told
    <2>2. cid(w)' \in DOMAIN promise /\ ~Asked(w)
      BY <1>0, <1>4, <2>1, Promising
    <2>3. pc[w] # "idle"
      BY <1>4, <2>2 DEF Asked
    <2>4. req'[w] = req[w]
      BY <1>0, <1>4, <2>3, Moves DEF Rests, Takes, Proceeds
    <2> QED  BY <1>4, <2>2, <2>3, <2>4 DEF RelyInv, cid
  <1>5. ASSUME NEW w \in Workers, pc'[w] = "reply", req'[w].op \in {"offer", "renew"},
               answer'[w].ok, NEW c, c = cid(w)', NEW e, e = answer'[w].expiry
        PROVE  answer'[w] \in Answers /\ Keeps(c, e)'
    <2>1. CASE Rests(w)
      <3>1. pc[w] = "reply" /\ c = cid(w) /\ answer'[w] \in Answers /\ e \in Nat /\ Keeps(c, e)
        BY <1>5, <2>1 DEF Rests, RelyInv, cid, Answers
      <3>2. \A v \in Workers : pc[v] \notin {"commit", "renew", "release"}
        BY <1>0, <3>1 DEF Alone
      <3> QED  BY <1>0, <3>1, <3>2, KeepsNext DEF RelyInv
    <2>2. CASE Takes(w)
      BY <1>5, <2>2 DEF Takes, No
    <2>3. CASE Proceeds(w)
      <3>1. pc[w] # "reply" /\ req'[w] = req[w] /\ c = cid(w)
        BY <1>5, <2>3 DEF Proceeds, cid
      <3> QED  BY <1>0, <1>5, <3>1, AnswerHolds
    <2> QED  BY <1>0, <1>5, <2>1, <2>2, <2>3, Moves
  <1>6. \A c \in DOMAIN promise' : promise'[c] \in Nat
    <2>1. ASSUME NEW c \in DOMAIN promise'
          PROVE  promise'[c] \in Nat
      <3>1. CASE c \in DOMAIN promise /\ promise'[c] = promise[c]
        BY <3>1 DEF RelyInv
      <3>2. CASE \E w \in Workers : /\ Told(w, {"offer", "renew"}) /\ c = cid(w)
                                    /\ promise'[c] = answer[w].expiry
        BY <3>2 DEF Told, RelyInv, Answers
      <3> QED  BY <1>0, <3>1, <3>2, Promising
    <2> QED  BY <2>1
  <1>7. \A c \in DOMAIN promise' : Keeps(c, promise[c])'
    BY <1>2, <1>6 DEF Keeps, Past
  <1>8. \A w \in Workers :
          pc'[w] = "reply" /\ req'[w].op \in {"offer", "renew"} /\ answer'[w].ok =>
              answer'[w] \in Answers /\ Keeps(cid(w), answer[w].expiry)'
    BY <1>5 DEF Keeps, Past, cid
  <1> QED  BY <1>1, <1>3, <1>4, <1>6, <1>7, <1>8 DEF RelyInv, cid

LEMMA RelyAlways == Sound => (ViewSpec => []RelyInv)
  <1> SUFFICES ASSUME Sound PROVE ViewSpec => []RelyInv
    OBVIOUS
  <1>1. Plain
    BY DEF Sound
  <1>2. ViewInit => Typed /\ HeightInv /\ RoomInv /\ RelyInv
    BY <1>1, InitTyped, HeightInit, RoomInit, RelyStart DEF ViewInit
  <1>3. Typed /\ HeightInv /\ RoomInv /\ RelyInv /\ [Next /\ Listen]_viewVars
          => (Typed /\ HeightInv /\ RoomInv /\ RelyInv)'
    BY <1>1, NextTyped, HeightNext, RoomNext, RelyNext DEF viewVars
  <1> QED  BY <1>2, <1>3, PTL DEF ViewSpec

(* A pin whose offer or renewal the host has acknowledged (do_offer,        *)
(* do_renew) is held until the lease the reply named is over, through any   *)
(* collections, crashes and requests about other CIDs, for any budget and   *)
(* number of objects.  do_offer saves before it answers, the collection of  *)
(* expired pins drops what is past its lease at a height the chain has      *)
(* reached, and evict_to_fit has nothing to do within the budget: RelyInv   *)
(* joins the three.                                                         *)
THEOREM PromiseKept == Sound => (ViewSpec => []PublisherCanRely)
  <1>1. RelyInv => PublisherCanRely
    BY DEF RelyInv, Keeps, Past, PublisherCanRely
  <1> QED  BY <1>1, RelyAlways, PTL

(* And the host has the pin on the very lease it told, not a shorter one,   *)
(* also after a restart from held.json.                                     *)
THEOREM LeaseTold == Sound => (ViewSpec => []LeaseAsTold)
  <1>1. RelyInv => LeaseAsTold
    BY DEF RelyInv, Keeps, LeaseAsTold
  <1> QED  BY <1>1, RelyAlways, PTL


----------------------------------------------------------------------------
(* Types.                                                                   *)

(* What is sent is an answer: no worker replies before it has one.          *)
Answered == \A w \in Workers : pc[w] = "reply" => answer[w] \in Answers

LEMMA AnsweredNext == Typed /\ Answered /\ [Next]_vars => Answered'
  <1> SUFFICES ASSUME Typed, Answered, [Next]_vars, NEW w \in Workers, pc'[w] = "reply"
               PROVE  answer'[w] \in Answers
    BY DEF Answered
  <1>0. /\ pc \in [Workers -> Labels] /\ answer \in [Workers -> Answers \cup {NoAnswer}]
        /\ req \in [Workers -> Requests \cup {NoRequest}]
    BY DEF Typed, TypeOK
  <1>1. ASSUME NEW v \in Workers, NEW a \in Answers, Answer(v, a)
        PROVE  answer'[w] \in Answers
    BY <1>0, <1>1 DEF Answer, Goto, Answered
  <1>2. ASSUME NEW v \in Workers, NEW l, l # "reply", Goto(v, l),
               answer'[w] = answer[w] \/ v = w
        PROVE  answer'[w] \in Answers
    BY <1>0, <1>2 DEF Goto, Answered
  <1>3. ASSUME NEW v \in Workers, Receive(v) PROVE answer'[w] \in Answers
    <2>1. PICK r \in Requests : IF r.cap \in revoked THEN Answer(v, No)
                                ELSE Goto(v, r.op) /\ UNCHANGED answer
      BY <1>3 DEF Receive
    <2> QED  BY <1>1, <1>2, <2>1, NoYesAnswers, RequestFields
  <1>4. ASSUME NEW v \in Workers, OfferCheck(v) \/ OfferHeight(v) \/ OfferAdmit(v)
                                  \/ OfferFetch(v) \/ OfferCommit(v)
        PROVE  answer'[w] \in Answers
    <2>1. CASE OfferCheck(v)
      BY <1>2, <2>1 DEF OfferCheck
    <2>2. CASE OfferHeight(v)
      BY <1>2, <2>2 DEF OfferHeight
    <2>3. CASE OfferAdmit(v)
      BY <1>1, <1>2, <2>3, NoYesAnswers DEF OfferAdmit
    <2>4. CASE OfferFetch(v)
      BY <1>1, <1>2, <2>4, NoYesAnswers DEF OfferFetch
    <2>5. CASE OfferCommit(v)
      <3>1. req[v].expiry \in Nat
        BY <2>5, OfferFields DEF OfferCommit, Typed, ReqOK, OfferLabels
      <3> QED  BY <1>1, <2>5, <3>1, NoYesAnswers DEF OfferCommit
    <2> QED  BY <1>4, <2>1, <2>2, <2>3, <2>4, <2>5
  <1>5. ASSUME NEW v \in Workers, AuditGate(v) \/ StatusGate(v) \/ AuditProve(v)
                                  \/ StatusProbe(v) \/ Release(v)
        PROVE  answer'[w] \in Answers
    BY <1>1, <1>2, <1>5, NoYesAnswers
       DEF AuditGate, StatusGate, AuditProve, StatusProbe, Release
  <1>6. ASSUME NEW v \in Workers, Renew(v) PROVE answer'[w] \in Answers
    <2>1. CASE cid(v) \in DOMAIN held
      <3>1. cid(v) \in Cids /\ held[cid(v)] \in Entry /\ req[v] \in Renews /\ now \in Nat
        BY <1>6, <2>1, RenewFields, ConfigAssumption
           DEF Typed, TypeOK, ReqOK, Renew, IsHeldSet, cid
      <3>2. held'[cid(v)] = Renewed(held[cid(v)], req[v])
        <4>1. IsHeldSet(held)
          BY DEF Typed, TypeOK
        <4>2. Renewed(held[cid(v)], req[v]) \in Entry
          BY <3>1, RenewedEntry
        <4>3. held' = Insert(held, cid(v), Renewed(held[cid(v)], req[v]))
          BY <1>6, <2>1 DEF Renew
        <4> QED  BY <3>1, <4>1, <4>2, <4>3, InsertFacts
      <3>3. held'[cid(v)].expiry \in Nat
        BY <3>1, <3>2, RenewedEntry DEF Entry
      <3> QED  BY <1>1, <1>6, <2>1, <3>3, NoYesAnswers DEF Renew
    <2>2. CASE cid(v) \notin DOMAIN held
      BY <1>1, <1>6, <2>2, NoYesAnswers DEF Renew
    <2> QED  BY <2>1, <2>2
  <1>7. ASSUME NEW v \in Workers, Reply(v) PROVE answer'[w] \in Answers
    BY <1>0, <1>2, <1>7 DEF Reply
  <1>8. CASE Crash
    BY <1>8 DEF Crash, Fresh
  <1>9. CASE UNCHANGED worker
    BY <1>9 DEF worker, Answered
  <1>10. Refresh \/ GcHeight \/ GcDrop \/ Start \/ FileRot \/ Mine \/ Tick
          \/ Revoke \/ UNCHANGED vars => UNCHANGED worker
    BY DEF Refresh, GcHeight, GcDrop, Start, FileRot, Mine, Tick, Revoke, vars
  <1> QED  BY <1>3, <1>4, <1>5, <1>6, <1>7, <1>8, <1>9, <1>10 DEF Next, Handle

LEMMA HeardTyped ==
  ASSUME Typed, Answered, ViewTypeOK, Listen
  PROVE  /\ DOMAIN promise' \subseteq Cids /\ promise' \in [DOMAIN promise' -> Nat]
         /\ dismissed' \subseteq Cids
  <1>1. ASSUME NEW w \in Workers, NEW ops, Told(w, ops), "audit" \notin ops
        PROVE  cid(w) \in Cids /\ answer[w].expiry \in Nat
    BY <1>1, RequestFields DEF Told, Answered, Answers, Typed, ReqOK, cid
  <1> DEFINE asked == {cid(w)' : w \in {v \in Workers : Asked(v)}}
             told == {w \in Workers : Told(w, {"offer", "renew"})}
             new == {cid(w) : w \in told}
             heard(c) == CHOOSE w \in told : cid(w) = c
  <1>2. promise' = [c \in (DOMAIN promise \cup new) \ asked |->
                        IF c \in new THEN answer[heard(c)].expiry ELSE promise[c]]
    BY DEF Listen, cid
  <1>3. \A c \in new : heard(c) \in told
    OBVIOUS
  <1>4. \A w \in told : cid(w) \in Cids /\ answer[w].expiry \in Nat
    BY <1>1
  <1> HIDE DEF asked, told, heard
  <1>5. new \subseteq Cids
    BY <1>4
  <1>6. \A c \in new : answer[heard(c)].expiry \in Nat
    BY <1>3, <1>4
  <1>7. DOMAIN promise \subseteq Cids /\ \A c \in DOMAIN promise : promise[c] \in Nat
    BY DEF ViewTypeOK
  <1> HIDE DEF new
  <1>8. DOMAIN promise' \subseteq Cids /\ promise' \in [DOMAIN promise' -> Nat]
    BY <1>2, <1>5, <1>6, <1>7
  <1>9. dismissed' \subseteq Cids
    BY <1>1 DEF Listen, ViewTypeOK
  <1> QED  BY <1>8, <1>9

(* What a publisher believes is about CIDs and heights, and so is what the  *)
(* host believes, whatever is sent, answered or lost (handle_inner).        *)
THEOREM ViewTypeCorrect == ViewSpec => []ViewTypeOK
  <1>1. ViewInit => Typed /\ Answered /\ ViewTypeOK
    BY InitTyped, EmptyType DEF ViewInit, Init, Answered, ViewTypeOK, Typed, Empty
  <1>2. Typed /\ Answered /\ ViewTypeOK /\ [Next /\ Listen]_viewVars
            => (Typed /\ Answered /\ ViewTypeOK)'
    <2> SUFFICES ASSUME Typed, Answered, ViewTypeOK, [Next /\ Listen]_viewVars
                 PROVE  (Typed /\ Answered /\ ViewTypeOK)'
      OBVIOUS
    <2>1. [Next]_vars
      BY DEF viewVars
    <2>2. Typed' /\ Answered'
      BY <2>1, NextTyped, AnsweredNext
    <2>3. /\ DOMAIN promise' \subseteq Cids /\ promise' \in [DOMAIN promise' -> Nat]
          /\ dismissed' \subseteq Cids
      BY HeardTyped DEF viewVars, ViewTypeOK
    <2> QED  BY <2>2, <2>3 DEF ViewTypeOK, Typed
  <1> QED  BY <1>1, <1>2, PTL DEF ViewSpec

=============================================================================
