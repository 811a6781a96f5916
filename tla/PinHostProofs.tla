--------------------------- MODULE PinHostProofs ---------------------------
(***************************************************************************)
(* Theorems about PinHost for any number of CIDs, workers and requests,    *)
(* any sizes, limits and heights.  Everything rests on one typing          *)
(* invariant: the type invariant of PinHost is not inductive, because a    *)
(* handler reads fields of its request that only some requests have, so    *)
(* ReqOK adds which requests a worker can hold at each label.              *)
(***************************************************************************)
EXTENDS PinHost, HeldSetProofs

OfferLabels == {"offer", "tip", "admit", "fetch", "refetch", "commit"}

ReqOK ==
    \A w \in Workers :
        /\ pc[w] # "idle" => req[w] \in Requests
        /\ pc[w] \in OfferLabels => req[w] \in Offers
        /\ pc[w] = "renew" => req[w] \in Renews

Typed == TypeOK /\ ReqOK

----------------------------------------------------------------------------
(* Requests and entries.                                                    *)

LEMMA OfferFields ==
  ASSUME NEW r \in Offers
  PROVE  /\ r.cap \in Caps /\ r.cid \in Cids /\ r.op = "offer"
         /\ r.len \in Declared[r.cid] /\ r.len \in Nat
         /\ r.rent \in Nat /\ r.expiry \in Nat
  <1>1. PICK c \in Cids : r \in [op : {"offer"}, cap : Caps, cid : {c},
                                len : Declared[c], rent : Rents, expiry : Expiries]
    BY DEF Offers
  <1>2. Declared[c] \subseteq Nat /\ Rents \subseteq Nat /\ Expiries \subseteq Nat
    BY ConfigAssumption
  <1> QED  BY <1>1, <1>2

LEMMA RenewFields ==
  ASSUME NEW r \in Renews
  PROVE  /\ r.cap \in Caps /\ r.cid \in Cids /\ r.op = "renew"
         /\ r.rent \in Nat \cup {KeepRent} /\ r.expiry \in Nat
  BY ConfigAssumption DEF Renews

LEMMA RequestFields ==
  ASSUME NEW r \in Requests
  PROVE  /\ r.cap \in Caps /\ r.cid \in Cids
         /\ r.op \in {"offer", "renew", "audit", "status", "release"}
         /\ r.op = "offer" => r \in Offers
         /\ r.op = "renew" => r \in Renews
  <1>1. CASE r \in Offers   BY <1>1, OfferFields
  <1>2. CASE r \in Renews   BY <1>2, RenewFields
  <1>3. CASE r \in Lookups  BY <1>3 DEF Lookups
  <1> QED  BY <1>1, <1>2, <1>3 DEF Requests

(* What an accepted offer records is an entry.                              *)
LEMMA CommittedEntry ==
  ASSUME NEW r \in Offers, NEW t \in Nat
  PROVE  [bytes |-> Size[r.cid], rent |-> r.rent,
          expiry |-> r.expiry, access |-> t] \in Entry
  BY OfferFields, ConfigAssumption DEF Entry

(* What a renewal leaves is an entry, on a lease that is a number.          *)
LEMMA RenewedEntry ==
  ASSUME NEW e \in Entry, NEW r \in Renews, now \in Nat
  PROVE  /\ Renewed(e, r) \in Entry
         /\ Renewed(e, r).expiry = Extended(e.expiry, r.expiry)
         /\ Renewed(e, r).bytes = e.bytes
  <1>1. /\ r.rent \in Nat \cup {KeepRent} /\ r.expiry \in Nat
        /\ e.rent \in Nat /\ e.expiry \in Nat
    BY RenewFields DEF Entry
  <1>2. Extended(e.expiry, r.expiry) \in Nat
    BY <1>1 DEF Extended
  <1>3. (IF r.rent = KeepRent THEN e.rent ELSE r.rent) \in Nat
    BY <1>1
  <1> QED  BY <1>2, <1>3 DEF Renewed, Entry

----------------------------------------------------------------------------
(* The initial state.                                                       *)

LEMMA InitTyped == Init => Typed
  <1> SUFFICES ASSUME Init PROVE Typed
    OBVIOUS
  <1>1. IsHeldSet(disk)
    BY ConfigAssumption, MaxBytesAssumption DEF Init, IsHeldSet, Entry, DefaultRecord
  <1>2. IsHeldSet(held)
    BY EmptyType DEF Init
  <1>3. ReqOK
    BY DEF Init, ReqOK, OfferLabels
  <1>4. /\ tip \in 0..MaxTip /\ now \in 0..MaxNow
        /\ onChain \subseteq Revocable /\ crashes \in 0..MaxCrashes
        /\ revoked \subseteq Caps
    BY ConfigAssumption DEF Init
  <1>5. /\ mpc \in {"boot", "bootGc", "wait", "gc"} /\ gcHeight \in Nat
        /\ rotten \in BOOLEAN /\ up \in BOOLEAN
    BY DEF Init
  <1>6. /\ pc \in [Workers -> Labels]
        /\ req \in [Workers -> Requests \cup {NoRequest}]
        /\ height \in [Workers -> Nat]
        /\ answer \in [Workers -> Answers \cup {NoAnswer}]
    BY DEF Init, Labels
  <1> QED  BY <1>1, <1>2, <1>3, <1>4, <1>5, <1>6 DEF Typed, TypeOK

(* A save leaves a held-set in the file.                                    *)
LEMMA SaveTyped ==
  ASSUME NEW h, IsHeldSet(h), IsHeldSet(disk), rotten \in BOOLEAN, TrySave(h)
  PROVE  IsHeldSet(disk') /\ rotten' \in BOOLEAN
  BY DEF TrySave, Saved, NotSaved, file

----------------------------------------------------------------------------
(* One worker: each step of a handler keeps the typing.                     *)

(* A handler that goes on keeps its request, and stays among the labels its *)
(* request allows.                                                          *)
LEMMA GotoTyped ==
  ASSUME Typed, NEW w \in Workers, NEW l \in Labels, Goto(w, l), req' = req,
         pc[w] # "idle", l # "renew",
         l \in OfferLabels => pc[w] \in OfferLabels
  PROVE  pc' \in [Workers -> Labels] /\ ReqOK'
  BY DEF Typed, TypeOK, ReqOK, Goto

LEMMA AnswerTyped ==
  ASSUME Typed, NEW w \in Workers, NEW a \in Answers, Answer(w, a), req' = req,
         pc[w] # "idle"
  PROVE  /\ pc' \in [Workers -> Labels] /\ ReqOK'
         /\ answer' \in [Workers -> Answers \cup {NoAnswer}]
  <1>1. "reply" \in Labels /\ "reply" \notin OfferLabels
    BY DEF Labels, OfferLabels
  <1>2. pc' \in [Workers -> Labels] /\ ReqOK'
    BY <1>1, GotoTyped DEF Answer
  <1> QED  BY <1>2 DEF Answer, Typed, TypeOK

LEMMA NoYesAnswers == No \in Answers /\ \A n \in Nat : Yes(n) \in Answers
  BY DEF No, Yes, Answers

(* A gate (do_audit, do_status) and the blob reads behind it.               *)
LEMMA GateTyped ==
  ASSUME Typed, NEW w \in Workers, AuditGate(w) \/ StatusGate(w)
  PROVE  Typed'
  <1>1. CASE cid(w) \in DOMAIN held
    <2>1. \E l \in {"prove", "probe"} : Goto(w, l)
      BY <1>1 DEF AuditGate, StatusGate
    <2>2. req' = req /\ answer' = answer /\ pc[w] # "idle"
      BY <1>1 DEF AuditGate, StatusGate
    <2>3. pc' \in [Workers -> Labels] /\ ReqOK'
      BY <2>1, <2>2, GotoTyped DEF Labels, OfferLabels
    <2> QED  BY <2>2, <2>3
             DEF AuditGate, StatusGate, Typed, TypeOK, chain, file, maintenance
  <1>2. CASE cid(w) \notin DOMAIN held
    <2>1. Answer(w, No) /\ req' = req /\ pc[w] # "idle"
      BY <1>2 DEF AuditGate, StatusGate
    <2>2. /\ pc' \in [Workers -> Labels] /\ ReqOK'
          /\ answer' \in [Workers -> Answers \cup {NoAnswer}]
      BY <2>1, AnswerTyped, NoYesAnswers
    <2> QED  BY <2>1, <2>2
             DEF AuditGate, StatusGate, Typed, TypeOK, chain, file, maintenance
  <1> QED  BY <1>1, <1>2

LEMMA ProbeTyped ==
  ASSUME Typed, NEW w \in Workers, AuditProve(w) \/ StatusProbe(w)
  PROVE  Typed'
  <1>1. /\ \E a \in Answers : Answer(w, a)
        /\ req' = req /\ pc[w] # "idle"
    BY NoYesAnswers DEF AuditProve, StatusProbe
  <1>2. /\ pc' \in [Workers -> Labels] /\ ReqOK'
        /\ answer' \in [Workers -> Answers \cup {NoAnswer}]
    BY <1>1, AnswerTyped
  <1>3. IsHeldSet(held')
    <2>1. held' = held \/ held' = Touch(held, cid(w), now)
      BY DEF AuditProve, StatusProbe
    <2>2. IsHeldSet(held) /\ now \in Nat
      BY ConfigAssumption DEF Typed, TypeOK
    <2> QED  BY <2>1, <2>2, TouchFacts
  <1> QED  BY <1>2, <1>3
           DEF AuditProve, StatusProbe, Typed, TypeOK, chain, file, maintenance

LEMMA RenewTyped ==
  ASSUME Typed, NEW w \in Workers, Renew(w)
  PROVE  Typed'
  <1>0. /\ req[w] \in Renews /\ pc[w] # "idle" /\ req' = req /\ now \in Nat
        /\ IsHeldSet(held) /\ IsHeldSet(disk) /\ rotten \in BOOLEAN
    BY ConfigAssumption DEF Typed, TypeOK, ReqOK, Renew
  <1>1. CASE cid(w) \in DOMAIN held
    <2>1. cid(w) \in Cids /\ held[cid(w)] \in Entry
      BY <1>0, <1>1, RenewFields DEF IsHeldSet, cid
    <2>2. /\ IsHeldSet(held')
          /\ held'[cid(w)] = Renewed(held[cid(w)], req[w])
      BY <1>0, <1>1, <2>1, RenewedEntry, InsertFacts DEF Renew
    <2>3. IsHeldSet(disk') /\ rotten' \in BOOLEAN
      BY <1>0, <1>1, <2>2, SaveTyped DEF Renew
    <2>4. Yes(held'[cid(w)].expiry) \in Answers
      <3>1. Renewed(held[cid(w)], req[w]).expiry \in Nat
        BY <1>0, <2>1, RenewedEntry DEF Entry
      <3> QED  BY <2>2, <3>1, NoYesAnswers
    <2>5. Answer(w, Yes(held'[cid(w)].expiry))
      BY <1>1 DEF Renew
    <2>6. /\ pc' \in [Workers -> Labels] /\ ReqOK'
          /\ answer' \in [Workers -> Answers \cup {NoAnswer}]
      BY <1>0, <2>4, <2>5, AnswerTyped
    <2> QED  BY <1>0, <2>2, <2>3, <2>6
             DEF Renew, Typed, TypeOK, chain, maintenance
  <1>2. CASE cid(w) \notin DOMAIN held
    <2>1. Answer(w, No)
      BY <1>2 DEF Renew
    <2>2. /\ pc' \in [Workers -> Labels] /\ ReqOK'
          /\ answer' \in [Workers -> Answers \cup {NoAnswer}]
      BY <1>0, <2>1, AnswerTyped, NoYesAnswers
    <2> QED  BY <1>0, <1>2, <2>2
             DEF Renew, Typed, TypeOK, chain, file, maintenance
  <1> QED  BY <1>1, <1>2

LEMMA ReleaseTyped ==
  ASSUME Typed, NEW w \in Workers, Release(w)
  PROVE  Typed'
  <1>0. /\ pc[w] # "idle" /\ req' = req
        /\ IsHeldSet(held) /\ IsHeldSet(disk) /\ rotten \in BOOLEAN
    BY DEF Typed, TypeOK, Release
  <1>1. IsHeldSet(held')
    BY <1>0, WithoutFacts DEF Release
  <1>2. IsHeldSet(disk') /\ rotten' \in BOOLEAN
    BY <1>0, <1>1, SaveTyped DEF Release, TrySave
  <1>3. \E a \in Answers : Answer(w, a)
    BY NoYesAnswers DEF Release
  <1>4. /\ pc' \in [Workers -> Labels] /\ ReqOK'
        /\ answer' \in [Workers -> Answers \cup {NoAnswer}]
    BY <1>0, <1>3, AnswerTyped
  <1> QED  BY <1>0, <1>1, <1>2, <1>4
           DEF Release, Typed, TypeOK, chain, maintenance

(* The five steps of do_offer.                                              *)
LEMMA OfferTyped ==
  ASSUME Typed, NEW w \in Workers,
         \/ OfferCheck(w) \/ OfferHeight(w) \/ OfferAdmit(w)
         \/ OfferFetch(w) \/ OfferCommit(w)
  PROVE  Typed'
  <1>0. /\ req[w] \in Offers /\ pc[w] # "idle" /\ pc[w] \in OfferLabels
        /\ req' = req /\ now \in Nat
        /\ IsHeldSet(held) /\ IsHeldSet(disk) /\ rotten \in BOOLEAN
    BY ConfigAssumption
    DEF Typed, TypeOK, ReqOK, OfferLabels,
        OfferCheck, OfferHeight, OfferAdmit, OfferFetch, OfferCommit
  <1>1. ASSUME NEW l \in OfferLabels, Goto(w, l), UNCHANGED answer
        PROVE  /\ pc' \in [Workers -> Labels] /\ ReqOK'
               /\ answer' \in [Workers -> Answers \cup {NoAnswer}]
    <2>1. l \in Labels /\ l # "renew"
      BY DEF Labels, OfferLabels
    <2>2. pc' \in [Workers -> Labels] /\ ReqOK'
      BY <1>0, <1>1, <2>1, GotoTyped
    <2> QED  BY <1>1, <2>2 DEF Typed, TypeOK
  <1>2. ASSUME NEW a \in Answers, Answer(w, a)
        PROVE  /\ pc' \in [Workers -> Labels] /\ ReqOK'
               /\ answer' \in [Workers -> Answers \cup {NoAnswer}]
    BY <1>0, <1>2, AnswerTyped
  <1>3. /\ pc' \in [Workers -> Labels] /\ ReqOK'
        /\ answer' \in [Workers -> Answers \cup {NoAnswer}]
    <2>1. CASE OfferCheck(w)
      BY <1>1, <2>1 DEF OfferCheck, OfferLabels
    <2>2. CASE OfferHeight(w)
      BY <1>1, <2>2 DEF OfferHeight, OfferLabels
    <2>3. CASE OfferAdmit(w)
      BY <1>1, <1>2, <2>3, NoYesAnswers DEF OfferAdmit, OfferLabels
    <2>4. CASE OfferFetch(w)
      BY <1>1, <1>2, <2>4, NoYesAnswers DEF OfferFetch, OfferLabels
    <2>5. CASE OfferCommit(w)
      BY <1>0, <1>2, <2>5, NoYesAnswers, OfferFields DEF OfferCommit
    <2> QED  BY <2>1, <2>2, <2>3, <2>4, <2>5
  <1>4. IsHeldSet(held') /\ IsHeldSet(disk') /\ rotten' \in BOOLEAN
    <2>1. CASE OfferAdmit(w)
      BY <1>0, <2>1, WithoutFacts DEF OfferAdmit, file
    <2>2. CASE OfferCommit(w)
      <3>1. IsHeldSet(held')
        BY <1>0, <2>2, OfferFields, CommittedEntry, InsertFacts DEF OfferCommit, cid
      <3> QED  BY <1>0, <2>2, <3>1, SaveTyped DEF OfferCommit
    <2>3. CASE OfferCheck(w) \/ OfferHeight(w) \/ OfferFetch(w)
      BY <1>0, <2>3 DEF OfferCheck, OfferHeight, OfferFetch, file
    <2> QED  BY <2>1, <2>2, <2>3
  <1>5. height' \in [Workers -> Nat]
    BY ConfigAssumption
    DEF Typed, TypeOK, OfferCheck, OfferHeight, OfferAdmit, OfferFetch, OfferCommit
  <1>6. UNCHANGED <<chain, crashes, up, maintenance>>
    BY DEF OfferCheck, OfferHeight, OfferAdmit, OfferFetch, OfferCommit
  <1> QED  BY <1>0, <1>3, <1>4, <1>5, <1>6 DEF Typed, TypeOK, chain, maintenance

(* A request arrives, authorized or not; a reply leaves.                    *)
LEMMA ReceiveTyped ==
  ASSUME Typed, NEW w \in Workers, Receive(w)
  PROVE  Typed'
  <1>1. PICK r \in Requests :
          /\ req' = [req EXCEPT ![w] = r]
          /\ IF r.cap \in revoked
             THEN Answer(w, No)
             ELSE Goto(w, r.op) /\ UNCHANGED answer
    BY DEF Receive
  <1>2. PICK l \in {r.op, "reply"} : pc' = [pc EXCEPT ![w] = l]
    BY <1>1 DEF Answer, Goto
  <1>3. /\ l \in Labels
        /\ l \in OfferLabels => r \in Offers
        /\ l = "renew" => r \in Renews
    BY <1>2, RequestFields DEF Labels, OfferLabels
  <1>4. req' \in [Workers -> Requests \cup {NoRequest}] /\ pc' \in [Workers -> Labels]
    BY <1>1, <1>2, <1>3 DEF Typed, TypeOK
  <1>5. ReqOK'
    BY <1>1, <1>2, <1>3 DEF Typed, TypeOK, ReqOK
  <1>6. answer' \in [Workers -> Answers \cup {NoAnswer}]
    BY <1>1, NoYesAnswers DEF Typed, TypeOK, Answer
  <1> QED  BY <1>4, <1>5, <1>6
           DEF Receive, Typed, TypeOK, chain, file, maintenance

LEMMA ReplyTyped ==
  ASSUME Typed, NEW w \in Workers, Reply(w)
  PROVE  Typed'
  <1>1. pc' \in [Workers -> Labels] /\ ReqOK'
    BY DEF Reply, Typed, TypeOK, ReqOK, Goto, Labels, OfferLabels
  <1> QED  BY <1>1 DEF Reply, Typed, TypeOK, chain, file, maintenance

LEMMA HandleTyped ==
  ASSUME Typed, NEW w \in Workers, Receive(w) \/ Handle(w)
  PROVE  Typed'
  BY GateTyped, ProbeTyped, RenewTyped, ReleaseTyped, OfferTyped, ReceiveTyped,
     ReplyTyped DEF Handle

----------------------------------------------------------------------------
(* The maintenance task, the process and the world around it.               *)

LEMMA MaintenanceTyped ==
  ASSUME Typed, Refresh \/ GcHeight \/ GcDrop
  PROVE  Typed'
  <1>1. ReqOK'
    BY DEF Typed, ReqOK, Refresh, GcHeight, GcDrop, worker
  <1>2. CASE Refresh
    BY <1>1, <1>2, ConfigAssumption
    DEF Refresh, Typed, TypeOK, chain, file, worker
  <1>3. CASE GcHeight
    BY <1>1, <1>3, ConfigAssumption
    DEF GcHeight, Typed, TypeOK, chain, file, worker
  <1>4. CASE GcDrop
    <2>1. IsHeldSet(held')
      BY <1>4, WithoutFacts DEF GcDrop, Typed, TypeOK
    <2>2. IsHeldSet(disk') /\ rotten' \in BOOLEAN
      BY <1>4, <2>1, SaveTyped DEF GcDrop, Typed, TypeOK, file
    <2> QED  BY <1>1, <1>4, <2>1, <2>2
             DEF GcDrop, Typed, TypeOK, chain, worker
  <1> QED  BY <1>2, <1>3, <1>4

LEMMA ProcessTyped ==
  ASSUME Typed, Crash \/ Start \/ FileRot
  PROVE  Typed'
  <1>1. CASE Crash
    <2>1. ReqOK'
      BY <1>1 DEF Crash, Fresh, ReqOK, OfferLabels
    <2>2. /\ pc' \in [Workers -> Labels]
          /\ req' \in [Workers -> Requests \cup {NoRequest}]
          /\ height' \in [Workers -> Nat]
          /\ answer' \in [Workers -> Answers \cup {NoAnswer}]
      BY <1>1 DEF Crash, Fresh, Labels
    <2>3. crashes' \in 0..MaxCrashes
      BY <1>1, ConfigAssumption DEF Crash, Typed, TypeOK
    <2>4. /\ revoked' \subseteq Caps /\ gcHeight' \in Nat
          /\ mpc' \in {"boot", "bootGc", "wait", "gc"}
          /\ up' \in BOOLEAN /\ IsHeldSet(held')
      BY <1>1, EmptyType DEF Crash, Fresh
    <2> QED  BY <1>1, <2>1, <2>2, <2>3, <2>4 DEF Crash, Typed, TypeOK, chain, file
  <1>2. CASE Start
    <2>1. ReqOK'
      BY <1>2 DEF Start, Typed, ReqOK, worker
    <2>2. /\ IsHeldSet(disk') /\ rotten' \in BOOLEAN
          /\ up' \in BOOLEAN /\ IsHeldSet(held')
      BY <1>2, EmptyType DEF Start, Typed, TypeOK, file
    <2> QED  BY <1>2, <2>1, <2>2
             DEF Start, Typed, TypeOK, chain, maintenance, worker
  <1>3. CASE FileRot
    BY <1>3 DEF FileRot, Typed, TypeOK, ReqOK, chain, maintenance, worker
  <1> QED  BY <1>1, <1>2, <1>3

LEMMA WorldTyped ==
  ASSUME Typed, Mine \/ Tick \/ Revoke \/ UNCHANGED vars
  PROVE  Typed'
  <1>1. ReqOK'
    BY DEF Typed, ReqOK, Mine, Tick, Revoke, vars, worker
  <1>2. /\ tip' \in 0..MaxTip /\ now' \in 0..MaxNow /\ onChain' \subseteq Revocable
    BY ConfigAssumption DEF Typed, TypeOK, Mine, Tick, Revoke, vars, chain
  <1>3. UNCHANGED <<crashes, file, up, held, maintenance, worker>>
    BY DEF Mine, Tick, Revoke, vars
  <1> QED  BY <1>1, <1>2, <1>3 DEF Typed, TypeOK, file, maintenance, worker

LEMMA NextTyped == Typed /\ [Next]_vars => Typed'
  BY HandleTyped, MaintenanceTyped, ProcessTyped, WorldTyped DEF Next

(* Every variable keeps its type, and every worker a request that fits the  *)
(* handler it runs.                                                         *)
THEOREM TypeCorrect == Spec => [](TypeOK /\ ReqOK)
  <1>1. Init => Typed
    BY InitTyped
  <1>2. Typed /\ [Next]_vars => Typed'
    BY NextTyped
  <1> QED  BY <1>1, <1>2, PTL DEF Spec, Typed

=============================================================================
