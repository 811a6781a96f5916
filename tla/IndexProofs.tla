---------------------------- MODULE IndexProofs ----------------------------
(***************************************************************************)
(* PinIndex proved for any pins, hosts, processes and desired factor: the  *)
(* index is always well formed, whatever overlaps or fails, and a save     *)
(* undoes another's work or forgets a replica only where its copy was      *)
(* overtaken; as long as processes do not overlap no replica is forgotten, *)
(* recorded health is the holder's own answer, and no pass places too much.*)
(***************************************************************************)
EXTENDS SharedIndex, FiniteSetTheorems, TLAPS

LEMMA SelectionsAreHosts ==
    ASSUME NEW n, NEW ex, NEW hs \in Selections(n, ex)
    PROVE  hs \in SUBSET Hosts /\ hs \cap ex = {}
<1>1. PICK k \in 0 .. n : hs \in kSubset(k, Hosts \ ex)
  BY DEF Selections
<1> QED BY <1>1 DEF kSubset

LEMMA AbsentIsEntry == Absent \in Entries
BY DEF Entries, EntryFields, Absent

LEMMA EntryFacts ==
    ASSUME NEW e \in Entries
    PROVE  /\ e \in EntryFields
           /\ e.held \in SUBSET Hosts /\ e.ok \in SUBSET Hosts
           /\ e.chan \in SUBSET Hosts
           /\ e.terms \in Terms \cup {NoTerms}
           /\ e.ok \subseteq e.held /\ e.chan \subseteq e.held
           /\ e.terms = NoTerms => e = Absent
<1>1. /\ e \in EntryFields
      /\ e.ok \subseteq e.held /\ e.chan \subseteq e.held
      /\ e.terms = NoTerms => e = Absent
  BY DEF Entries
<1> QED BY <1>1 DEF EntryFields

(* What the four ways to change an entry make of one.                       *)
LEMMA MarkedEntry ==
    ASSUME NEW e \in Entries, NEW passed
    PROVE  /\ Marked(e, passed) \in Entries
           /\ Marked(e, passed).held = e.held
           /\ Marked(e, passed).terms = e.terms
<1>1. CASE e.terms = NoTerms
  <2>1. e = Absent
    BY <1>1, EntryFacts
  <2>2. Marked(e, passed) = Absent
    BY <2>1 DEF Marked, Absent
  <2> QED BY <2>1, <2>2
<1>2. CASE e.terms # NoTerms
  <2>1. /\ Marked(e, passed) \in EntryFields
        /\ Marked(e, passed).held = e.held
        /\ Marked(e, passed).terms = e.terms
        /\ Marked(e, passed).ok = e.held \cap passed
        /\ Marked(e, passed).chan = e.chan
    BY EntryFacts DEF Marked, EntryFields
  <2> QED BY <1>2, <2>1, EntryFacts DEF Entries
<1> QED BY <1>1, <1>2

LEMMA GrownEntry ==
    ASSUME NEW e \in Entries, e.terms # NoTerms,
           NEW hs \in SUBSET Hosts, NEW chans \in SUBSET hs
    PROVE  /\ Grown(e, hs, chans) \in Entries
           /\ Grown(e, hs, chans).held = e.held \cup hs
           /\ Grown(e, hs, chans).terms = e.terms
<1>1. /\ Grown(e, hs, chans) \in EntryFields
      /\ Grown(e, hs, chans).held = e.held \cup hs
      /\ Grown(e, hs, chans).terms = e.terms
      /\ Grown(e, hs, chans).ok = e.ok \cup (hs \ e.held)
      /\ Grown(e, hs, chans).chan = e.chan \cup (chans \cap (hs \ e.held))
  BY EntryFacts DEF Grown, EntryFields
<1> QED BY <1>1, EntryFacts DEF Entries

LEMMA NewEntry ==
    ASSUME NEW t \in Terms, NEW hs \in SUBSET Hosts, NEW chans \in SUBSET hs
    PROVE  [terms |-> t, held |-> hs, ok |-> hs, chan |-> chans] \in Entries
BY IndexAssumption DEF Entries, EntryFields

LEMMA RenewedEntry ==
    ASSUME NEW e \in Entries, NEW t \in Terms
    PROVE  /\ [e EXCEPT !.terms = t] \in Entries
           /\ [e EXCEPT !.terms = t].held = e.held
<1>1. /\ [e EXCEPT !.terms = t] \in EntryFields
      /\ [e EXCEPT !.terms = t].held = e.held
      /\ [e EXCEPT !.terms = t].ok = e.ok
      /\ [e EXCEPT !.terms = t].chan = e.chan
      /\ [e EXCEPT !.terms = t].terms = t
  BY EntryFacts DEF EntryFields
<1> QED BY <1>1, EntryFacts, IndexAssumption DEF Entries

----------------------------------------------------------------------------
(* The index is well formed.  A save writes what a process carried through  *)
(* several steps, so the invariant says what it may carry at each.          *)

(* Process r knows which pin it is at, and that it is on its copy.          *)
Carries(r) ==
    /\ r.at \notin {"idle", "pick"} => r.cid \in Cids
    /\ r.at \in {"add", "renew"} => r.terms \in Terms
    /\ r.at \in {"add", "place"} => r.chan \subseteq r.got
    /\ r.at \notin {"add", "place"} => r.chan = {}
    /\ r.at \in {"audit", "pay", "place"} => r.copy[r.cid].terms # NoTerms
    /\ \A c \in r.queue : r.copy[c].terms # NoTerms

IndexInv == IndexTypeOK /\ \A p \in Procs : Carries(run[p])

LEMMA IdleIsFine == Idle \in RunFields /\ Carries(Idle)
<1>1. [c \in Cids |-> Absent] \in Indexes
  BY AbsentIsEntry DEF Indexes
<1> QED BY <1>1 DEF Idle, RunFields, Carries, Steps

LEMMA RunFacts ==
    ASSUME IndexInv, NEW p \in Procs
    PROVE  /\ run[p] \in RunFields /\ Carries(run[p])
           /\ run[p].at \in Steps /\ run[p].cid \in Cids \cup {NoCid}
           /\ run[p].terms \in Terms \cup {NoTerms}
           /\ run[p].copy \in Indexes /\ run[p].queue \in SUBSET Cids
           /\ run[p].todo \in SUBSET Hosts /\ run[p].got \in SUBSET Hosts
           /\ run[p].chan \in SUBSET Hosts
BY DEF IndexInv, IndexTypeOK, RunFields

(* One process moves on, to a state that is fine.                           *)
LEMMA OneMoves ==
    ASSUME IndexInv, NEW p \in Procs, NEW r \in RunFields, Carries(r),
           run' = [run EXCEPT ![p] = r]
    PROVE  run' \in [Procs -> RunFields] /\ \A q \in Procs : Carries(run'[q])
BY DEF IndexInv, IndexTypeOK

(* What is carried from host to host stays fine.                            *)
LEMMA AnswersAreFine ==
    ASSUME IndexInv, NEW p \in Procs, NEW h \in Hosts,
           run[p].at \notin {"idle", "pick"}
    PROVE  /\ NotYes(p, h) \in RunFields /\ Carries(NotYes(p, h))
           /\ Yes(p, h) \in RunFields /\ Carries(Yes(p, h))
<1>1. /\ NotYes(p, h) \in RunFields
      /\ NotYes(p, h) = [run[p] EXCEPT !.todo = @ \ {h}]
  BY RunFacts DEF NotYes, RunFields
<1>2. Carries(NotYes(p, h))
  BY RunFacts DEF NotYes, RunFields, Carries
<1>3. Yes(p, h) \in RunFields
  BY RunFacts DEF Yes, RunFields
<1>4. Carries(Yes(p, h))
  BY RunFacts DEF Yes, RunFields, Carries
<1> QED BY <1>1, <1>2, <1>3, <1>4

LEMMA ExchangeKeeps ==
    ASSUME IndexInv, NEW p \in Procs, NEW h \in Hosts, Exchange(p, h)
    PROVE  IndexInv'
<1> DEFINE c == run[p].cid
<1>1. CASE Accept(p, h)
  <2>1. c \in Cids /\ run[p].at \in {"add", "place"}
    BY <1>1, RunFacts DEF Accept, Offering, Carries
  <2>2. PICK opened \in {{}, {h}} :
            run' = [run EXCEPT ![p] = [Yes(p, h) EXCEPT !.chan = @ \cup opened]]
    BY <1>1 DEF Accept
  <2> DEFINE r == [Yes(p, h) EXCEPT !.chan = @ \cup opened]
  <2>3. r \in RunFields
    BY RunFacts DEF Yes, RunFields
  <2>4. Carries(r)
    BY <2>1, RunFacts DEF Yes, RunFields, Carries
  <2>5. run' \in [Procs -> RunFields] /\ \A q \in Procs : Carries(run'[q])
    BY <2>2, <2>3, <2>4, OneMoves
  <2>6. /\ index' = index /\ drops' = drops
        /\ kept' = kept \cup {<<h, c>>} /\ said' = said \cup {<<h, c>>}
        /\ stray' = stray \ {<<h, c>>}
    BY <1>1 DEF Accept
  <2>7. <<h, c>> \in Hosts \X Cids
    BY <2>1
  <2> HIDE DEF c, r
  <2> QED BY <2>5, <2>6, <2>7 DEF IndexInv, IndexTypeOK
<1>2. CASE Decline(p, h) \/ LoseAcceptance(p, h)
  <2>1. c \in Cids /\ run[p].at \in {"add", "place"}
    BY <1>2, RunFacts DEF Decline, LoseAcceptance, Offering, Carries
  <2>2. run' = [run EXCEPT ![p] = NotYes(p, h)]
    BY <1>2 DEF Decline, LoseAcceptance
  <2>3. run' \in [Procs -> RunFields] /\ \A q \in Procs : Carries(run'[q])
    BY <2>1, <2>2, AnswersAreFine, OneMoves
  <2> QED BY <1>2, <2>1, <2>3 DEF Decline, LoseAcceptance, IndexInv, IndexTypeOK
<1>3. CASE Pass(p, h)
  <2>1. c \in Cids /\ run[p].at \in {"audit", "probe"}
    BY <1>3, RunFacts DEF Pass, Examining, Carries
  <2>2. run' = [run EXCEPT ![p] = Yes(p, h)]
    BY <1>3 DEF Pass
  <2>3. run' \in [Procs -> RunFields] /\ \A q \in Procs : Carries(run'[q])
    BY <2>1, <2>2, AnswersAreFine, OneMoves
  <2> QED BY <1>3, <2>1, <2>3 DEF Pass, IndexInv, IndexTypeOK
<1>4. CASE Fail(p, h) \/ Pay(p, h)
  <2>1. run[p].at \in {"audit", "probe", "pay"}
    BY <1>4 DEF Fail, Pay, Examining
  <2>2. run' = [run EXCEPT ![p] = NotYes(p, h)]
    BY <1>4 DEF Fail, Pay
  <2>3. run' \in [Procs -> RunFields] /\ \A q \in Procs : Carries(run'[q])
    BY <2>1, <2>2, AnswersAreFine, OneMoves
  <2> QED BY <1>4, <2>3 DEF Fail, Pay, IndexInv, IndexTypeOK
<1>5. CASE Release(p, h) \/ ReleaseFails(p, h)
  <2>1. c \in Cids /\ run[p].at = "release"
    BY <1>5, RunFacts DEF Release, ReleaseFails, Releasing, Carries
  <2>2. run' = [run EXCEPT ![p] = NotYes(p, h)]
    BY <1>5 DEF Release, ReleaseFails
  <2>3. run' \in [Procs -> RunFields] /\ \A q \in Procs : Carries(run'[q])
    BY <2>1, <2>2, AnswersAreFine, OneMoves
  <2> QED BY <1>5, <2>1, <2>3
          DEF Release, ReleaseFails, Forgotten, IndexInv, IndexTypeOK
<1> QED BY <1>1, <1>2, <1>3, <1>4, <1>5 DEF Exchange

(* A process that only moves itself, and one that also writes the index.    *)
LEMMA MovesAlone ==
    ASSUME IndexInv, NEW p \in Procs, NEW r \in RunFields, Carries(r),
           run' = [run EXCEPT ![p] = r],
           UNCHANGED <<index, kept, drops, said, stray>>
    PROVE  IndexInv'
BY OneMoves DEF IndexInv, IndexTypeOK

LEMMA Writes ==
    ASSUME IndexInv, NEW p \in Procs, NEW ix \in Indexes, index' = ix,
           run' = [run EXCEPT ![p] = Idle], UNCHANGED <<kept, drops, said>>,
           stray' \subseteq stray \cup kept
    PROVE  IndexInv'
<1>1. run' \in [Procs -> RunFields] /\ \A q \in Procs : Carries(run'[q])
  BY IdleIsFine, OneMoves
<1> QED BY <1>1 DEF IndexInv, IndexTypeOK

LEMMA SetEntry ==
    ASSUME NEW ix \in Indexes, NEW c \in Cids, NEW e \in Entries
    PROVE  [ix EXCEPT ![c] = e] \in Indexes
BY DEF Indexes

(* The first step of a command, and a pass going on to its next pin.        *)
LEMMA CommandKeeps ==
    ASSUME IndexInv, NEW p \in Procs, Commands(p)
    PROVE  IndexInv'
<1>0. index \in Indexes /\ \A c \in Cids : index[c] \in Entries
  BY DEF IndexInv, IndexTypeOK, Indexes
<1>1. CASE \E c \in Cids, t \in Terms : AddStart(p, c, t)
  <2>1. PICK c \in Cids, t \in Terms : AddStart(p, c, t)
    BY <1>1
  <2>2. PICK hs \in Selections(Desired, {}) :
            run' = [run EXCEPT ![p] = [Idle EXCEPT !.at = "add", !.cid = c,
                                         !.terms = t, !.copy = index, !.todo = hs]]
    BY <2>1 DEF AddStart
  <2>3. hs \in SUBSET Hosts
    BY SelectionsAreHosts
  <2> DEFINE r == [Idle EXCEPT !.at = "add", !.cid = c, !.terms = t,
                               !.copy = index, !.todo = hs]
  <2>4. r \in RunFields /\ Carries(r)
    BY <1>0, <2>3, IdleIsFine DEF Idle, RunFields, Steps, Carries
  <2> QED BY <2>1, <2>2, <2>4, MovesAlone DEF AddStart
<1>2. CASE \E c \in Cids, t \in Terms : RenewStart(p, c, t)
  <2>1. PICK c \in Cids, t \in Terms : RenewStart(p, c, t)
    BY <1>2
  <2> DEFINE r == [Idle EXCEPT !.at = "renew", !.cid = c, !.terms = t, !.copy = index]
  <2>2. index[c].terms # NoTerms
    BY <1>0, <2>1, EntryFacts DEF RenewStart
  <2>3. r \in RunFields /\ Carries(r)
    BY <1>0, <2>2, IdleIsFine DEF Idle, RunFields, Steps, Carries
  <2> QED BY <2>1, <2>3, MovesAlone DEF RenewStart
<1>3. CASE \E c \in Cids : Rm(p, c) \/ RmLocal(p, c)
  <2>1. PICK c \in Cids : Rm(p, c) \/ RmLocal(p, c)
    BY <1>3
  <2>2. index' \in Indexes
    BY <1>0, <2>1, AbsentIsEntry, SetEntry DEF Rm, RmLocal
  <2>3. /\ UNCHANGED <<kept, drops, said>>
        /\ stray' \subseteq stray \cup kept
    BY <2>1 DEF Rm, RmLocal, Forgotten
  <2>4. run' \in [Procs -> RunFields] /\ \A q \in Procs : Carries(run'[q])
    <3>1. CASE RmLocal(p, c)
      BY <3>1 DEF RmLocal, IndexInv, IndexTypeOK
    <3>2. CASE Rm(p, c)
      <4>1. index[c].held \in SUBSET Hosts
        BY <1>0, EntryFacts
      <4> DEFINE r == [Idle EXCEPT !.at = "release", !.cid = c, !.todo = index[c].held]
      <4>2. r \in RunFields /\ Carries(r)
        BY <4>1, IdleIsFine DEF Idle, RunFields, Steps, Carries
      <4> QED BY <3>2, <4>2, OneMoves DEF Rm
    <3> QED BY <2>1, <3>1, <3>2
  <2> QED BY <2>2, <2>3, <2>4 DEF IndexInv, IndexTypeOK
<1>4. CASE \E c \in Cids : StatusStart(p, c)
  <2>1. PICK c \in Cids : StatusStart(p, c)
    BY <1>4
  <2>2. PICK adv \in SUBSET Hosts :
            run' = [run EXCEPT ![p] = [Idle EXCEPT !.at = "probe", !.cid = c,
                                                   !.todo = adv \cup index[c].held]]
    BY <2>1 DEF StatusStart
  <2> DEFINE r == [Idle EXCEPT !.at = "probe", !.cid = c, !.todo = adv \cup index[c].held]
  <2>3. adv \cup index[c].held \in SUBSET Hosts
    BY <1>0, EntryFacts
  <2>4. r \in RunFields /\ Carries(r)
    BY <2>3, IdleIsFine DEF Idle, RunFields, Steps, Carries
  <2> QED BY <2>1, <2>2, <2>4, MovesAlone DEF StatusStart
<1>5. CASE \E c \in Cids : Examine(p, c)
  <2>1. PICK c \in Cids : Examine(p, c)
    BY <1>5
  <2> DEFINE r == [run[p] EXCEPT !.at = "audit", !.cid = c, !.queue = @ \ {c},
                                 !.terms = run[p].copy[c].terms,
                                 !.todo = run[p].copy[c].held]
  <2>2. run[p].copy[c] \in Entries /\ run[p].copy[c].terms # NoTerms
    BY <2>1, RunFacts DEF Examine, Indexes, Carries
  <2>3. /\ run[p].copy[c].held \in SUBSET Hosts
        /\ run[p].copy[c].terms \in Terms \cup {NoTerms}
    BY <2>2, EntryFacts
  <2>4. r \in RunFields
    BY <2>3, RunFacts DEF RunFields, Steps
  <2>5. Carries(r)
    BY <2>1, <2>2, RunFacts DEF Examine, RunFields, Carries
  <2>6. run' = [run EXCEPT ![p] = r]
    BY <2>1, RunFacts DEF Examine, IndexInv, IndexTypeOK
  <2> QED BY <2>1, <2>4, <2>5, <2>6, MovesAlone DEF Examine
<1>6. CASE PassStart(p)
  <2> DEFINE r == [Idle EXCEPT !.at = "pick", !.copy = index, !.queue = Listed(index)]
  <2>1. \A d \in Listed(index) : index[d].terms # NoTerms
    BY <1>0, EntryFacts DEF Listed
  <2>2. Listed(index) \in SUBSET Cids
    BY DEF Listed
  <2>3. r \in RunFields /\ Carries(r)
    BY <1>0, <2>1, <2>2, IdleIsFine DEF Idle, RunFields, Steps, Carries
  <2> QED BY <1>6, <2>3, MovesAlone DEF PassStart
<1> QED BY <1>1, <1>2, <1>3, <1>4, <1>5, <1>6 DEF Commands

LEMMA ConcludeKeeps ==
    ASSUME IndexInv, NEW p \in Procs, Conclude(p)
    PROVE  IndexInv'
<1> DEFINE c == run[p].cid
           ix == run[p].copy
<1>0. /\ index \in Indexes /\ ix \in Indexes
      /\ \A d \in Cids : ix[d] \in Entries /\ index[d] \in Entries
  BY RunFacts DEF IndexInv, IndexTypeOK, Indexes
<1>1. CASE AddSave(p)
  <2>1. /\ c \in Cids /\ run[p].terms \in Terms
        /\ run[p].got \in SUBSET Hosts /\ run[p].chan \in SUBSET run[p].got
    BY <1>1, RunFacts DEF AddSave, Asked, Carries
  <2>2. index' \in Indexes
    BY <1>0, <1>1, <2>1, NewEntry, SetEntry DEF AddSave
  <2> QED BY <1>1, <2>2, Writes DEF AddSave, Forgotten
<1>2. CASE RmEnd(p)
  BY <1>2, IdleIsFine, MovesAlone DEF RmEnd
<1>3. CASE RenewSave(p)
  <2>1. c \in Cids /\ run[p].terms \in Terms
    BY <1>3, RunFacts DEF RenewSave, Asked, Carries
  <2>2. index' = [ix EXCEPT ![c] = [ix[c] EXCEPT !.terms = run[p].terms]]
    BY <1>3 DEF RenewSave
  <2>3. index' \in Indexes
    BY <1>0, <2>1, <2>2, RenewedEntry, SetEntry
  <2> QED BY <1>3, <2>3, Writes DEF RenewSave
<1>4. CASE StatusSave(p)
  <2>1. c \in Cids
    BY <1>4, RunFacts DEF StatusSave, Asked, Carries
  <2>2. index' = [index EXCEPT ![c] = Marked(index[c], run[p].got)]
    BY <1>4 DEF StatusSave
  <2>3. index' \in Indexes
    BY <1>0, <2>1, <2>2, MarkedEntry, SetEntry
  <2> QED BY <1>4, <2>3, Writes DEF StatusSave
<1>5. CASE Audited(p)
  <2>1. c \in Cids /\ run[p].at = "audit" /\ ix[c].terms # NoTerms
    BY <1>5, RunFacts DEF Audited, Asked, Carries
  <2> DEFINE e == Marked(ix[c], run[p].got)
             jx == [ix EXCEPT ![c] = e]
             hs == Payees(ix[c])
             r == [run[p] EXCEPT !.at = "pay", !.copy = jx, !.todo = hs]
  <2>2. e \in Entries /\ e.terms = ix[c].terms
    BY <1>0, <2>1, MarkedEntry
  <2>3. /\ jx \in Indexes
        /\ jx[c].terms # NoTerms
        /\ \A d \in run[p].queue : jx[d].terms # NoTerms
    <3> HIDE DEF e
    <3> QED BY <1>0, <2>1, <2>2, RunFacts, SetEntry DEF Indexes, Carries
  <2>4. hs \in SUBSET Hosts
    BY <1>0, <2>1, EntryFacts DEF Payees
  <2>5. run' = [run EXCEPT ![p] = r]
    BY <1>5, RunFacts DEF Audited, RunFields
  <2> HIDE DEF e, jx, hs
  <2>6. r \in RunFields
    <3>1. run[p] \in RunFields /\ jx \in Indexes
      BY <2>3, RunFacts
    <3> HIDE DEF c, ix
    <3> QED BY <2>4, <3>1 DEF RunFields, Steps
  <2>7. Carries(r)
    BY <2>1, <2>3, RunFacts DEF RunFields, Carries
  <2> HIDE DEF r
  <2> QED BY <1>5, <2>5, <2>6, <2>7, MovesAlone DEF Audited
<1>6. ASSUME NEW e \in Entries, e.terms # NoTerms,
             c \in Cids, run[p].at \in {"pay", "place"}
      PROVE  OnTo(p, e) \in RunFields /\ Carries(OnTo(p, e))
  <2> DEFINE jx == [ix EXCEPT ![c] = e]
  <2>1. jx \in Indexes /\ \A d \in run[p].queue : jx[d].terms # NoTerms
    BY <1>0, <1>6, RunFacts, SetEntry DEF Indexes, Carries
  <2>2. OnTo(p, e) = [run[p] EXCEPT !.at = "pick", !.cid = NoCid, !.terms = NoTerms,
                                    !.copy = jx, !.got = {}, !.chan = {}]
    BY RunFacts DEF OnTo, RunFields
  <2> HIDE DEF jx
  <2>3. OnTo(p, e) \in RunFields
    BY ZenonT(60), <2>1, <2>2, RunFacts DEF RunFields, Steps
  <2>4. Carries(OnTo(p, e))
    BY <2>1, <2>2, RunFacts DEF RunFields, Carries
  <2> QED BY <2>3, <2>4
<1>7. CASE Plan(p)
  <2>1. c \in Cids /\ run[p].at = "pay" /\ ix[c].terms # NoTerms
    BY <1>7, RunFacts DEF Plan, Asked, Carries
  <2>2. PICK hs \in Selections(Shortfall(ix[c], run[p].got), ix[c].held) :
            run' = [run EXCEPT ![p] =
                        IF hs = {} THEN OnTo(p, ix[c])
                        ELSE [run[p] EXCEPT !.at = "place", !.todo = hs, !.got = {}]]
    BY <1>7 DEF Plan
  <2> DEFINE r == [run[p] EXCEPT !.at = "place", !.todo = hs, !.got = {}]
  <2>3. hs \in SUBSET Hosts
    BY SelectionsAreHosts
  <2>4. r \in RunFields
    BY <2>3, RunFacts DEF RunFields, Steps
  <2>5. Carries(r)
    BY <2>1, RunFacts DEF RunFields, Carries
  <2> HIDE DEF r
  <2>6. CASE hs = {}
    BY <1>0, <1>6, <1>7, <2>1, <2>2, <2>6, MovesAlone DEF Plan
  <2>7. CASE hs # {}
    BY <1>7, <2>2, <2>4, <2>5, <2>7, MovesAlone DEF Plan, r
  <2> QED BY <2>6, <2>7
<1>8. CASE Placed(p)
  <2>1. /\ c \in Cids /\ run[p].at = "place" /\ ix[c].terms # NoTerms
        /\ run[p].got \in SUBSET Hosts /\ run[p].chan \in SUBSET run[p].got
    BY <1>8, RunFacts DEF Placed, Asked, Carries
  <2> DEFINE e == Grown(ix[c], run[p].got, run[p].chan)
  <2>2. e \in Entries /\ e.terms # NoTerms
    BY ZenonT(60), <1>0, <2>1, GrownEntry
  <2>3. run' = [run EXCEPT ![p] = OnTo(p, e)]
    BY <1>8 DEF Placed
  <2> HIDE DEF e
  <2> QED BY <1>6, <1>8, <2>1, <2>2, <2>3, MovesAlone DEF Placed
<1>9. CASE PassSave(p)
  BY <1>0, <1>9, Writes DEF PassSave
<1> QED BY <1>1, <1>2, <1>3, <1>4, <1>5, <1>7, <1>8, <1>9 DEF Conclude

LEMMA IndexInvInit ==
    ASSUME Init
    PROVE  IndexInv
<1>1. index \in Indexes
  BY AbsentIsEntry DEF Init, Indexes
<1>2. run \in [Procs -> RunFields] /\ \A p \in Procs : Carries(run[p])
  BY IdleIsFine DEF Init
<1>3. drops \in 0 .. MaxDrops
  BY IndexAssumption DEF Init
<1> QED BY <1>1, <1>2, <1>3 DEF Init, IndexInv, IndexTypeOK

LEMMA IndexInvStep ==
    ASSUME IndexInv, [Next]_indexVars
    PROVE  IndexInv'
<1>1. CASE UNCHANGED indexVars
  BY <1>1 DEF indexVars, IndexInv, IndexTypeOK
<1>2. CASE \E p \in Procs : Commands(p)
  BY <1>2, CommandKeeps
<1>3. CASE \E p \in Procs : Conclude(p)
  BY <1>3, ConcludeKeeps
<1>4. CASE \E p \in Procs, h \in Hosts : Exchange(p, h)
  BY <1>4, ExchangeKeeps
<1>5. CASE \E p \in Procs : Kill(p)
  <2>1. PICK p \in Procs : Kill(p)
    BY <1>5
  <2>2. run' \in [Procs -> RunFields] /\ \A q \in Procs : Carries(run'[q])
    BY <2>1, IdleIsFine, OneMoves DEF Kill
  <2> QED BY <2>1, <2>2 DEF Kill, IndexInv, IndexTypeOK
<1>6. CASE \E h \in Hosts, c \in Cids : Drop(h, c)
  BY <1>6, IndexAssumption DEF Drop, IndexInv, IndexTypeOK
<1> QED BY <1>1, <1>2, <1>3, <1>4, <1>5, <1>6 DEF Next

(* The index on disk and every copy of it in memory are well formed, with   *)
(* any number of processes that overlap, are killed and lose replies: no    *)
(* health or channel is recorded of a host that is no holder, and a pin     *)
(* that was removed leaves nothing behind (PinSet and its writers).         *)
THEOREM IndexTypeCorrect == Spec => []IndexTypeOK
<1>1. Init => IndexInv
  BY IndexInvInit
<1>2. IndexInv /\ [Next]_indexVars => IndexInv'
  BY IndexInvStep
<1>3. IndexInv => IndexTypeOK
  BY DEF IndexInv
<1> QED BY <1>1, <1>2, <1>3, PTL DEF Spec

----------------------------------------------------------------------------
(* What a step does to a process: it loads the index, goes on with its copy *)
(* or has none to write back.                                               *)

(* Copy r.copy is no worse than entry e of c.                               *)
Fits(r, c, e) == r.copy[c].terms = e.terms /\ e.held \subseteq r.copy[c].held

Loads(p) ==
    /\ run'[p].copy = index
    /\ run'[p].at = "renew" => index[run'[p].cid] # Absent

GoesOn(p) ==
    /\ run[p].at \in Writers
    /\ \A c \in Cids : Fits(run'[p], c, run[p].copy[c])
    /\ run'[p].at = "renew" =>
          run[p].at = "renew" /\ run'[p].cid = run[p].cid /\ run'[p].copy = run[p].copy

(* An idle process holds nothing, and rm and status hold no copy while they *)
(* talk to hosts.                                                           *)
Neat(r) ==
    /\ r.at = "idle" => r = Idle
    /\ r.at \in {"release", "probe"} => r.copy = Idle.copy

Proceeds(p) ==
    /\ Neat(run[p]) => Neat(run'[p])
    /\ run'[p].at \in Writers => index' = index /\ GoesOn(p)

Moves(p) ==
    /\ Neat(run[p]) => Neat(run'[p])
    /\ run'[p].at \in Writers => index' = index /\ (Loads(p) \/ GoesOn(p))

LEMMA CommandMoves ==
    ASSUME IndexInv, NEW p \in Procs, Commands(p)
    PROVE  \/ run' = run /\ run[p].at = "idle"
           \/ \E r : run' = [run EXCEPT ![p] = r] /\ Moves(p)
<1> DEFINE Starts(at, cid, terms, queue, todo, copy) ==
              [Idle EXCEPT !.at = at, !.cid = cid, !.terms = terms, !.queue = queue,
                           !.todo = todo, !.copy = copy]
<1>0. run \in [Procs -> RunFields] /\ run[p] \in RunFields
  BY RunFacts DEF IndexInv, IndexTypeOK
<1>1. ASSUME NEW r, run' = [run EXCEPT ![p] = r]
      PROVE  run'[p] = r
  BY <1>0, <1>1
<1>2. CASE \E c \in Cids, t \in Terms : AddStart(p, c, t)
  <2>1. PICK c \in Cids, t \in Terms, hs \in Selections(Desired, {}) :
            run' = [run EXCEPT ![p] = [Idle EXCEPT !.at = "add", !.cid = c,
                                         !.terms = t, !.copy = index, !.todo = hs]]
    BY <1>2 DEF AddStart
  <2> DEFINE r == [Idle EXCEPT !.at = "add", !.cid = c, !.terms = t, !.copy = index,
                               !.todo = hs]
  <2>2. r.at = "add" /\ r.copy = index
    BY DEF Idle
  <2> HIDE DEF r
  <2>3. run' = [run EXCEPT ![p] = r] /\ index' = index
    BY <1>2, <2>1 DEF r, AddStart
  <2> QED BY <1>1, <2>2, <2>3 DEF Moves, Loads, Neat
<1>3. CASE \E c \in Cids, t \in Terms : RenewStart(p, c, t)
  <2>1. PICK c \in Cids, t \in Terms : RenewStart(p, c, t)
    BY <1>3
  <2> DEFINE r == [Idle EXCEPT !.at = "renew", !.cid = c, !.terms = t, !.copy = index]
  <2>2. r.at = "renew" /\ r.copy = index /\ r.cid = c
    BY DEF Idle
  <2> HIDE DEF r
  <2>3. run' = [run EXCEPT ![p] = r] /\ index' = index /\ index[c] # Absent
    BY <2>1 DEF r, RenewStart
  <2> QED BY <1>1, <2>2, <2>3 DEF Moves, Loads, Neat
<1>4. CASE \E c \in Cids : Rm(p, c)
  <2>1. PICK c \in Cids : Rm(p, c)
    BY <1>4
  <2> DEFINE r == [Idle EXCEPT !.at = "release", !.cid = c, !.todo = index[c].held]
  <2>2. r.at = "release" /\ r.copy = Idle.copy
    BY DEF Idle
  <2> HIDE DEF r
  <2>3. run' = [run EXCEPT ![p] = r]
    BY <2>1 DEF r, Rm
  <2> QED BY <1>1, <2>2, <2>3 DEF Moves, Writers, Neat
<1>5. CASE \E c \in Cids : RmLocal(p, c)
  BY <1>5 DEF RmLocal, MayStart
<1>6. CASE \E c \in Cids : StatusStart(p, c)
  <2>1. PICK c \in Cids, all \in SUBSET Hosts : run' = [run EXCEPT ![p] =
            [Idle EXCEPT !.at = "probe", !.cid = c, !.todo = all]]
    <3>1. PICK c \in Cids, advertised \in SUBSET Hosts : run' = [run EXCEPT ![p] =
              [Idle EXCEPT !.at = "probe", !.cid = c,
                           !.todo = advertised \cup index[c].held]]
      BY <1>6 DEF StatusStart
    <3>2. advertised \cup index[c].held \in SUBSET Hosts
      BY EntryFacts DEF IndexInv, IndexTypeOK, Indexes, EntryFields
    <3> QED BY <3>1, <3>2
  <2> DEFINE r == [Idle EXCEPT !.at = "probe", !.cid = c, !.todo = all]
  <2>2. r.at = "probe" /\ r.copy = Idle.copy
    BY DEF Idle
  <2> HIDE DEF r
  <2>3. run' = [run EXCEPT ![p] = r]
    BY <2>1 DEF r
  <2> QED BY <1>1, <2>2, <2>3 DEF Moves, Writers, Neat
<1>7. CASE \E c \in Cids : Examine(p, c)
  <2>1. PICK c \in Cids : Examine(p, c)
    BY <1>7
  <2> DEFINE r == [run[p] EXCEPT !.at = "audit", !.cid = c, !.queue = @ \ {c},
                                 !.terms = run[p].copy[c].terms,
                                 !.todo = run[p].copy[c].held]
  <2>2. r.at = "audit" /\ r.copy = run[p].copy
    BY <1>0 DEF RunFields
  <2>3. run' = [run EXCEPT ![p] = r] /\ index' = index /\ run[p].at = "pick"
    BY <1>0, <2>1 DEF Examine
  <2> HIDE DEF r
  <2> QED BY <1>1, <2>2, <2>3 DEF Moves, GoesOn, Fits, Writers, Neat
<1>8. CASE PassStart(p)
  <2> DEFINE r == [Idle EXCEPT !.at = "pick", !.copy = index, !.queue = Listed(index)]
  <2>1. r.at = "pick" /\ r.copy = index
    BY DEF Idle
  <2> HIDE DEF r
  <2>2. run' = [run EXCEPT ![p] = r] /\ index' = index
    BY <1>8 DEF r, PassStart
  <2> QED BY <1>1, <2>1, <2>2 DEF Moves, Loads, Neat
<1> QED BY <1>2, <1>3, <1>4, <1>5, <1>6, <1>7, <1>8 DEF Commands

LEMMA ExchangeMoves ==
    ASSUME IndexInv, NEW p \in Procs, NEW h \in Hosts, Exchange(p, h)
    PROVE  \E r : run' = [run EXCEPT ![p] = r] /\ Proceeds(p)
<1>0. run \in [Procs -> RunFields] /\ run[p] \in RunFields
  BY RunFacts DEF IndexInv, IndexTypeOK
<1>1. PICK opened : LET r == run'[p] IN
        /\ run' = [run EXCEPT ![p] = r]
        /\ r \in {NotYes(p, h), Yes(p, h), [Yes(p, h) EXCEPT !.chan = @ \cup opened]}
  <2>1. CASE Accept(p, h)
    <3>1. PICK opened :
            run' = [run EXCEPT ![p] = [Yes(p, h) EXCEPT !.chan = @ \cup opened]]
      BY <2>1 DEF Accept
    <3> QED BY <1>0, <3>1
  <2>2. CASE Pass(p, h)
    BY <1>0, <2>2 DEF Pass
  <2>3. CASE \/ Decline(p, h) \/ LoseAcceptance(p, h) \/ Fail(p, h) \/ Release(p, h)
             \/ ReleaseFails(p, h) \/ Pay(p, h)
    BY <1>0, <2>3 DEF Decline, LoseAcceptance, Fail, Release, ReleaseFails, Pay
  <2> QED BY <2>1, <2>2, <2>3 DEF Exchange
<1>2. /\ run'[p].at = run[p].at /\ run'[p].copy = run[p].copy /\ run'[p].cid = run[p].cid
  BY <1>0, <1>1 DEF NotYes, Yes, RunFields
<1>3. index' = index
  BY DEF Exchange, Accept, Decline, LoseAcceptance, Pass, Fail, Release, ReleaseFails, Pay
<1>4. run[p].at # "idle"
  BY DEF Exchange, Accept, Decline, LoseAcceptance, Pass, Fail, Release, ReleaseFails,
         Pay, Offering, Examining, Releasing
<1> QED BY <1>1, <1>2, <1>3, <1>4 DEF Proceeds, GoesOn, Fits, Neat

LEMMA ConcludeMoves ==
    ASSUME IndexInv, NEW p \in Procs, Conclude(p)
    PROVE  \E r : run' = [run EXCEPT ![p] = r] /\ Proceeds(p)
<1> DEFINE c == run[p].cid
           e == run[p].copy[c]
<1>0. /\ run \in [Procs -> RunFields] /\ run[p] \in RunFields
      /\ \A d \in Cids : run[p].copy[d] \in Entries
  BY RunFacts DEF IndexInv, IndexTypeOK, Indexes
<1>1. ASSUME NEW r, run' = [run EXCEPT ![p] = r]
      PROVE  run'[p] = r
  BY <1>0, <1>1
<1>2. CASE AddSave(p) \/ RmEnd(p) \/ RenewSave(p) \/ StatusSave(p) \/ PassSave(p)
  <2>1. run' = [run EXCEPT ![p] = Idle]
    BY <1>2 DEF AddSave, RmEnd, RenewSave, StatusSave, PassSave
  <2>2. run'[p] = Idle /\ Idle.at = "idle"
    BY <1>1, <2>1 DEF Idle
  <2> QED BY <2>1, <2>2 DEF Proceeds, Writers, Neat
(* At a pin, the pass changes its copy there alone.                         *)
<1>3. ASSUME NEW r, run' = [run EXCEPT ![p] = r], index' = index, NEW f \in Entries,
             c \in Cids, run[p].at \in Writers, r.at \in Writers \ {"renew"},
             r.copy = [run[p].copy EXCEPT ![c] = f],
             f.terms = e.terms, e.held \subseteq f.held
      PROVE  Proceeds(p)
  <2>1. \A d \in Cids : r.copy[d] = IF d = c THEN f ELSE run[p].copy[d]
    BY <1>0, <1>3, RunFacts DEF Indexes
  <2> QED BY <1>1, <1>3, <2>1 DEF Proceeds, GoesOn, Fits, Neat, Writers
<1>4. ASSUME NEW f \in Entries
      PROVE  /\ OnTo(p, f).at = "pick"
             /\ OnTo(p, f).copy = [run[p].copy EXCEPT ![c] = f]
  BY <1>0 DEF OnTo, RunFields
<1>5. CASE Audited(p)
  <2> DEFINE f == Marked(e, run[p].got)
             r == [run[p] EXCEPT !.at = "pay", !.todo = Payees(e), !.copy[c] = f]
  <2>1. /\ run' = [run EXCEPT ![p] = r] /\ index' = index
        /\ c \in Cids /\ run[p].at = "audit"
    BY <1>5, RunFacts DEF Audited, Asked, Carries
  <2>2. r.at = "pay" /\ r.copy = [run[p].copy EXCEPT ![c] = f]
    BY <1>0 DEF RunFields
  <2>3. f \in Entries /\ f.terms = e.terms /\ f.held = e.held
    BY <1>0, <2>1, MarkedEntry
  <2> HIDE DEF f, r, e, c
  <2> QED BY <1>3, <2>1, <2>2, <2>3 DEF Writers
<1>6. CASE Plan(p)
  <2>1. PICK hs : run' = [run EXCEPT ![p] =
            IF hs = {} THEN OnTo(p, e)
            ELSE [run[p] EXCEPT !.at = "place", !.todo = hs, !.got = {}]]
    BY <1>6 DEF Plan
  <2>2. index' = index /\ c \in Cids /\ run[p].at = "pay"
    BY <1>6, RunFacts DEF Plan, Asked, Carries
  <2>3. CASE hs = {}
    BY <1>0, <1>3, <1>4, <2>1, <2>2, <2>3 DEF Writers
  <2>4. CASE hs # {}
    <3> DEFINE r == [run[p] EXCEPT !.at = "place", !.todo = hs, !.got = {}]
    <3>1. r.at = "place" /\ r.copy = run[p].copy
      BY <1>0 DEF RunFields
    <3>2. run' = [run EXCEPT ![p] = r]
      BY <2>1, <2>4
    <3> HIDE DEF r
    <3> QED BY <1>1, <2>2, <3>1, <3>2 DEF Proceeds, GoesOn, Fits, Neat, Writers
  <2> QED BY <2>3, <2>4
<1>7. CASE Placed(p)
  <2> DEFINE f == Grown(e, run[p].got, run[p].chan)
  <2>1. /\ run' = [run EXCEPT ![p] = OnTo(p, f)] /\ index' = index
        /\ c \in Cids /\ run[p].at = "place" /\ e.terms # NoTerms
        /\ run[p].got \in SUBSET Hosts /\ run[p].chan \in SUBSET run[p].got
    BY <1>7, RunFacts DEF Placed, Asked, Carries
  <2>2. f \in Entries /\ f.terms = e.terms /\ e.held \subseteq f.held
    <3>1. e \in Entries
      BY <1>0, <2>1
    <3> DEFINE hs == run[p].got
               cs == run[p].chan
    <3>2. hs \in SUBSET Hosts /\ cs \in SUBSET hs /\ e.terms # NoTerms
      BY <2>1
    <3>3. f = Grown(e, hs, cs)
      OBVIOUS
    <3> HIDE DEF e, f, hs, cs
    <3>4. /\ Grown(e, hs, cs) \in Entries
          /\ Grown(e, hs, cs).held = e.held \cup hs
          /\ Grown(e, hs, cs).terms = e.terms
      BY <3>1, <3>2, GrownEntry
    <3> QED BY <3>3, <3>4
  <2> HIDE DEF f
  <2>3. OnTo(p, f).at = "pick" /\ OnTo(p, f).copy = [run[p].copy EXCEPT ![c] = f]
    BY <1>4, <2>2
  <2> QED BY <1>3, <2>1, <2>2, <2>3 DEF Writers
<1> QED BY <1>2, <1>5, <1>6, <1>7 DEF Conclude

Acts(p) == Commands(p) \/ Conclude(p) \/ Kill(p) \/ \E h \in Hosts : Exchange(p, h)

LEMMA ActsOrDrops ==
    ASSUME Next
    PROVE  (\E p \in Procs : Acts(p)) \/ \E h \in Hosts, c \in Cids : Drop(h, c)
BY DEF Next, Acts

LEMMA IdleIsNeat == Neat(Idle)
BY DEF Neat, Idle

LEMMA OneActs ==
    ASSUME IndexInv, NEW p \in Procs, Acts(p)
    PROVE  \/ run' = run /\ run[p].at = "idle"
           \/ \E r : run' = [run EXCEPT ![p] = r] /\ Moves(p)
<1>1. CASE Kill(p)
  <2>1. run' = [run EXCEPT ![p] = Idle]
    BY <1>1 DEF Kill
  <2>2. run'[p] = Idle /\ Idle.at = "idle"
    BY <2>1 DEF Idle, IndexInv, IndexTypeOK
  <2>3. Moves(p)
    BY <2>2 DEF Moves, Neat, Writers
  <2> QED BY <2>1, <2>3
<1>2. Proceeds(p) => Moves(p)
  BY DEF Proceeds, Moves
<1> QED BY <1>1, <1>2, CommandMoves, ExchangeMoves, ConcludeMoves DEF Acts

(* Each process stands still or moves as above.                             *)
LEMMA EachMoves ==
    ASSUME IndexInv, Next, NEW q \in Procs
    PROVE  run'[q] = run[q] \/ Moves(q)
<1>1. CASE \E p \in Procs : Acts(p)
  <2>1. PICK p \in Procs : Acts(p)
    BY <1>1
  <2> QED BY <2>1, OneActs DEF IndexInv, IndexTypeOK
<1>2. CASE \E h \in Hosts, c \in Cids : Drop(h, c)
  BY <1>2 DEF Drop
<1> QED BY <1>1, <1>2, ActsOrDrops

NeatInv == \A p \in Procs : Neat(run[p])

----------------------------------------------------------------------------
(* What becomes of a replica that a host keeps.  Of a process's knowledge,  *)
(* of the index and of stray, one always takes over from the other.         *)

Had(p, h, c) ==
    h \in index[c].held \/ <<h, c>> \in stray \/ Knows(run[p], h, c)

Tracked(p, h, c) ==
    <<h, c>> \in kept' /\ (<<h, c>> \in kept => Had(p, h, c)) => Had(p, h, c)'

LEMMA IdleKnowsNothing == \A h, c : c \in Cids => ~Knows(Idle, h, c)
BY DEF Idle, Knows, Absent

LEMMA ExchangeTracks ==
    ASSUME IndexInv, NEW p \in Procs, NEW h \in Hosts, Exchange(p, h),
           NEW g \in Hosts, NEW c \in Cids
    PROVE  Tracked(p, g, c)
<1> SUFFICES ASSUME <<g, c>> \in kept', <<g, c>> \in kept => Had(p, g, c)
             PROVE  Had(p, g, c)'
  BY DEF Tracked
<1>0. run \in [Procs -> RunFields] /\ run[p] \in RunFields
  BY RunFacts DEF IndexInv, IndexTypeOK
<1>1. index' = index
  BY DEF Exchange, Accept, Decline, LoseAcceptance, Pass, Fail, Release,
         ReleaseFails, Pay
<1>2. CASE Accept(p, h)
  <2>1. PICK opened : run'[p] = [Yes(p, h) EXCEPT !.chan = @ \cup opened]
    BY <1>0, <1>2 DEF Accept
  <2>2. /\ run'[p].at = run[p].at /\ run'[p].copy = run[p].copy
        /\ run'[p].cid = run[p].cid /\ run'[p].got = run[p].got \cup {h}
        /\ run'[p].todo = run[p].todo \ {h}
    BY <1>0, <2>1 DEF Yes, RunFields
  <2>3. CASE <<g, c>> = <<h, run[p].cid>>
    BY <1>2, <2>2, <2>3 DEF Accept, Offering, Had, Knows
  <2>4. CASE <<g, c>> # <<h, run[p].cid>>
    <3>1. <<g, c>> \in kept /\ (<<g, c>> \in stray => <<g, c>> \in stray')
      BY <1>2, <2>4 DEF Accept
    <3>2. Knows(run[p], g, c) => Knows(run'[p], g, c)
      BY <1>2, <2>2 DEF Accept, Offering, Knows
    <3> QED BY <1>1, <3>1, <3>2 DEF Had
  <2> QED BY <2>3, <2>4
<1>3. CASE Pass(p, h)
  <2>1. run'[p] = Yes(p, h) /\ run[p].at \in {"audit", "probe"}
    BY <1>0, <1>3 DEF Pass, Examining
  <2>2. /\ run'[p].at = run[p].at /\ run'[p].copy = run[p].copy
        /\ run'[p].cid = run[p].cid
    BY <1>0, <2>1 DEF Yes, RunFields
  <2>3. Knows(run[p], g, c) => Knows(run'[p], g, c)
    BY <2>1, <2>2 DEF Knows
  <2> QED BY <1>1, <1>3, <2>3 DEF Pass, Had
<1>4. CASE \/ Decline(p, h) \/ LoseAcceptance(p, h) \/ Fail(p, h)
           \/ Release(p, h) \/ ReleaseFails(p, h) \/ Pay(p, h)
  <2>1. run'[p] = NotYes(p, h)
    BY <1>0, <1>4 DEF Decline, LoseAcceptance, Fail, Release, ReleaseFails, Pay
  <2>2. /\ run'[p].at = run[p].at /\ run'[p].copy = run[p].copy
        /\ run'[p].cid = run[p].cid /\ run'[p].got = run[p].got
        /\ run'[p].todo = run[p].todo \ {h}
    BY <1>0, <2>1 DEF NotYes, RunFields
  <2>3. CASE Release(p, h) \/ ReleaseFails(p, h)
    <3>1. CASE <<g, c>> = <<h, run[p].cid>>
      BY <1>1, <2>3, <3>1 DEF Release, ReleaseFails, Forgotten, Had
    <3>2. CASE <<g, c>> # <<h, run[p].cid>>
      <4>1. <<g, c>> \in kept /\ (<<g, c>> \in stray => <<g, c>> \in stray')
        BY <2>3 DEF Release, ReleaseFails
      <4>2. Knows(run[p], g, c) => Knows(run'[p], g, c)
        BY <2>2, <3>2 DEF Knows
      <4> QED BY <1>1, <4>1, <4>2 DEF Had
    <3> QED BY <3>1, <3>2
  <2>4. CASE Decline(p, h) \/ LoseAcceptance(p, h) \/ Fail(p, h) \/ Pay(p, h)
    <3>1. run[p].at # "release"
      BY <2>4 DEF Decline, LoseAcceptance, Fail, Pay, Offering, Examining
    <3>2. Knows(run[p], g, c) => Knows(run'[p], g, c)
      BY <2>2, <3>1 DEF Knows
    <3>3. /\ <<g, c>> \in kept \/ <<g, c>> \in stray'
          /\ <<g, c>> \in stray => <<g, c>> \in stray'
      BY <2>4 DEF Decline, LoseAcceptance, Fail, Pay
    <3> QED BY <1>1, <3>2, <3>3 DEF Had
  <2> QED BY <1>4, <2>3, <2>4
<1> QED BY <1>2, <1>3, <1>4 DEF Exchange

LEMMA CommandTracks ==
    ASSUME IndexInv, NEW p \in Procs, Neat(run[p]), Commands(p),
           NEW g \in Hosts, NEW d \in Cids
    PROVE  Tracked(p, g, d)
<1> SUFFICES ASSUME <<g, d>> \in kept', <<g, d>> \in kept => Had(p, g, d)
             PROVE  Had(p, g, d)'
  BY DEF Tracked
<1>0. run \in [Procs -> RunFields] /\ run[p] \in RunFields /\ index \in Indexes
  BY RunFacts DEF IndexInv, IndexTypeOK
<1>1. ASSUME NEW cmd, MayStart(p, cmd), <<g, d>> \in kept
      PROVE  g \in index[d].held \/ <<g, d>> \in stray
  <2>1. run[p] = Idle
    BY <1>1 DEF Neat, MayStart
  <2> QED BY <1>1, <2>1, IdleKnowsNothing DEF Had
<1>2. CASE \/ \E c \in Cids : \/ \E t \in Terms : AddStart(p, c, t) \/ RenewStart(p, c, t)
                              \/ StatusStart(p, c)
           \/ PassStart(p)
  <2>1. UNCHANGED <<index, kept, stray>> /\ \E cmd : MayStart(p, cmd)
    BY <1>2 DEF AddStart, RenewStart, StatusStart, PassStart
  <2> QED BY <1>1, <2>1 DEF Had
<1>3. CASE \E c \in Cids : Rm(p, c)
  <2>1. PICK c \in Cids : Rm(p, c)
    BY <1>3
  <2> DEFINE r == [Idle EXCEPT !.at = "release", !.cid = c, !.todo = index[c].held]
  <2>2. r.at = "release" /\ r.cid = c /\ r.todo = index[c].held
    BY DEF Idle
  <2>3. run'[p] = r /\ kept' = kept /\ stray' = stray
    BY <1>0, <2>1 DEF Rm
  <2> HIDE DEF r
  <2>4. d = c \/ index'[d] = index[d]
    BY <1>0, <2>1 DEF Rm, Indexes
  <2>5. g \in index[d].held \/ <<g, d>> \in stray
    BY <1>1, <2>1, <2>3 DEF Rm
  <2> QED BY <2>2, <2>3, <2>4, <2>5 DEF Had, Knows
<1>4. CASE \E c \in Cids : RmLocal(p, c)
  <2>1. PICK c \in Cids : RmLocal(p, c)
    BY <1>4
  <2>2. d = c \/ index'[d] = index[d]
    BY <1>0, <2>1 DEF RmLocal, Indexes
  <2>3. <<g, d>> \in kept /\ (<<g, d>> \in stray => <<g, d>> \in stray')
    BY <2>1 DEF RmLocal
  <2>4. g \in index[d].held \/ <<g, d>> \in stray
    BY <1>1, <2>1, <2>3 DEF RmLocal
  <2> QED BY <2>1, <2>2, <2>3, <2>4 DEF RmLocal, Forgotten, Had
<1>5. CASE \E c \in Cids : Examine(p, c)
  <2>1. PICK c \in Cids : Examine(p, c)
    BY <1>5
  <2>2. run'[p].copy = run[p].copy /\ run[p].at = "pick"
    BY <1>0, <2>1 DEF Examine, RunFields
  <2>3. Knows(run[p], g, d) => Knows(run'[p], g, d)
    BY <2>2 DEF Knows
  <2> QED BY <2>1, <2>3 DEF Examine, Had
<1> QED BY <1>2, <1>3, <1>4, <1>5 DEF Commands

(* The holders on file are on the copy, unless it is written back stale.    *)
LEMMA ConcludeTracks ==
    ASSUME IndexInv, NEW p \in Procs, Neat(run[p]), Conclude(p),
           NEW g \in Hosts, NEW d \in Cids,
           AddSave(p) \/ RenewSave(p) \/ PassSave(p) =>
               index[d].held \subseteq run[p].copy[d].held
    PROVE  Tracked(p, g, d)
<1> SUFFICES ASSUME <<g, d>> \in kept', <<g, d>> \in kept => Had(p, g, d)
             PROVE  Had(p, g, d)'
  BY DEF Tracked
<1> DEFINE c == run[p].cid
           ix == run[p].copy
<1>0. /\ run \in [Procs -> RunFields] /\ run[p] \in RunFields
      /\ index \in Indexes /\ ix \in Indexes
      /\ \A x \in Cids : ix[x] \in Entries /\ index[x] \in Entries
  BY RunFacts DEF IndexInv, IndexTypeOK, Indexes
<1>1. kept' = kept /\ Had(p, g, d)
  BY DEF Conclude, AddSave, RmEnd, RenewSave, StatusSave, Audited, Plan, Placed, PassSave
<1>2. CASE AddSave(p)
  <2> DEFINE new == [terms |-> run[p].terms, held |-> run[p].got,
                     ok |-> run[p].got, chan |-> run[p].chan]
  <2>1. /\ run[p].at = "add" /\ c \in Cids
        /\ index' = [ix EXCEPT ![c] = new]
        /\ stray' = stray \cup Forgotten(ix[c].held, c, index')
    BY <1>2, RunFacts DEF AddSave, Asked, Carries
  <2>2. /\ index'[c].held = run[p].got
        /\ d # c => index'[d] = ix[d]
    BY <1>0, <2>1 DEF Indexes
  <2>3. g \in ix[d].held \/ <<g, d>> \in stray \/ (d = c /\ g \in run[p].got)
    BY <1>1, <1>2, <2>1 DEF Had, Knows
  <2> QED BY <1>1, <2>1, <2>2, <2>3 DEF Forgotten, Had
<1>3. CASE RmEnd(p) \/ StatusSave(p)
  <2>1. run[p].at \in {"release", "probe"} /\ run[p].todo = {} /\ stray' = stray
    BY <1>3 DEF RmEnd, StatusSave, Asked
  <2>2. ~Knows(run[p], g, d)
    BY <2>1 DEF Neat, Knows, Idle, Absent
  <2>3. index'[d].held = index[d].held
    <3>1. CASE RmEnd(p)
      BY <3>1 DEF RmEnd
    <3>2. CASE StatusSave(p)
      <4>1. c \in Cids /\ index' = [index EXCEPT ![c] = Marked(index[c], run[p].got)]
        BY <3>2, RunFacts DEF StatusSave, Asked, Carries
      <4> QED BY <1>0, <4>1, MarkedEntry DEF Indexes
    <3> QED BY <1>3, <3>1, <3>2
  <2> QED BY <1>1, <2>1, <2>2, <2>3 DEF Had
<1>4. CASE RenewSave(p)
  <2>1. /\ run[p].at = "renew" /\ c \in Cids /\ run[p].terms \in Terms
        /\ stray' = stray
        /\ index' = [ix EXCEPT ![c] = [ix[c] EXCEPT !.terms = run[p].terms]]
    BY <1>4, RunFacts DEF RenewSave, Asked, Carries
  <2>2. index'[d].held = ix[d].held
    BY <1>0, <2>1, RenewedEntry DEF Indexes
  <2>3. Knows(run[p], g, d) => g \in ix[d].held
    BY <2>1 DEF Knows
  <2> QED BY <1>1, <1>4, <2>1, <2>2, <2>3 DEF Had
<1>5. CASE PassSave(p)
  <2>1. run[p].at = "pick" /\ index' = ix /\ stray' = stray
    BY <1>5 DEF PassSave
  <2>2. Knows(run[p], g, d) => g \in ix[d].held
    BY <2>1 DEF Knows
  <2> QED BY <1>1, <1>5, <2>1, <2>2 DEF Had
<1>6. CASE Audited(p) \/ Plan(p) \/ Placed(p)
  <2>1. UNCHANGED <<index, stray>> /\ run[p].at \in {"audit", "pay", "place"}
    BY <1>6 DEF Audited, Plan, Placed, Asked
  <2>2. ix[d].held \subseteq run'[p].copy[d].held
    <3>1. run'[p].at \in {"pick", "pay", "place"}
      <4>1. \A e : OnTo(p, e).at = "pick"
        BY <1>0 DEF OnTo, RunFields
      <4>2. CASE Audited(p)
        BY <1>0, <4>2 DEF Audited, RunFields
      <4>3. CASE Plan(p)
        BY <1>0, <4>1, <4>3 DEF Plan, RunFields
      <4>4. CASE Placed(p)
        BY <1>0, <4>1, <4>4 DEF Placed
      <4> QED BY <1>6, <4>2, <4>3, <4>4
    <3>2. Proceeds(p)
      BY ConcludeMoves
    <3> QED BY <3>1, <3>2 DEF Proceeds, GoesOn, Fits, Writers
  <2>3. CASE run[p].at = "place" /\ d = c /\ g \in run[p].got
    <3> DEFINE f == Grown(ix[c], run[p].got, run[p].chan)
    <3>1. Placed(p) /\ run'[p] = OnTo(p, f)
      BY <1>0, <1>6, <2>3 DEF Audited, Plan, Placed, Asked
    <3>2. g \in f.held
      BY <1>0, <2>3, EntryFacts DEF Grown, EntryFields
    <3> HIDE DEF f
    <3>3. run'[p].copy[c] = f
      BY <1>0, <2>3, <3>1 DEF OnTo, RunFields, Indexes
    <3> QED BY <2>3, <3>2, <3>3 DEF Had, Knows
  <2>4. CASE ~(run[p].at = "place" /\ d = c /\ g \in run[p].got)
    <3>1. Knows(run[p], g, d) => g \in ix[d].held
      BY <2>1, <2>4 DEF Knows
    <3> QED BY <1>1, <2>1, <2>2, <3>1 DEF Had, Knows
  <2> QED BY <2>3, <2>4
<1> QED BY <1>2, <1>3, <1>4, <1>5, <1>6 DEF Conclude

LEMMA ActsTracks ==
    ASSUME IndexInv, NEW p \in Procs, Neat(run[p]), Acts(p),
           NEW g \in Hosts, NEW c \in Cids,
           AddSave(p) \/ RenewSave(p) \/ PassSave(p) =>
               index[c].held \subseteq run[p].copy[c].held
    PROVE  Tracked(p, g, c)
<1>1. CASE Kill(p)
  BY <1>1 DEF Kill, Tracked, Had
<1>2. CASE \E h \in Hosts : Exchange(p, h)
  BY <1>2, ExchangeTracks
<1> QED BY <1>1, <1>2, CommandTracks, ConcludeTracks DEF Acts

----------------------------------------------------------------------------
(* No replica is forgotten, as long as processes do not overlap: at most    *)
(* one is not idle, and the copy it will write back has lost no holder.     *)

OneAtATime ==
    \A p, q \in Procs : p = q \/ run[p].at = "idle" \/ run[q].at = "idle"

CopyAhead ==
    \A p \in Procs : run[p].at \in Writers =>
        \A c \in Cids : index[c].held \subseteq run[p].copy[c].held

AccountInv == IndexInv /\ NeatInv /\ OneAtATime /\ CopyAhead /\ Accounted

(* Apart from the one process p that acts, all are blank.                   *)
OnlyActs(p) == \A q \in Procs \ {p} : run[q] = Idle

LEMMA ActsAlone ==
    ASSUME "overlap" \notin Slips, AccountInv, NEW p \in Procs,
           run[p].at # "idle" \/ \E cmd : MayStart(p, cmd)
    PROVE  OnlyActs(p)
BY DEF AccountInv, NeatInv, Neat, OneAtATime, MayStart, OnlyActs

LEMMA ActsNotIdle ==
    ASSUME NEW p \in Procs, Acts(p)
    PROVE  run[p].at # "idle" \/ \E cmd : MayStart(p, cmd)
<1>1. CASE Commands(p)
  BY <1>1 DEF Commands, AddStart, RenewStart, Rm, RmLocal, StatusStart, Examine, PassStart
<1>2. CASE Conclude(p) \/ Kill(p)
  BY <1>2 DEF Conclude, AddSave, RmEnd, RenewSave, StatusSave, Audited, Plan, Placed,
              PassSave, Asked, Kill
<1>3. CASE \E h \in Hosts : Exchange(p, h)
  BY <1>3 DEF Exchange, Accept, Decline, LoseAcceptance, Pass, Fail, Release,
              ReleaseFails, Pay, Offering, Examining, Releasing
<1> QED BY <1>1, <1>2, <1>3 DEF Acts

LEMMA AccountInit == Init => AccountInv
<1> SUFFICES ASSUME Init PROVE AccountInv
  OBVIOUS
<1>1. IndexInv
  BY IndexInvInit
<1>2. Idle.at = "idle" /\ \A p \in Procs : run[p] = Idle
  BY DEF Init, Idle
<1> QED BY <1>1, <1>2
        DEF Init, AccountInv, NeatInv, Neat, OneAtATime, CopyAhead, Writers, Accounted

LEMMA AccountNext ==
    ASSUME "overlap" \notin Slips, AccountInv, [Next]_indexVars
    PROVE  AccountInv'
<1>0. IndexInv' /\ IndexInv
  BY IndexInvStep DEF AccountInv
<1>1. CASE UNCHANGED indexVars
  BY <1>0, <1>1 DEF indexVars, AccountInv, NeatInv, OneAtATime, CopyAhead, Accounted
<1>2. CASE \E h \in Hosts, c \in Cids : Drop(h, c)
  <2>1. PICK h \in Hosts, c \in Cids : Drop(h, c)
    BY <1>2
  <2>2. \A g \in Hosts, d \in Cids : <<g, d>> \in kept' =>
            <<g, d>> \in kept /\ (<<g, d>> \in stray => <<g, d>> \in stray')
    BY <2>1 DEF Drop
  <2>3. index' = index /\ run' = run
    BY <2>1 DEF Drop
  <2> QED BY <1>0, <2>2, <2>3
          DEF AccountInv, Accounted, NeatInv, OneAtATime, CopyAhead
<1>3. CASE \E p \in Procs : Acts(p)
  <2>1. PICK p \in Procs : Acts(p)
    BY <1>3
  <2>2. OnlyActs(p)
    BY <2>1, ActsAlone, ActsNotIdle
  <2>3. \A q \in Procs \ {p} : run'[q] = Idle
    BY <1>0, <2>1, <2>2, OneActs DEF OnlyActs, IndexInv, IndexTypeOK
  <2>4. (run[p].at = "idle" /\ run'[p] = run[p]) \/ Moves(p)
    BY <1>0, <2>1, OneActs
  <2>5. NeatInv'
    BY <2>3, <2>4, IdleIsNeat DEF AccountInv, NeatInv, Moves
  <2>6. OneAtATime'
    BY <2>3 DEF OneAtATime, Idle
  <2>7. CopyAhead'
    <3> SUFFICES ASSUME NEW q \in Procs, run'[q].at \in Writers, NEW c \in Cids
                 PROVE  index'[c].held \subseteq run'[q].copy[c].held
      BY DEF CopyAhead
    <3>1. q = p
      BY <2>3 DEF Idle, Writers
    <3>2. run[p].at \in Writers => index[c].held \subseteq run[p].copy[c].held
      BY DEF AccountInv, CopyAhead
    <3>3. index' = index /\ (Loads(p) \/ GoesOn(p))
      BY <2>4, <3>1 DEF Moves, Writers
    <3> QED BY <3>1, <3>2, <3>3 DEF Loads, GoesOn, Fits
  <2>8. ASSUME NEW g \in Hosts, NEW c \in Cids, <<g, c>> \in kept'
        PROVE  Had(p, g, c)'
    <3>1. <<g, c>> \in kept => Had(p, g, c)
      BY <2>2, IdleKnowsNothing DEF AccountInv, Accounted, OnlyActs, Had
    <3>2. Tracked(p, g, c)
      <4>1. AddSave(p) \/ RenewSave(p) \/ PassSave(p) =>
                index[c].held \subseteq run[p].copy[c].held
        BY DEF AddSave, RenewSave, PassSave, Asked, Writers, AccountInv, CopyAhead
      <4> QED BY <1>0, <2>1, <4>1, ActsTracks DEF AccountInv, NeatInv
    <3> QED BY <2>8, <3>1, <3>2 DEF Tracked
  <2>9. Accounted'
    BY <2>8 DEF Accounted, Had
  <2> QED BY <1>0, <2>5, <2>6, <2>7, <2>9 DEF AccountInv
<1> QED BY <1>1, <1>2, <1>3, ActsOrDrops

(* No replica is forgotten, whatever fails: while processes do not overlap, *)
(* each is on record, in the hands of the process at work, or went astray   *)
(* in a way the code accepts (the commands and repair_once).                *)
THEOREM NothingForgotten ==
    ASSUME "overlap" \notin Slips
    PROVE  Spec => []Accounted
<1>1. AccountInv /\ [Next]_indexVars => AccountInv'
  BY AccountNext
<1>2. AccountInv => Accounted
  BY DEF AccountInv
<1> QED BY <1>1, <1>2, AccountInit, PTL DEF Spec

----------------------------------------------------------------------------
(* What a save writes, as long as processes do not overlap.  A process      *)
(* carries what it loaded, what it was answered and what it made of both    *)
(* from step to step, so the invariant says how these agree at each.        *)

(* Of the holders of e, those are healthy whose last answer was yes.        *)
Answered(e, c, yes) == e.ok = {h \in e.held : <<h, c>> \in yes}

(* Who of hs has been asked is noted as it answered.                        *)
Noted(r, hs, yes) ==
    /\ r.todo \cap r.got = {}
    /\ \A h \in hs \ r.todo : h \in r.got <=> <<h, r.cid>> \in yes

(* A pass has yet to hear about c.                                          *)
Ahead(r, c) == c \in r.queue \/ (r.at = "audit" /\ c = r.cid)

(* What a pass holds of c.                                                  *)
Worked(r, c, ix, yes) ==
    IF Ahead(r, c) THEN r.copy[c] = ix[c]
    ELSE /\ Answered(r.copy[c], c, yes)
         /\ r.copy[c].terms = ix[c].terms
         /\ ix[c].held \subseteq r.copy[c].held
         /\ r.copy[c].held = ix[c].held \/ Cardinality(r.copy[c].ok) <= Desired

(* Offers go to new hosts, no more than are missing.                        *)
Offered(r, e, yes) ==
    /\ (r.got \cup r.todo) \cap e.held = {}
    /\ Cardinality(e.ok) + Cardinality(r.got \cup r.todo) <= Desired
    /\ r.got \X {r.cid} \subseteq yes

(* What process r holds is true of index ix and of the answers yes.         *)
Honest(r, ix, yes) ==
    /\ r.at \in {"add", "renew"} => r.copy = ix
    /\ r.at = "renew" => r.copy[r.cid] # Absent
    /\ r.at = "add" => r.got \X {r.cid} \subseteq yes
    /\ r.at \in {"audit", "probe"} => Noted(r, ix[r.cid].held, yes)
    /\ r.at \in {"pick", "audit", "pay", "place"} =>
           \A c \in Cids : Worked(r, c, ix, yes)
    /\ r.at = "pick" => r.got = {}
    /\ r.at \in {"audit", "pay", "place"} => r.cid \notin r.queue
    /\ r.at = "pay" => r.copy[r.cid].ok = r.copy[r.cid].held \cap r.got
    /\ r.at = "place" => Offered(r, r.copy[r.cid], yes)

HonestInv == \A p \in Procs : Honest(run[p], index, said)

LEMMA HonestStep ==
    ASSUME AccountInv, NEW p \in Procs, OnlyActs(p),
           NEW r, run' = [run EXCEPT ![p] = r], Honest(r, index', said')
    PROVE  HonestInv'
<1>1. run'[p] = r /\ \A q \in Procs \ {p} : run'[q] = Idle
  BY DEF AccountInv, IndexInv, IndexTypeOK, OnlyActs
<1>2. Honest(Idle, index', said')
  BY DEF Honest, Idle
<1> QED BY <1>1, <1>2 DEF HonestInv

(* What others answer, or this host of other pins, changes nothing.         *)
LEMMA SameWork ==
    ASSUME NEW r, NEW s, NEW c, NEW ix, NEW yes, NEW more,
           Worked(r, c, ix, yes), s.copy[c] = r.copy[c], Ahead(s, c) <=> Ahead(r, c),
           \A h : <<h, c>> \in more <=> <<h, c>> \in yes
    PROVE  Worked(s, c, ix, more)
BY DEF Worked, Answered

LEMMA HostCount ==
    ASSUME NEW S \in SUBSET Hosts
    PROVE  /\ IsFiniteSet(S) /\ Cardinality(S) \in Nat
           /\ \A T \in SUBSET S : Cardinality(T) <= Cardinality(S)
<1>1. IsFiniteSet(S)
  BY IndexAssumption, FS_Subset
<1> QED BY <1>1, FS_Subset, FS_CardinalityType

LEMMA UnionCount ==
    ASSUME NEW S \in SUBSET Hosts, NEW T \in SUBSET Hosts
    PROVE  /\ Cardinality(S \cup T) \in Nat
           /\ Cardinality(S \cup T) <= Cardinality(S) + Cardinality(T)
<1>1. IsFiniteSet(S) /\ IsFiniteSet(T) /\ S \cup T \in SUBSET Hosts
  BY HostCount
<1>2. Cardinality(S \cup T) = Cardinality(S) + Cardinality(T) - Cardinality(S \cap T)
  BY <1>1, FS_Union
<1>3. S \cap T \in SUBSET Hosts
  OBVIOUS
<1> QED BY <1>1, <1>2, <1>3, HostCount

LEMMA ExchangeHonest ==
    ASSUME "overlap" \notin Slips, AccountInv, HonestInv,
           NEW p \in Procs, NEW h \in Hosts, Exchange(p, h)
    PROVE  HonestInv'
<1> DEFINE r == run[p]
           c == r.cid
<1>1. /\ r \in RunFields /\ c \in Cids /\ OnlyActs(p) /\ index' = index
      /\ Honest(r, index, said) /\ r.copy[c] \in Entries
      /\ r.todo \in SUBSET Hosts /\ r.got \in SUBSET Hosts /\ h \in r.todo
  <2>1. r.at \notin {"idle", "pick"} /\ index' = index /\ h \in r.todo
    BY DEF Exchange, Accept, Decline, LoseAcceptance, Pass, Fail, Release,
           ReleaseFails, Pay, Offering, Examining, Releasing
  <2>2. c \in Cids
    BY <2>1, RunFacts DEF AccountInv, Carries
  <2> QED BY <2>1, <2>2, RunFacts, ActsAlone DEF AccountInv, HonestInv, Indexes
<1>2. ASSUME NEW s, s \in {Yes(p, h), NotYes(p, h)}
      PROVE  /\ s.at = r.at /\ s.copy = r.copy /\ s.cid = c /\ s.queue = r.queue
             /\ s.todo = r.todo \ {h}
  BY <1>1, <1>2 DEF Yes, NotYes, RunFields
<1>3. Yes(p, h).got = r.got \cup {h} /\ NotYes(p, h).got = r.got
  BY <1>1 DEF Yes, NotYes, RunFields
(* The answer is about c, and leaves what is held of other pins true.       *)
<1>4. ASSUME NEW s, s.at = r.at, s.copy = r.copy, s.cid = c, s.queue = r.queue,
             r.at \in {"audit", "pay", "place"}, NEW d \in Cids \ {c},
             \A g, b : b # c => (<<g, b>> \in said' <=> <<g, b>> \in said)
      PROVE  Worked(s, d, index, said')
  <2>1. Worked(r, d, index, said)
    BY <1>1, <1>4 DEF Honest
  <2>2. Ahead(s, d) <=> Ahead(r, d)
    BY <1>4 DEF Ahead
  <2>3. s.copy[d] = r.copy[d] /\ \A g : <<g, d>> \in said' <=> <<g, d>> \in said
    BY <1>4
  <2> HIDE DEF r, c
  <2> QED BY <2>1, <2>2, <2>3, SameWork
<1>5. CASE Accept(p, h)
  <2>1. PICK opened :
            run' = [run EXCEPT ![p] = [Yes(p, h) EXCEPT !.chan = @ \cup opened]]
    BY <1>5 DEF Accept
  <2> DEFINE s == [Yes(p, h) EXCEPT !.chan = @ \cup opened]
  <2>2. /\ s.at = r.at /\ s.copy = r.copy /\ s.cid = c /\ s.queue = r.queue
        /\ s.todo = r.todo \ {h} /\ s.got = r.got \cup {h}
    BY <1>1, <1>2, <1>3 DEF Yes, RunFields
  <2>3. said' = said \cup {<<h, c>>} /\ r.at \in {"add", "place"}
    BY <1>5 DEF Accept, Offering
  <2> HIDE DEF s
  <2> SUFFICES Honest(s, index, said')
    BY <1>1, <2>1, HonestStep DEF s
  <2>4. CASE r.at = "add"
    BY <1>1, <2>2, <2>3, <2>4 DEF Honest
  <2>5. CASE r.at = "place"
    <3>1. Offered(r, r.copy[c], said) /\ c \notin r.queue
      BY <1>1, <2>5 DEF Honest
    <3>2. s.got \cup s.todo = r.got \cup r.todo
      BY <1>1, <2>2
    <3>3. Offered(s, s.copy[c], said')
      <4>1. (s.got \cup s.todo) \cap s.copy[c].held = {}
        BY <2>2, <3>1, <3>2 DEF Offered
      <4>2. Cardinality(s.copy[c].ok) + Cardinality(s.got \cup s.todo) <= Desired
        BY <2>2, <3>1, <3>2 DEF Offered
      <4>3. s.got \X {s.cid} \subseteq said'
        BY <2>2, <2>3, <3>1 DEF Offered
      <4> QED BY <4>1, <4>2, <4>3 DEF Offered
    <3>4. Worked(s, c, index, said')
      <4>1. Worked(r, c, index, said) /\ ~Ahead(r, c) /\ ~Ahead(s, c)
        BY <1>1, <2>2, <2>5, <3>1 DEF Honest, Ahead
      <4>2. h \notin r.copy[c].held
        BY <1>1, <3>1 DEF Offered
      <4>3. Answered(s.copy[c], c, said')
        BY <2>2, <2>3, <4>1, <4>2 DEF Worked, Answered
      <4> QED BY <2>2, <4>1, <4>3 DEF Worked
    <3>5. \A d \in Cids : Worked(s, d, index, said')
      BY <1>4, <2>2, <2>3, <2>5, <3>4
    <3> QED BY <2>2, <2>5, <3>1, <3>3, <3>5 DEF Honest
  <2> QED BY <2>3, <2>4, <2>5
<1>6. CASE Decline(p, h) \/ LoseAcceptance(p, h)
  <2> DEFINE s == NotYes(p, h)
  <2>1. run' = [run EXCEPT ![p] = s] /\ said' = said /\ r.at \in {"add", "place"}
    BY <1>6 DEF Decline, LoseAcceptance, Offering
  <2>2. /\ s.at = r.at /\ s.copy = r.copy /\ s.cid = c /\ s.queue = r.queue
        /\ s.todo = r.todo \ {h} /\ s.got = r.got
    BY <1>2, <1>3
  <2> HIDE DEF s
  <2> SUFFICES Honest(s, index, said)
    BY <1>1, <2>1, HonestStep
  <2>3. CASE r.at = "add"
    BY <1>1, <2>2, <2>3 DEF Honest
  <2>4. CASE r.at = "place"
    <3>1. Offered(r, r.copy[c], said) /\ c \notin r.queue
      BY <1>1, <2>4 DEF Honest
    <3>2. /\ Cardinality(r.copy[c].ok) \in Nat
          /\ Cardinality(r.got \cup r.todo) \in Nat
          /\ Cardinality(s.got \cup s.todo) \in Nat
          /\ Cardinality(s.got \cup s.todo) <= Cardinality(r.got \cup r.todo)
      <4>1. s.got \cup s.todo \in SUBSET (r.got \cup r.todo)
        BY <2>2
      <4>2. r.got \cup r.todo \in SUBSET Hosts /\ r.copy[c].ok \in SUBSET Hosts
        BY <1>1, EntryFacts
      <4> QED BY <4>1, <4>2, HostCount
    <3>3. Offered(s, s.copy[c], said)
      <4>1. /\ (s.got \cup s.todo) \cap s.copy[c].held = {}
            /\ s.got \X {s.cid} \subseteq said
        BY <2>2, <3>1 DEF Offered
      <4>2. Cardinality(s.copy[c].ok) + Cardinality(s.got \cup s.todo) <= Desired
        BY <2>2, <3>1, <3>2, IndexAssumption DEF Offered
      <4> QED BY <2>2, <4>1, <4>2 DEF Offered
    <3>4. Worked(s, c, index, said)
      BY <1>1, <2>2, <2>4 DEF Honest, Worked, Ahead
    <3>5. \A d \in Cids : Worked(s, d, index, said)
      BY <1>4, <2>1, <2>2, <2>4, <3>4
    <3> QED BY <2>2, <2>4, <3>1, <3>3, <3>5 DEF Honest
  <2> QED BY <2>1, <2>3, <2>4
(* An answer to an audit or a probe, noted as it is given.                  *)
<1>7. ASSUME NEW s, run' = [run EXCEPT ![p] = s], r.at \in {"audit", "probe"},
             s \in {Yes(p, h), NotYes(p, h)},
             said' = IF s = Yes(p, h) THEN said \cup {<<h, c>>} ELSE said \ {<<h, c>>}
      PROVE  HonestInv'
  <2>1. /\ s.at = r.at /\ s.copy = r.copy /\ s.cid = c /\ s.queue = r.queue
        /\ s.todo = r.todo \ {h}
    BY <1>2, <1>7
  <2>2. Noted(r, index[c].held, said)
    BY <1>1, <1>7 DEF Honest
  <2>3. Noted(s, index[c].held, said')
    <3>1. CASE s = Yes(p, h)
      BY <1>1, <1>3, <1>7, <2>1, <2>2, <3>1 DEF Noted
    <3>2. CASE s # Yes(p, h)
      <4>1. s.got = r.got /\ said' = said \ {<<h, c>>}
        BY <1>3, <1>7, <3>2
      <4> QED BY <1>1, <2>1, <2>2, <4>1 DEF Noted
    <3> QED BY <3>1, <3>2
  <2>4. CASE r.at = "probe"
    <3>1. Honest(s, index, said')
      BY <2>1, <2>3, <2>4 DEF Honest
    <3> QED BY <1>1, <1>7, <3>1, HonestStep
  <2>5. CASE r.at = "audit"
    <3>1. Worked(s, c, index, said')
      BY <1>1, <2>1, <2>5 DEF Honest, Worked, Ahead
    <3>2. \A g, b : b # c => (<<g, b>> \in said' <=> <<g, b>> \in said)
      BY <1>7
    <3>3. \A d \in Cids : Worked(s, d, index, said')
      BY <1>4, <2>1, <2>5, <3>1, <3>2
    <3>4. Honest(s, index, said')
      BY <1>1, <2>1, <2>3, <2>5, <3>3 DEF Honest
    <3> QED BY <1>1, <1>7, <3>4, HonestStep
  <2> QED BY <1>7, <2>4, <2>5
<1>8. CASE Pass(p, h)
  BY <1>7, <1>8 DEF Pass, Examining
<1>9. CASE Fail(p, h)
  <2>1. NotYes(p, h) # Yes(p, h)
    <3>1. h \notin r.got
      BY <1>1, <1>9 DEF Fail, Examining, Honest, Noted
    <3> QED BY <1>3, <3>1
  <2> QED BY <1>7, <1>9, <2>1 DEF Fail, Examining
<1>10. CASE Release(p, h) \/ ReleaseFails(p, h)
  <2>1. run' = [run EXCEPT ![p] = NotYes(p, h)] /\ r.at = "release"
    BY <1>10 DEF Release, ReleaseFails, Releasing
  <2>2. Honest(NotYes(p, h), index', said')
    BY <1>2, <2>1 DEF Honest
  <2> QED BY <1>1, <2>1, <2>2, HonestStep
<1>11. CASE Pay(p, h)
  <2> DEFINE s == NotYes(p, h)
  <2>1. run' = [run EXCEPT ![p] = s] /\ r.at = "pay" /\ said' = said
    BY <1>11 DEF Pay
  <2>2. /\ s.at = r.at /\ s.copy = r.copy /\ s.cid = c /\ s.queue = r.queue
        /\ s.got = r.got
    BY <1>2, <1>3
  <2> HIDE DEF s
  <2>3. \A d \in Cids : Worked(s, d, index, said)
    BY <1>1, <2>1, <2>2 DEF Honest, Worked, Ahead
  <2>4. Honest(s, index', said')
    BY <1>1, <2>1, <2>2, <2>3 DEF Honest
  <2> QED BY <1>1, <2>1, <2>4, HonestStep
<1> QED BY <1>5, <1>6, <1>8, <1>9, <1>10, <1>11 DEF Exchange

LEMMA CommandHonest ==
    ASSUME "overlap" \notin Slips, AccountInv, HonestInv,
           NEW p \in Procs, Commands(p)
    PROVE  HonestInv'
<1>1. /\ run[p] \in RunFields /\ OnlyActs(p) /\ run \in [Procs -> RunFields]
      /\ index \in Indexes /\ Honest(run[p], index, said)
  <2>1. run[p].at # "idle" \/ \E cmd : MayStart(p, cmd)
    BY DEF Commands, AddStart, RenewStart, Rm, RmLocal, StatusStart, Examine, PassStart
  <2> QED BY <2>1, ActsAlone DEF AccountInv, IndexInv, IndexTypeOK, HonestInv
<1>2. CASE \E c \in Cids, t \in Terms : AddStart(p, c, t)
  <2>1. PICK c \in Cids, t \in Terms, hs \in Selections(Desired, {}) :
            run' = [run EXCEPT ![p] = [Idle EXCEPT !.at = "add", !.cid = c,
                                         !.terms = t, !.copy = index, !.todo = hs]]
    BY <1>2 DEF AddStart
  <2> DEFINE s == [Idle EXCEPT !.at = "add", !.cid = c, !.terms = t,
                               !.copy = index, !.todo = hs]
  <2>2. s.at = "add" /\ s.copy = index /\ s.got = {}
    BY DEF Idle
  <2>3. index' = index
    BY <1>2 DEF AddStart
  <2> HIDE DEF s
  <2>4. Honest(s, index', said')
    BY <2>2, <2>3 DEF Honest
  <2> QED BY <1>1, <2>1, <2>4, HonestStep DEF s
<1>3. CASE \E c \in Cids, t \in Terms : RenewStart(p, c, t)
  <2>1. PICK c \in Cids, t \in Terms : RenewStart(p, c, t)
    BY <1>3
  <2> DEFINE s == [Idle EXCEPT !.at = "renew", !.cid = c, !.terms = t, !.copy = index]
  <2>2. s.at = "renew" /\ s.cid = c /\ s.copy = index
    BY DEF Idle
  <2>3. index' = index /\ index[c] # Absent /\ run' = [run EXCEPT ![p] = s]
    BY <2>1 DEF RenewStart
  <2> HIDE DEF s
  <2>4. Honest(s, index', said')
    BY <2>2, <2>3 DEF Honest
  <2> QED BY <1>1, <2>3, <2>4, HonestStep
<1>4. CASE \E c \in Cids : StatusStart(p, c)
  <2>1. PICK c \in Cids, advertised \in SUBSET Hosts :
            run' = [run EXCEPT ![p] = [Idle EXCEPT !.at = "probe", !.cid = c,
                                         !.todo = advertised \cup index[c].held]]
    BY <1>4 DEF StatusStart
  <2> DEFINE s == [Idle EXCEPT !.at = "probe", !.cid = c,
                               !.todo = advertised \cup index[c].held]
  <2>2. /\ s.at = "probe" /\ s.cid = c /\ s.got = {}
        /\ s.todo = advertised \cup index[c].held
    BY DEF Idle
  <2>3. index' = index
    BY <1>4 DEF StatusStart
  <2> HIDE DEF s
  <2>4. Noted(s, index'[c].held, said')
    BY <2>2, <2>3 DEF Noted
  <2>5. Honest(s, index', said')
    BY <2>2, <2>4 DEF Honest
  <2> QED BY <1>1, <2>1, <2>5, HonestStep DEF s
<1>5. CASE PassStart(p)
  <2> DEFINE s == [Idle EXCEPT !.at = "pick", !.copy = index, !.queue = Listed(index)]
  <2>1. s.at = "pick" /\ s.copy = index /\ s.queue = Listed(index) /\ s.got = {}
    BY DEF Idle
  <2>2. index' = index /\ run' = [run EXCEPT ![p] = s]
    BY <1>5 DEF PassStart
  <2> HIDE DEF s
  <2>3. ASSUME NEW d \in Cids
        PROVE  Worked(s, d, index', said')
    <3>1. CASE d \in Listed(index)
      BY <2>1, <2>2, <3>1 DEF Worked, Ahead
    <3>2. CASE d \notin Listed(index)
      <4>1. index[d] = Absent /\ ~Ahead(s, d)
        BY <2>1, <3>2 DEF Listed, Ahead
      <4>2. Answered(Absent, d, said')
        BY DEF Answered, Absent
      <4> QED BY <2>1, <2>2, <4>1, <4>2 DEF Worked
    <3> QED BY <3>1, <3>2
  <2>4. Honest(s, index', said')
    BY <2>1, <2>3 DEF Honest
  <2> QED BY <1>1, <2>2, <2>4, HonestStep
<1>6. CASE \E c \in Cids : Rm(p, c) \/ RmLocal(p, c)
  <2>1. PICK s : run' = [run EXCEPT ![p] = s] /\ s.at \in {"release", "idle"}
    <3>1. CASE \E c \in Cids : Rm(p, c)
      <4>1. PICK c \in Cids : Rm(p, c)
        BY <3>1
      <4> DEFINE s == [Idle EXCEPT !.at = "release", !.cid = c, !.todo = index[c].held]
      <4>2. s.at = "release"
        BY DEF Idle
      <4> QED BY <4>1, <4>2 DEF Rm
    <3>2. CASE \E c \in Cids : RmLocal(p, c)
      <4>1. run' = [run EXCEPT ![p] = run[p]] /\ run[p].at = "idle"
        BY <1>1, <3>2 DEF RmLocal, MayStart
      <4> QED BY <4>1
    <3> QED BY <1>6, <3>1, <3>2
  <2>2. Honest(s, index', said')
    BY <2>1 DEF Honest
  <2> QED BY <1>1, <2>1, <2>2, HonestStep
<1>7. CASE \E c \in Cids : Examine(p, c)
  <2>1. PICK c \in Cids : Examine(p, c)
    BY <1>7
  <2> DEFINE r == run[p]
             s == [r EXCEPT !.at = "audit", !.cid = c, !.queue = @ \ {c},
                            !.terms = r.copy[c].terms, !.todo = r.copy[c].held]
  <2>2. run' = [run EXCEPT ![p] = s] /\ UNCHANGED <<index, said>>
    BY <1>1, <2>1 DEF Examine
  <2>3. /\ s.at = "audit" /\ s.cid = c /\ s.copy = r.copy /\ s.queue = r.queue \ {c}
        /\ s.todo = r.copy[c].held /\ s.got = r.got
    BY <1>1 DEF RunFields
  <2>4. r.at = "pick" /\ c \in r.queue
    BY <2>1 DEF Examine
  <2> HIDE DEF s
  <2>5. r.got = {} /\ r.copy[c] = index[c]
    BY <1>1, <2>4 DEF Honest, Worked, Ahead
  <2>6. Noted(s, index[c].held, said)
    BY <2>3, <2>5 DEF Noted
  <2>7. \A d \in Cids : Worked(s, d, index, said)
    BY <1>1, <2>3, <2>4 DEF Honest, Worked, Ahead
  <2>8. Honest(s, index', said')
    BY <2>2, <2>3, <2>6, <2>7 DEF Honest
  <2> QED BY <1>1, <2>2, <2>8, HonestStep
<1> QED BY <1>2, <1>3, <1>4, <1>5, <1>6, <1>7 DEF Commands

(* A pass is done with pin c, for which e is now on its copy.               *)
LEMMA OnToHonest ==
    ASSUME AccountInv, HonestInv, NEW p \in Procs, OnlyActs(p),
           run[p].at \in {"pay", "place"}, NEW e \in Entries,
           run' = [run EXCEPT ![p] = OnTo(p, e)], UNCHANGED <<index, said>>,
           Answered(e, run[p].cid, said),
           e.terms = index[run[p].cid].terms,
           index[run[p].cid].held \subseteq e.held,
           \/ e.held = index[run[p].cid].held
           \/ Cardinality(e.ok) <= Desired
    PROVE  HonestInv'
<1> DEFINE r == run[p]
           c == r.cid
           s == OnTo(p, e)
<1>1. r \in RunFields /\ r.copy \in Indexes /\ c \in Cids
  BY RunFacts DEF AccountInv, Carries
<1>2. Honest(r, index, said) /\ c \notin r.queue
  BY DEF HonestInv, Honest
<1>3. /\ s.at = "pick" /\ s.queue = r.queue /\ s.got = {}
      /\ s.copy = [r.copy EXCEPT ![c] = e]
  BY <1>1 DEF OnTo, RunFields
<1> HIDE DEF s
<1>4. s.copy[c] = e /\ \A d \in Cids \ {c} : s.copy[d] = r.copy[d]
  BY <1>1, <1>3 DEF Indexes
<1>5. Worked(s, c, index, said)
  BY <1>2, <1>3, <1>4 DEF Worked, Ahead
<1>6. ASSUME NEW d \in Cids \ {c}
      PROVE  Worked(s, d, index, said)
  <2>1. Worked(r, d, index, said)
    BY <1>2 DEF Honest
  <2>2. (Ahead(s, d) <=> Ahead(r, d)) /\ s.copy[d] = r.copy[d]
    BY <1>3, <1>4 DEF Ahead
  <2> HIDE DEF r, c
  <2> QED BY <2>1, <2>2, SameWork
<1>7. \A d \in Cids : Worked(s, d, index, said)
  BY <1>5, <1>6
<1>8. Honest(s, index', said')
  BY <1>3, <1>7 DEF Honest
<1> QED BY <1>8, HonestStep DEF s

LEMMA SelectionsFit ==
    ASSUME NEW n \in Nat, NEW ex, NEW hs \in Selections(n, ex)
    PROVE  Cardinality(hs) \in Nat /\ Cardinality(hs) <= n
<1>1. PICK k \in 0 .. n : hs \in kSubset(k, Hosts \ ex)
  BY DEF Selections
<1> QED BY <1>1 DEF kSubset

LEMMA ConcludeHonest ==
    ASSUME "overlap" \notin Slips, AccountInv, HonestInv,
           NEW p \in Procs, Conclude(p)
    PROVE  HonestInv'
<1> DEFINE r == run[p]
           c == r.cid
<1>0. /\ r \in RunFields /\ r.copy \in Indexes /\ index \in Indexes
      /\ Honest(r, index, said) /\ said' = said /\ OnlyActs(p)
      /\ r.todo \in SUBSET Hosts /\ r.got \in SUBSET Hosts
  <2>1. said' = said /\ run[p].at # "idle"
    BY DEF Conclude, AddSave, RmEnd, RenewSave, StatusSave, Audited, Plan, Placed,
           PassSave, Asked
  <2> QED BY <2>1, RunFacts, ActsAlone
          DEF AccountInv, IndexInv, IndexTypeOK, HonestInv
<1>1. CASE run' = [run EXCEPT ![p] = Idle]
  <2>1. Honest(Idle, index', said')
    BY DEF Honest, Idle
  <2> QED BY <1>0, <1>1, <2>1, HonestStep
<1>2. CASE AddSave(p) \/ RmEnd(p) \/ RenewSave(p) \/ StatusSave(p) \/ PassSave(p)
  BY <1>1, <1>2 DEF AddSave, RmEnd, RenewSave, StatusSave, PassSave
<1>3. ASSUME r.at \in {"audit", "pay", "place"}
      PROVE  /\ c \in Cids /\ c \notin r.queue
             /\ Worked(r, c, index, said) /\ r.copy[c] \in Entries
  <2>1. c \in Cids
    BY <1>3, RunFacts DEF AccountInv, Carries
  <2> QED BY <1>0, <1>3, <2>1 DEF Honest, Indexes
<1>4. CASE Audited(p)
  <2> DEFINE e == Marked(r.copy[c], r.got)
             hs == Payees(r.copy[c])
             s == [r EXCEPT !.at = "pay", !.copy = [r.copy EXCEPT ![c] = e],
                            !.todo = hs]
  <2>1. r.at = "audit" /\ r.todo = {} /\ index' = index /\ run' = [run EXCEPT ![p] = s]
    BY <1>0, <1>4 DEF Audited, Asked, RunFields
  <2>2. c \in Cids /\ c \notin r.queue /\ r.copy[c] = index[c] /\ index[c] \in Entries
    BY <1>0, <1>3, <2>1 DEF Worked, Ahead
  <2>3. e.held = index[c].held /\ e.terms = index[c].terms /\ e.ok = e.held \cap r.got
    <3>1. e.held = index[c].held /\ e.terms = index[c].terms
      BY <2>2, MarkedEntry
    <3>2. e.ok = index[c].held \cap r.got
      BY <2>2, EntryFacts DEF Marked, EntryFields
    <3> QED BY <3>1, <3>2
  <2> HIDE DEF e, hs
  <2>4. /\ s.at = "pay" /\ s.cid = c /\ s.queue = r.queue /\ s.got = r.got
        /\ s.copy[c] = e /\ \A d \in Cids \ {c} : s.copy[d] = r.copy[d]
    BY <1>0, <2>2 DEF RunFields, Indexes
  <2> HIDE DEF s
  <2>5. Noted(r, index[c].held, said)
    BY <1>0, <2>1 DEF Honest
  <2>6. Worked(s, c, index, said)
    <3>1. Answered(e, c, said)
      BY <2>1, <2>3, <2>5 DEF Answered, Noted
    <3> QED BY <2>2, <2>3, <2>4, <3>1 DEF Worked, Ahead
  <2>7. ASSUME NEW d \in Cids \ {c}
        PROVE  Worked(s, d, index, said)
    <3>1. Worked(r, d, index, said)
      BY <1>0, <2>1 DEF Honest
    <3>2. (Ahead(s, d) <=> Ahead(r, d)) /\ s.copy[d] = r.copy[d]
      BY <2>1, <2>4 DEF Ahead
    <3> HIDE DEF r, c
    <3> QED BY <3>1, <3>2, SameWork
  <2>8. \A d \in Cids : Worked(s, d, index, said)
    BY <2>6, <2>7
  <2>9. Honest(s, index', said')
    BY <1>0, <2>1, <2>2, <2>3, <2>4, <2>8 DEF Honest
  <2> QED BY <1>0, <2>1, <2>9, HonestStep
<1>5. CASE Plan(p)
  <2>1. /\ r.at = "pay" /\ UNCHANGED <<index, said>>
        /\ \E hs \in Selections(Shortfall(r.copy[c], r.got), r.copy[c].held) :
              run' = [run EXCEPT ![p] =
                         IF hs = {} THEN OnTo(p, r.copy[c])
                         ELSE [r EXCEPT !.at = "place", !.todo = hs, !.got = {}]]
    BY <1>5 DEF Plan, Asked
  <2>2. PICK hs \in Selections(Shortfall(r.copy[c], r.got), r.copy[c].held) :
              run' = [run EXCEPT ![p] =
                         IF hs = {} THEN OnTo(p, r.copy[c])
                         ELSE [r EXCEPT !.at = "place", !.todo = hs, !.got = {}]]
    BY <2>1
  <2>3. /\ Worked(r, c, index, said) /\ ~Ahead(r, c) /\ r.copy[c] \in Entries
        /\ c \in Cids /\ c \notin r.queue
        /\ r.copy[c].ok = r.copy[c].held \cap r.got
    BY <1>0, <1>3, <2>1 DEF Honest, Ahead
  <2>4. CASE hs = {}
    <3>1. run' = [run EXCEPT ![p] = OnTo(p, r.copy[c])]
      BY <2>2, <2>4
    <3>2. /\ Answered(r.copy[c], c, said) /\ r.copy[c].terms = index[c].terms
          /\ index[c].held \subseteq r.copy[c].held
          /\ \/ r.copy[c].held = index[c].held
             \/ Cardinality(r.copy[c].ok) <= Desired
      BY <2>3 DEF Worked
    <3>3. r.at \in {"pay", "place"} /\ r.copy[c] \in Entries /\ OnlyActs(p)
      BY <1>0, <2>1, <2>3
    <3> QED BY <2>1, <3>1, <3>2, <3>3, OnToHonest
  <2>5. CASE hs # {}
    <3> DEFINE s == [r EXCEPT !.at = "place", !.todo = hs, !.got = {}]
    <3>1. run' = [run EXCEPT ![p] = s]
      BY <2>2, <2>5
    <3>2. /\ s.at = "place" /\ s.cid = c /\ s.queue = r.queue /\ s.got = {}
          /\ s.todo = hs /\ s.copy = r.copy
      BY <1>0 DEF RunFields
    <3> HIDE DEF s
    <3>3. Cardinality(r.copy[c].ok) + Cardinality(hs) <= Desired
      <4> DEFINE healthy == Cardinality(r.copy[c].ok)
      <4>1. healthy \in Nat
        BY <2>3, EntryFacts, HostCount
      <4>2. Shortfall(r.copy[c], r.got) = IF healthy < Desired THEN Desired - healthy ELSE 0
        BY <2>3 DEF Shortfall
      <4> HIDE DEF healthy
      <4>3. Shortfall(r.copy[c], r.got) \in Nat
        BY <4>1, <4>2, IndexAssumption
      <4>4. Cardinality(hs) \in Nat /\ Cardinality(hs) <= Shortfall(r.copy[c], r.got)
        BY <4>3, SelectionsFit
      <4>5. Cardinality(hs) # 0
        <5>1. hs \in SUBSET Hosts
          BY SelectionsAreHosts
        <5>2. IsFiniteSet(hs)
          BY <5>1, HostCount
        <5> QED BY <2>5, <5>2, FS_EmptySet
      <4> QED BY <4>1, <4>2, <4>4, <4>5, IndexAssumption DEF healthy
    <3>4. Offered(s, s.copy[c], said)
      <4>1. hs \cap r.copy[c].held = {} /\ s.got \cup s.todo = hs
        BY <3>2, SelectionsAreHosts
      <4> QED BY <3>2, <3>3, <4>1 DEF Offered
    <3>5. \A d \in Cids : Worked(s, d, index, said)
      BY <1>0, <2>1, <3>2 DEF Honest, Worked, Ahead
    <3>6. Honest(s, index', said')
      BY <2>1, <2>3, <3>2, <3>4, <3>5 DEF Honest
    <3> QED BY <1>0, <3>1, <3>6, HonestStep
  <2> QED BY <2>4, <2>5
<1>6. CASE Placed(p)
  <2> DEFINE e == Grown(r.copy[c], r.got, r.chan)
  <2>1. /\ r.at = "place" /\ r.todo = {} /\ UNCHANGED <<index, said>>
        /\ run' = [run EXCEPT ![p] = OnTo(p, e)]
        /\ c \in Cids /\ r.copy[c] \in Entries /\ r.copy[c].terms # NoTerms
        /\ r.got \in SUBSET Hosts /\ r.chan \in SUBSET r.got
    BY <1>3, <1>6, RunFacts DEF Placed, Asked, AccountInv, Carries
  <2>2. Offered(r, r.copy[c], said) /\ Worked(r, c, index, said) /\ ~Ahead(r, c)
    BY <1>0, <1>3, <2>1 DEF Honest, Ahead
  <2>3. /\ e \in Entries /\ e.held = r.copy[c].held \cup r.got
        /\ e.terms = r.copy[c].terms
    BY ZenonT(60), <2>1, GrownEntry
  <2>4. e.ok = r.copy[c].ok \cup r.got
    <3>1. e.ok = r.copy[c].ok \cup (r.got \ r.copy[c].held)
      BY <2>1, EntryFacts DEF Grown, EntryFields
    <3> QED BY <2>2, <3>1 DEF Offered
  <2> HIDE DEF e
  <2>5. Answered(e, c, said)
    <3>1. r.got \X {c} \subseteq said
      BY <2>2 DEF Offered
    <3>2. r.copy[c].ok = {h \in r.copy[c].held : <<h, c>> \in said}
      BY <2>2 DEF Worked, Answered
    <3> QED BY <2>3, <2>4, <3>1, <3>2 DEF Answered
  <2>6. Cardinality(e.ok) <= Desired
    <3>1. r.copy[c].ok \in SUBSET Hosts
      BY <2>1, EntryFacts
    <3>2. /\ Cardinality(r.copy[c].ok) \in Nat /\ Cardinality(r.got) \in Nat
          /\ Cardinality(e.ok) \in Nat
          /\ Cardinality(e.ok) <= Cardinality(r.copy[c].ok) + Cardinality(r.got)
      BY <2>1, <2>4, <3>1, HostCount, UnionCount
    <3>3. Cardinality(r.copy[c].ok) + Cardinality(r.got) <= Desired
      <4>1. r.got \cup r.todo = r.got
        BY <2>1
      <4> QED BY <2>2, <4>1 DEF Offered
    <3> QED BY <3>2, <3>3, IndexAssumption
  <2>7. e.terms = index[c].terms /\ index[c].held \subseteq e.held
    BY <2>2, <2>3 DEF Worked
  <2> QED BY <1>0, <2>1, <2>3, <2>5, <2>6, <2>7, OnToHonest
<1> QED BY <1>2, <1>4, <1>5, <1>6 DEF Conclude

LEMMA WorldHonest ==
    ASSUME AccountInv, HonestInv, "overlap" \notin Slips,
           \/ \E p \in Procs : Kill(p)
           \/ \E h \in Hosts, c \in Cids : Drop(h, c)
    PROVE  HonestInv'
<1>1. CASE \E p \in Procs : Kill(p)
  <2>1. PICK p \in Procs : Kill(p)
    BY <1>1
  <2>2. OnlyActs(p) /\ run' = [run EXCEPT ![p] = Idle]
    BY <2>1, ActsAlone DEF Kill
  <2>3. Honest(Idle, index', said')
    BY DEF Honest, Idle
  <2> QED BY <2>2, <2>3, HonestStep
<1>2. CASE \E h \in Hosts, c \in Cids : Drop(h, c)
  BY <1>2 DEF Drop, HonestInv
<1> QED BY <1>1, <1>2

LEMMA HonestNext ==
    ASSUME "overlap" \notin Slips, AccountInv, HonestInv, [Next]_indexVars
    PROVE  HonestInv'
<1>1. CASE UNCHANGED indexVars
  BY <1>1 DEF indexVars, HonestInv
<1>2. CASE Next
  BY <1>2, CommandHonest, ConcludeHonest, ExchangeHonest, WorldHonest DEF Next
<1> QED BY <1>1, <1>2

LEMMA HonestSafe ==
    ASSUME "overlap" \notin Slips
    PROVE  Spec => [](AccountInv /\ HonestInv)
<1>1. Init => AccountInv /\ HonestInv
  <2> SUFFICES ASSUME Init PROVE HonestInv
    BY AccountInit
  <2>1. Idle.at = "idle" /\ \A p \in Procs : run[p] = Idle
    BY DEF Init, Idle
  <2> QED BY <2>1 DEF HonestInv, Honest
<1>2. AccountInv /\ HonestInv /\ [Next]_indexVars => (AccountInv /\ HonestInv)'
  BY AccountNext, HonestNext
<1> QED BY <1>1, <1>2, PTL DEF Spec

(* The health a process saves is what each holder itself answered last,     *)
(* through any number of audits, probes, refusals and kills, while          *)
(* processes do not overlap (cmd_add, cmd_status, repair_once).             *)
THEOREM HealthIsOwn ==
    ASSUME "overlap" \notin Slips
    PROVE  Spec => HealthIsOwnAnswer
<1> DEFINE A(p, c) == (PassSave(p) \/ ((AddSave(p) \/ StatusSave(p)) /\ run[p].cid = c))
                         => index'[c].ok = {h \in index'[c].held : <<h, c>> \in said}
<1>1. ASSUME AccountInv, HonestInv, NEW p \in Procs, NEW c \in Cids
      PROVE  A(p, c)
  <2> DEFINE r == run[p]
  <2>1. /\ Honest(r, index, said) /\ r.copy \in Indexes /\ index \in Indexes
        /\ index[c] \in Entries
    BY <1>1, RunFacts DEF AccountInv, IndexInv, IndexTypeOK, HonestInv, Indexes
  <2>2. CASE PassSave(p)
    <3>1. r.at = "pick" /\ r.queue = {} /\ index' = r.copy
      BY <2>2 DEF PassSave
    <3> QED BY <2>1, <3>1 DEF Honest, Worked, Ahead, Answered
  <2>3. CASE AddSave(p) /\ r.cid = c
    <3> DEFINE new == [terms |-> r.terms, held |-> r.got, ok |-> r.got, chan |-> r.chan]
    <3>1. r.at = "add" /\ index' = [r.copy EXCEPT ![c] = new]
      BY <2>3 DEF AddSave, Asked
    <3>2. index'[c].held = r.got /\ index'[c].ok = r.got
      BY <2>1, <3>1 DEF Indexes
    <3>3. r.got \X {c} \subseteq said
      BY <2>1, <2>3, <3>1 DEF Honest
    <3> QED BY <3>2, <3>3
  <2>4. CASE StatusSave(p) /\ r.cid = c
    <3>1. /\ r.at = "probe" /\ r.todo = {}
          /\ index' = [index EXCEPT ![c] = Marked(index[c], r.got)]
      BY <2>4 DEF StatusSave, Asked
    <3>2. /\ index'[c].held = index[c].held
          /\ index'[c].ok = index[c].held \cap r.got
      BY <2>1, <3>1, EntryFacts DEF Indexes, Marked, EntryFields
    <3>3. Noted(r, index[c].held, said)
      BY <2>1, <2>4, <3>1 DEF Honest
    <3> QED BY <2>4, <3>1, <3>2, <3>3 DEF Noted
  <2> QED BY <2>2, <2>3, <2>4
<1>2. AccountInv /\ HonestInv /\ [Next]_indexVars
          => [\A p \in Procs, c \in Cids : A(p, c)]_indexVars
  BY <1>1
<1> QED BY <1>2, HonestSafe, PTL DEF Spec, HealthIsOwnAnswer

(* A pass that makes a pin grow ends with no more than the desired number   *)
(* healthy, for any number of hosts and any factor, whoever declines or     *)
(* answers late (repair_plan and the loop of repair_once after it).         *)
THEOREM NeverOver ==
    ASSUME "overlap" \notin Slips
    PROVE  Spec => NeverOverPlaces
<1> DEFINE A(p) == PassSave(p) =>
                       \A c \in Cids : \/ index'[c].held \subseteq index[c].held
                                       \/ Cardinality(index'[c].ok) <= Desired
<1>1. ASSUME AccountInv, HonestInv, NEW p \in Procs
      PROVE  A(p)
  <2>1. ASSUME PassSave(p), NEW c \in Cids
        PROVE  \/ index'[c].held \subseteq index[c].held
               \/ Cardinality(index'[c].ok) <= Desired
    <3>1. run[p].at = "pick" /\ run[p].queue = {} /\ index' = run[p].copy
      BY <2>1 DEF PassSave
    <3>2. Worked(run[p], c, index, said) /\ ~Ahead(run[p], c)
      BY <1>1, <3>1 DEF HonestInv, Honest, Ahead
    <3> QED BY <3>1, <3>2 DEF Worked
  <2> QED BY <2>1
<1>2. AccountInv /\ HonestInv /\ [Next]_indexVars
          => [\A p \in Procs : A(p)]_indexVars
  BY <1>1
<1> QED BY <1>2, HonestSafe, PTL DEF Spec, NeverOverPlaces

LEMMA WhoWrites ==
    ASSUME Next
    PROVE  \/ index' = index
           \/ \E p \in Procs :
                  \/ AddSave(p) \/ RenewSave(p) \/ StatusSave(p) \/ PassSave(p)
                  \/ \E c \in Cids : Rm(p, c) \/ RmLocal(p, c)
<1>1. CASE \E p \in Procs : Commands(p)
  <2>1. \A p \in Procs, c \in Cids, t \in Terms :
            AddStart(p, c, t) \/ RenewStart(p, c, t) => index' = index
    BY DEF AddStart, RenewStart
  <2>2. \A p \in Procs, c \in Cids :
            StatusStart(p, c) \/ Examine(p, c) => index' = index
    BY DEF StatusStart, Examine
  <2>3. \A p \in Procs : PassStart(p) => index' = index
    BY DEF PassStart
  <2> QED BY <1>1, <2>1, <2>2, <2>3 DEF Commands
<1>2. CASE \E p \in Procs : Conclude(p)
  BY <1>2 DEF Conclude, RmEnd, Audited, Plan, Placed
<1>3. CASE \E p \in Procs, h \in Hosts : Exchange(p, h)
  BY <1>3 DEF Exchange, Accept, Decline, LoseAcceptance, Pass, Fail, Release,
              ReleaseFails, Pay
<1>4. CASE \/ \E p \in Procs : Kill(p)
           \/ \E h \in Hosts, c \in Cids : Drop(h, c)
  BY <1>4 DEF Kill, Drop
<1> QED BY <1>1, <1>2, <1>3, <1>4 DEF Next

----------------------------------------------------------------------------
(* With overlap.  The copy a process will write back agrees with the index  *)
(* on every pin that no other has changed since it was loaded, but for      *)
(* holders the process has won itself.                                      *)

Current(r, ix, late) ==
    r.at \in Writers => /\ \A c \in Cids \ late : Fits(r, c, ix[c])
                        /\ r.at = "renew" => r.copy[r.cid] # Absent

CurrentInv == \A p \in Procs : Current(run[p], index, behind[p])

SharedTypeOK == behind \in [Procs -> SUBSET Cids]

SharedInv == IndexInv /\ NeatInv /\ SharedTypeOK /\ CurrentInv

LEMMA SharedInvInit == SharedInit => SharedInv
<1> SUFFICES ASSUME SharedInit PROVE SharedInv
  OBVIOUS
<1>1. IndexInv /\ SharedTypeOK
  BY IndexInvInit DEF SharedInit, SharedTypeOK
<1>2. \A p \in Procs : run[p] = Idle
  BY DEF SharedInit, Init
<1>3. Idle.at = "idle"
  BY DEF Idle
<1> QED BY <1>1, <1>2, <1>3, IdleIsNeat
        DEF SharedInv, NeatInv, CurrentInv, Current, Writers

LEMMA SharedInvStep ==
    ASSUME SharedInv, [SharedNext]_sharedVars
    PROVE  SharedInv'
<1>1. CASE UNCHANGED sharedVars
  <2>1. UNCHANGED indexVars /\ behind' = behind
    BY <1>1 DEF sharedVars
  <2>2. IndexInv'
    BY <2>1, IndexInvStep DEF SharedInv
  <2> QED BY <2>1, <2>2 DEF SharedInv, SharedTypeOK, NeatInv, CurrentInv, indexVars
<1>2. CASE SharedNext
  <2>1. IndexInv /\ Next /\ Follow /\ IndexInv'
    BY <1>2, IndexInvStep DEF SharedInv, SharedNext
  <2>2. SharedTypeOK'
    BY <2>1 DEF Follow, SharedInv, SharedTypeOK
  <2>3. ASSUME NEW p \in Procs
        PROVE  Current(run'[p], index', behind'[p])
    <3> SUFFICES ASSUME run'[p].at \in Writers
                 PROVE  Current(run'[p], index', behind'[p])
      BY DEF Current
    <3>1. Current(run[p], index, behind[p])
      BY DEF SharedInv, CurrentInv
    <3>2. behind'[p] = IF run[p].at \in Writers
                       THEN behind[p] \cup {c \in Cids : index'[c] # index[c]} ELSE {}
      BY <2>1 DEF Follow
    <3>3. CASE run'[p] = run[p]
      BY <3>1, <3>2, <3>3 DEF Current, Fits
    <3>4. CASE index' = index /\ Loads(p)
      BY <3>4 DEF Loads, Current, Fits
    <3>5. CASE index' = index /\ GoesOn(p)
      <4>1. behind'[p] = behind[p]
        BY <3>2, <3>5 DEF GoesOn, SharedInv, SharedTypeOK
      <4> QED BY <3>1, <3>5, <4>1 DEF GoesOn, Current, Fits
    <3> QED BY <2>1, <3>3, <3>4, <3>5, EachMoves DEF Moves
  <2>4. NeatInv'
    BY <2>1, EachMoves DEF SharedInv, NeatInv, Moves
  <2> QED BY <2>1, <2>2, <2>3, <2>4 DEF SharedInv, CurrentInv
<1> QED BY <1>1, <1>2

(* A save of a copy that fits c, and any step that is no save.              *)
LEMMA OwnWork ==
    ASSUME IndexInv, Next, NEW c \in Cids,
           \A p \in Procs : AddSave(p) \/ RenewSave(p) \/ PassSave(p) =>
                                Fits(run[p], c, index[c]),
           \A p \in Procs : RenewSave(p) => run[p].copy[run[p].cid] # Absent
    PROVE  ItsOwn(c)
<1>0. /\ index \in Indexes /\ index[c] \in Entries /\ Absent.terms = NoTerms
      /\ \A p \in Procs : run[p].copy \in Indexes /\ run[p].copy[c] \in Entries
  BY RunFacts DEF IndexInv, IndexTypeOK, Indexes, Absent
<1>1. CASE index'[c] = index[c]
  BY <1>1 DEF ItsOwn
<1>2. ASSUME index'[c] \in Entries, index'[c].terms = index[c].terms,
             index[c].held \subseteq index'[c].held
      PROVE  ItsOwn(c)
  <2>1. index[c] = Absent <=> index'[c] = Absent
    BY <1>0, <1>2, EntryFacts
  <2> QED BY <1>2, <2>1 DEF ItsOwn
<1>3. ASSUME NEW p \in Procs, Fits(run[p], c, index[c]), index'[c] = run[p].copy[c]
      PROVE  ItsOwn(c)
  BY <1>0, <1>2, <1>3 DEF Fits
<1>4. ASSUME NEW p \in Procs, AddSave(p)
      PROVE  ItsOwn(c)
  <2> DEFINE new == [terms |-> run[p].terms, held |-> run[p].got,
                     ok |-> run[p].got, chan |-> run[p].chan]
  <2>1. /\ index' = [run[p].copy EXCEPT ![run[p].cid] = new]
        /\ run[p].terms \in Terms
    BY <1>4, RunFacts DEF AddSave, Asked, Carries
  <2>2. CASE run[p].cid = c
    <3>1. index'[c].terms = run[p].terms
      BY <1>0, <2>1, <2>2 DEF Indexes
    <3>2. index'[c] # Absent
      BY <1>0, <2>1, <3>1, IndexAssumption
    <3> QED BY <1>4, <2>2, <3>2 DEF ItsOwn
  <2>3. CASE run[p].cid # c
    <3>1. index'[c] = run[p].copy[c]
      BY <1>0, <2>1, <2>3 DEF Indexes
    <3> QED BY <1>3, <1>4, <3>1
  <2> QED BY <2>2, <2>3
<1>5. ASSUME NEW p \in Procs, RenewSave(p)
      PROVE  ItsOwn(c)
  <2>1. /\ index' = [run[p].copy EXCEPT ![run[p].cid] =
                         [run[p].copy[run[p].cid] EXCEPT !.terms = run[p].terms]]
        /\ run[p].terms \in Terms /\ run[p].copy[run[p].cid] # Absent
        /\ Fits(run[p], c, index[c])
    BY <1>5, RunFacts DEF RenewSave, Asked, Carries
  <2>2. CASE run[p].cid = c
    <3> DEFINE e == run[p].copy[c]
    <3>1. index'[c] = [e EXCEPT !.terms = run[p].terms]
      BY <1>0, <2>1, <2>2 DEF Indexes
    <3>2. index'[c].terms = run[p].terms /\ index'[c].held = e.held
      BY <1>0, <3>1, EntryFacts DEF EntryFields
    <3>3. index'[c] # Absent /\ index[c] # Absent
      <4>1. e.terms # NoTerms
        BY <1>0, <2>1, <2>2, EntryFacts
      <4> QED BY <1>0, <2>1, <3>2, <4>1, IndexAssumption DEF Fits
    <3> HIDE DEF e
    <3>4. index[c].held \subseteq index'[c].held
      BY <2>1, <3>2 DEF Fits, e
    <3> QED BY <1>5, <2>2, <3>3, <3>4 DEF ItsOwn
  <2>3. CASE run[p].cid # c
    <3>1. index'[c] = run[p].copy[c]
      BY <1>0, <2>1, <2>3 DEF Indexes
    <3> QED BY <1>3, <2>1, <3>1
  <2> QED BY <2>2, <2>3
<1>6. ASSUME NEW p \in Procs, StatusSave(p)
      PROVE  ItsOwn(c)
  <2>1. index' = [index EXCEPT ![run[p].cid] = Marked(index[run[p].cid], run[p].got)]
    BY <1>6 DEF StatusSave
  <2>2. index'[c] \in {index[c], Marked(index[c], run[p].got)}
    BY <1>0, <2>1 DEF Indexes
  <2> QED BY <1>0, <1>1, <1>2, <2>2, MarkedEntry
<1>7. ASSUME NEW p \in Procs, PassSave(p)
      PROVE  ItsOwn(c)
  BY <1>3, <1>7 DEF PassSave
<1>8. ASSUME NEW p \in Procs, NEW d \in Cids, Rm(p, d) \/ RmLocal(p, d)
      PROVE  ItsOwn(c)
  <2>1. index' = [index EXCEPT ![d] = Absent] /\ index[d] # Absent
    BY <1>8 DEF Rm, RmLocal
  <2>2. CASE d = c
    <3>1. index'[c] = Absent /\ index[c] # Absent
      BY <1>0, <2>1, <2>2 DEF Indexes
    <3> QED BY <1>8, <2>2, <3>1 DEF ItsOwn
  <2>3. CASE d # c
    BY <1>0, <1>1, <2>1, <2>3 DEF Indexes
  <2> QED BY <2>2, <2>3
<1> QED BY <1>1, <1>4, <1>5, <1>6, <1>7, <1>8, WhoWrites

(* However add, rm, renew, status and repair passes overlap, are killed and *)
(* lose replies, a command's work is undone only by a save whose copy was   *)
(* loaded before that work was on disk: where no other process has changed  *)
(* a pin meanwhile, the whole-file save leaves it as it is or does what the *)
(* command is for (PinSet::save and its callers).                           *)
THEOREM LossIsByStaleSave == SharedSpec => OnlyLostUpdates
<1>1. SharedInit => SharedInv
  BY SharedInvInit
<1>2. SharedInv /\ [SharedNext]_sharedVars => SharedInv'
  BY SharedInvStep
<1>3. ASSUME SharedInv, SharedNext, NEW c \in Cids
      PROVE  ItsOwn(c) \/ LosesUpdate(c)
  <2> SUFFICES ASSUME ~LosesUpdate(c) PROVE ItsOwn(c)
    OBVIOUS
  <2>1. ASSUME NEW p \in Procs, AddSave(p) \/ RenewSave(p) \/ PassSave(p)
        PROVE  Fits(run[p], c, index[c])
    <3>1. run[p].at \in Writers /\ c \notin behind[p]
      BY <2>1 DEF LosesUpdate, AddSave, RenewSave, PassSave, Asked, Writers
    <3> QED BY <1>3, <3>1 DEF SharedInv, CurrentInv, Current
  <2>2. ASSUME NEW p \in Procs, RenewSave(p)
        PROVE  run[p].copy[run[p].cid] # Absent
    <3>1. run[p].at = "renew"
      BY <2>2 DEF RenewSave, Asked
    <3> QED BY <1>3, <3>1 DEF SharedInv, CurrentInv, Current, Writers
  <2> QED BY <1>3, <2>1, <2>2, OwnWork DEF SharedInv, SharedNext
<1>4. SharedInv /\ [SharedNext]_sharedVars =>
          [\A c \in Cids : ItsOwn(c) \/ LosesUpdate(c)]_sharedVars
  BY <1>3
<1> QED BY <1>1, <1>2, <1>4, PTL DEF SharedSpec, OnlyLostUpdates

(* What anyone knew of a kept replica before a step is known after it.      *)
LEMMA KnownStays ==
    ASSUME SharedInv, Next, NEW h \in Hosts, NEW c \in Cids,
           <<h, c>> \in kept, KnownOf(h, c), <<h, c>> \in kept', ~LosesUpdate(c)
    PROVE  KnownOf(h, c)'
<1>0. IndexInv /\ run \in [Procs -> RunFields]
  BY DEF SharedInv, IndexInv, IndexTypeOK
<1>1. CASE \E g \in Hosts, d \in Cids : Drop(g, d)
  BY <1>1 DEF Drop, KnownOf
<1>2. CASE \E p \in Procs : Acts(p)
  <2>1. PICK p \in Procs : Acts(p)
    BY <1>2
  <2>2. \A q \in Procs \ {p} : run'[q] = run[q]
    BY <1>0, <2>1, OneActs
  <2>3. ASSUME NEW q \in Procs \ {p}, Knows(run[q], h, c)
        PROVE  KnownOf(h, c)'
    BY <2>2, <2>3 DEF KnownOf
  <2>4. CASE Had(p, h, c)
    <3>1. ASSUME AddSave(p) \/ RenewSave(p) \/ PassSave(p)
          PROVE  index[c].held \subseteq run[p].copy[c].held
      <4>1. run[p].at \in Writers /\ c \notin behind[p]
        BY <3>1 DEF LosesUpdate, AddSave, RenewSave, PassSave, Asked, Writers
      <4> QED BY <4>1 DEF SharedInv, CurrentInv, Current, Fits
    <3>2. Tracked(p, h, c)
      BY <1>0, <2>1, <3>1, ActsTracks DEF SharedInv, NeatInv
    <3>3. Had(p, h, c)'
      BY <2>4, <3>2 DEF Tracked
    <3> QED BY <3>3 DEF Had, KnownOf
  <2> QED BY <2>3, <2>4 DEF KnownOf, Had
<1> QED BY <1>1, <1>2, ActsOrDrops

(* However processes overlap, are killed and lose replies, a host's replica *)
(* is only forgotten by the save of a copy that others have overtaken at    *)
(* its pin: never on its way from a reply to the file, from one process to  *)
(* another, or with a process that dies (repair_once and the commands).     *)
THEOREM ForgottenByStaleSave == SharedSpec => OnlyLostUpdatesForget
<1>1. SharedInit => SharedInv
  BY SharedInvInit
<1>2. SharedInv /\ [SharedNext]_sharedVars => SharedInv'
  BY SharedInvStep
<1>3. SharedInv /\ [SharedNext]_sharedVars =>
          [\A h \in Hosts, c \in Cids :
              <<h, c>> \in kept /\ KnownOf(h, c) /\ <<h, c>> \in kept' =>
                  KnownOf(h, c)' \/ LosesUpdate(c)]_sharedVars
  BY KnownStays DEF SharedNext
<1> QED BY <1>1, <1>2, <1>3, PTL DEF SharedSpec, OnlyLostUpdatesForget

=============================================================================
