------------------------------ MODULE PinIndex ------------------------------
(***************************************************************************)
(* pins.json, the publisher's index of what it pinned and where, and the   *)
(* processes that write it: the commands add, rm, renew and status         *)
(* (main.rs) and the repair daemon (repair.rs).  Each is a process of its  *)
(* own that loads the file, talks to hosts for minutes, and writes the     *)
(* file whole; an action is the stretch from one await to the next.  Of a  *)
(* host, modelled in PinHost, only what it keeps and answers is left here. *)
(***************************************************************************)
EXTENDS FiniteSets, FiniteSetsExt, Naturals

CONSTANTS
    Cids,       \* content identifiers
    Hosts,      \* nodes that may hold replicas
    Desired,    \* --replication, the same for every pin
    Terms,      \* what an add or a renew may agree: a rent and an expiry
    PaidTerms,  \* those with a rent and an expiry above zero
    Procs,      \* ce-pin processes
    Cmds,       \* the commands given: "add", "rm", "renew", "status", "watch"
    Slips,      \* what may go wrong: "kill" a process, "lost" replies,
                \* "deaf" hosts that do not answer, adding "again" what is
                \* on record, "overlap" of processes
    NoCid, NoTerms,
    MaxDrops    \* bound: how often hosts lose a replica

ASSUME IndexAssumption ==
    /\ IsFiniteSet(Hosts)
    /\ Desired \in Nat /\ MaxDrops \in Nat
    /\ PaidTerms \subseteq Terms
    /\ NoCid \notin Cids
    /\ NoTerms \notin Terms

VARIABLES
    index,  \* pins.json
    run,    \* each process: where it is and what it holds in memory
    kept,   \* the replicas hosts hold for this publisher: <<host, cid>>
    drops,  \* how many of them hosts have lost

    \* History, read by no action:
    said,   \* <<host, cid>> whose last audit, probe or offer was answered yes
    stray   \* replicas off the record for a reason the code accepts

indexVars == <<index, run, kept, drops, said, stray>>

----------------------------------------------------------------------------
(* An Entry: the holders of its replicas, those with last_proof_ok and      *)
(* those with a channel id.  One without terms is not in the map.           *)

EntryFields == [terms : Terms \cup {NoTerms}, held : SUBSET Hosts,
                ok : SUBSET Hosts, chan : SUBSET Hosts]

Absent == [terms |-> NoTerms, held |-> {}, ok |-> {}, chan |-> {}]

Entries == {e \in EntryFields :
                /\ e.ok \subseteq e.held
                /\ e.chan \subseteq e.held
                /\ e.terms = NoTerms => e = Absent}

Indexes == [Cids -> Entries]

Listed(ix) == {c \in Cids : ix[c] # Absent}

(* Mutant: a pin counts as healthy everywhere if any replica is.            *)
MarkedTogether(e, passed) ==
    [e EXCEPT !.ok = IF passed \cap e.held = {} THEN {} ELSE e.held]

(* Mutant: whoever passed is noted, on record or not.                       *)
MarkedAll(e, passed) == [e EXCEPT !.ok = passed]

(* Each replica is healthy iff its own holder passed.                       *)
Marked(e, passed) == [e EXCEPT !.ok = e.held \cap passed]

(* Mutant: new replicas take the place of the old ones.                     *)
GrownAfresh(e, hs, chans) == [e EXCEPT !.held = hs, !.ok = hs, !.chan = chans]

(* New replicas join those on record; a known holder is not entered twice.  *)
Grown(e, hs, chans) ==
    LET new == hs \ e.held
    IN  [e EXCEPT !.held = @ \cup new,
                  !.ok = @ \cup new,
                  !.chan = @ \cup (chans \cap new)]

(* Mutant: repair_plan asks for the full factor.                            *)
ShortfallFull(e, passed) == Desired

(* Mutant: a replica on record counts, dead or alive.                       *)
ShortfallRecorded(e, passed) ==
    LET recorded == Cardinality(e.held)
    IN  IF recorded < Desired THEN Desired - recorded ELSE 0

(* repair_plan.to_place *)
Shortfall(e, passed) ==
    LET healthy == Cardinality(e.held \cap passed)
    IN  IF healthy < Desired THEN Desired - healthy ELSE 0

(* What select returns: at most n of the hosts that the atlas happens to    *)
(* list, none of them excluded.                                             *)
Selections(n, exclude) ==
    UNION {kSubset(k, Hosts \ exclude) : k \in 0 .. n}

(* Who pay_rent_for pays, going by an entry it is given.                    *)
Payees(e) == IF e.terms \in PaidTerms THEN e.chan \cap e.ok ELSE {}

----------------------------------------------------------------------------
(* Processes *)

Steps == {"idle", "add", "release", "renew", "probe",
          "pick", "audit", "pay", "place"}

Idle == [at |-> "idle", cid |-> NoCid, terms |-> NoTerms,
         copy |-> [c \in Cids |-> Absent], queue |-> {},
         todo |-> {}, got |-> {}, chan |-> {}]

(* at: where it is; cid, terms: its arguments, or the pin a pass is at;     *)
(* copy: the index as loaded and changed since; queue: pins a pass has not  *)
(* looked at; todo: hosts still to ask; got: those that answered yes;       *)
(* chan: those a channel was opened to.                                     *)
RunFields == [at : Steps, cid : Cids \cup {NoCid}, terms : Terms \cup {NoTerms},
              copy : Indexes, queue : SUBSET Cids,
              todo : SUBSET Hosts, got : SUBSET Hosts, chan : SUBSET Hosts]

Init ==
    /\ index = [c \in Cids |-> Absent]
    /\ run = [p \in Procs |-> Idle]
    /\ kept = {}
    /\ drops = 0
    /\ said = {}
    /\ stray = {}

MayStart(p, cmd) ==
    /\ cmd \in Cmds
    /\ \A q \in Procs : run[q].at = "idle" \/ ("overlap" \in Slips /\ q # p)

(* p has asked everybody it had to at step s.                               *)
Asked(p, s) == run[p].at = s /\ run[p].todo = {}

(* The replicas of c that hosts among hs keep and ix does not record.       *)
Forgotten(hs, c, ix) ==
    {<<h, c>> : h \in {g \in hs \ ix[c].held : <<g, c>> \in kept}}

----------------------------------------------------------------------------
(* Questions to hosts *)

(* p goes on, h having answered yes to what p asked, or not.                *)
Yes(p, h) == [run[p] EXCEPT !.todo = @ \ {h}, !.got = @ \cup {h}]
NotYes(p, h) == [run[p] EXCEPT !.todo = @ \ {h}]

Offering(p, h) == run[p].at \in {"add", "place"} /\ h \in run[p].todo

(* The host takes the pin, and for a paid one a channel is opened to it,    *)
(* if that succeeds.                                                        *)
Accept(p, h) ==
    /\ Offering(p, h)
    /\ \E opened \in {{}, {h}} :
        /\ run[p].terms \notin PaidTerms => opened = {}
        /\ run' = [run EXCEPT ![p] = [Yes(p, h) EXCEPT !.chan = @ \cup opened]]
    /\ kept' = kept \cup {<<h, run[p].cid>>}
    /\ said' = said \cup {<<h, run[p].cid>>}
    /\ stray' = stray \ {<<h, run[p].cid>>}
    /\ UNCHANGED <<index, drops>>

(* Declined, or never delivered.                                            *)
Decline(p, h) ==
    /\ Offering(p, h)
    /\ run' = [run EXCEPT ![p] = NotYes(p, h)]
    /\ UNCHANGED <<index, kept, drops, said, stray>>

(* The host takes the pin after the publisher has given up on the reply.    *)
LoseAcceptance(p, h) ==
    /\ "lost" \in Slips
    /\ Offering(p, h)
    /\ run' = [run EXCEPT ![p] = NotYes(p, h)]
    /\ kept' = kept \cup {<<h, run[p].cid>>}
    /\ stray' = stray \cup {<<h, run[p].cid>>}
    /\ UNCHANGED <<index, drops, said>>

Examining(p, h) == run[p].at \in {"audit", "probe"} /\ h \in run[p].todo

(* A proof that verifies, or for status without --audit the word of the     *)
(* host: both come from hosts that hold the object.                         *)
Pass(p, h) ==
    /\ Examining(p, h)
    /\ <<h, run[p].cid>> \in kept
    /\ run' = [run EXCEPT ![p] = Yes(p, h)]
    /\ said' = said \cup {<<h, run[p].cid>>}
    /\ UNCHANGED <<index, kept, drops, stray>>

Fail(p, h) ==
    /\ Examining(p, h)
    /\ <<h, run[p].cid>> \notin kept \/ "deaf" \in Slips
    /\ run' = [run EXCEPT ![p] = NotYes(p, h)]
    /\ said' = said \ {<<h, run[p].cid>>}
    /\ UNCHANGED <<index, kept, drops, stray>>

----------------------------------------------------------------------------
(* cmd_add: offers to the hosts selected, none with --no-replicate or when  *)
(* none is known, then an entry in place of any the index had.              *)

AddStart(p, c, t) ==
    /\ MayStart(p, "add")
    /\ index[c] = Absent \/ "again" \in Slips
    /\ \E hs \in Selections(Desired, {}) :
        run' = [run EXCEPT ![p] = [Idle EXCEPT !.at = "add", !.cid = c,
                                     !.terms = t, !.copy = index, !.todo = hs]]
    /\ UNCHANGED <<index, kept, drops, said, stray>>

AddSave(p) ==
    /\ Asked(p, "add")
    /\ LET r == run[p]
           new == [terms |-> r.terms, held |-> r.got, ok |-> r.got, chan |-> r.chan]
       IN  /\ index' = [r.copy EXCEPT ![r.cid] = new]
           /\ stray' = stray \cup Forgotten(r.copy[r.cid].held, r.cid, index')
    /\ run' = [run EXCEPT ![p] = Idle]
    /\ UNCHANGED <<kept, drops, said>>

----------------------------------------------------------------------------
(* cmd_rm: the index first, then the holders, of which one that does not    *)
(* answer keeps the bytes until its lease is over.                          *)

Rm(p, c) ==
    /\ MayStart(p, "rm")
    /\ index[c] # Absent
    /\ index' = [index EXCEPT ![c] = Absent]
    /\ run' = [run EXCEPT ![p] = [Idle EXCEPT !.at = "release", !.cid = c,
                                              !.todo = index[c].held]]
    /\ UNCHANGED <<kept, drops, said, stray>>

RmLocal(p, c) ==
    /\ MayStart(p, "rm")
    /\ index[c] # Absent
    /\ index' = [index EXCEPT ![c] = Absent]
    /\ stray' = stray \cup Forgotten(index[c].held, c, index')
    /\ UNCHANGED <<run, kept, drops, said>>

Releasing(p, h) == run[p].at = "release" /\ h \in run[p].todo

Release(p, h) ==
    /\ Releasing(p, h)
    /\ run' = [run EXCEPT ![p] = NotYes(p, h)]
    /\ kept' = kept \ {<<h, run[p].cid>>}
    /\ UNCHANGED <<index, drops, said, stray>>

ReleaseFails(p, h) ==
    /\ "deaf" \in Slips
    /\ Releasing(p, h)
    /\ run' = [run EXCEPT ![p] = NotYes(p, h)]
    /\ stray' = stray \cup Forgotten({h}, run[p].cid, index)
    /\ UNCHANGED <<index, kept, drops, said>>

RmEnd(p) ==
    /\ Asked(p, "release")
    /\ run' = [run EXCEPT ![p] = Idle]
    /\ UNCHANGED <<index, kept, drops, said, stray>>

----------------------------------------------------------------------------
(* cmd_renew: every holder is asked, and the new terms are recorded         *)
(* whatever they answer.                                                    *)

RenewStart(p, c, t) ==
    /\ MayStart(p, "renew")
    /\ index[c] # Absent
    /\ run' = [run EXCEPT ![p] = [Idle EXCEPT !.at = "renew", !.cid = c,
                                              !.terms = t, !.copy = index]]
    /\ UNCHANGED <<index, kept, drops, said, stray>>

(* Mutant: the entry is written anew.                                       *)
RenewSaveAnew(p) ==
    /\ Asked(p, "renew")
    /\ index' = [run[p].copy EXCEPT
                    ![run[p].cid] = [Absent EXCEPT !.terms = run[p].terms]]
    /\ run' = [run EXCEPT ![p] = Idle]
    /\ UNCHANGED <<kept, drops, said, stray>>

RenewSave(p) ==
    /\ Asked(p, "renew")
    /\ index' = [run[p].copy EXCEPT ![run[p].cid].terms = run[p].terms]
    /\ run' = [run EXCEPT ![p] = Idle]
    /\ UNCHANGED <<kept, drops, said, stray>>

----------------------------------------------------------------------------
(* cmd_status: the holders on record and on the DHT are examined, then the  *)
(* index, loaded again, is marked.                                          *)

StatusStart(p, c) ==
    /\ MayStart(p, "status")
    /\ \E advertised \in SUBSET Hosts :
        LET all == advertised \cup index[c].held
        IN  /\ all # {}
            /\ run' = [run EXCEPT ![p] = [Idle EXCEPT !.at = "probe",
                                                      !.cid = c, !.todo = all]]
    /\ UNCHANGED <<index, kept, drops, said, stray>>

StatusSave(p) ==
    /\ Asked(p, "probe")
    /\ index' = [index EXCEPT ![run[p].cid] = Marked(@, run[p].got)]
    /\ run' = [run EXCEPT ![p] = Idle]
    /\ UNCHANGED <<kept, drops, said, stray>>

----------------------------------------------------------------------------
(* repair_once *)

PassStart(p) ==
    /\ MayStart(p, "watch")
    /\ Listed(index) # {}
    /\ run' = [run EXCEPT ![p] = [Idle EXCEPT !.at = "pick", !.copy = index,
                                              !.queue = Listed(index)]]
    /\ UNCHANGED <<index, kept, drops, said, stray>>

Examine(p, c) ==
    /\ run[p].at = "pick"
    /\ c \in run[p].queue
    /\ run' = [run EXCEPT ![p].at = "audit", ![p].cid = c,
                          ![p].queue = @ \ {c},
                          ![p].terms = run[p].copy[c].terms,
                          ![p].todo = run[p].copy[c].held]
    /\ UNCHANGED <<index, kept, drops, said, stray>>

(* The health found is noted; rent is then paid by the entry as it was.     *)
Audited(p) ==
    /\ Asked(p, "audit")
    /\ LET r == run[p]
       IN  run' = [run EXCEPT ![p] =
               [r EXCEPT !.at = "pay", !.todo = Payees(r.copy[r.cid]),
                         !.copy[r.cid] = Marked(r.copy[r.cid], r.got)]]
    /\ UNCHANGED <<index, kept, drops, said, stray>>

(* pay_rent: a receipt to h, best-effort.                                   *)
Pay(p, h) ==
    /\ run[p].at = "pay"
    /\ h \in run[p].todo
    /\ run' = [run EXCEPT ![p] = NotYes(p, h)]
    /\ UNCHANGED <<index, kept, drops, said, stray>>

(* The pin is done with, and copy now has entry e for it.                   *)
OnTo(p, e) == [run[p] EXCEPT !.at = "pick", !.cid = NoCid, !.terms = NoTerms,
                             !.copy[run[p].cid] = e, !.got = {}, !.chan = {}]

(* Every host on record is excluded, healthy or not.                        *)
Plan(p) ==
    /\ Asked(p, "pay")
    /\ LET e == run[p].copy[run[p].cid]
       IN  \E hs \in Selections(Shortfall(e, run[p].got), e.held) :
            run' = [run EXCEPT ![p] =
                        IF hs = {} THEN OnTo(p, e)
                        ELSE [run[p] EXCEPT !.at = "place", !.todo = hs, !.got = {}]]
    /\ UNCHANGED <<index, kept, drops, said, stray>>

Placed(p) ==
    /\ Asked(p, "place")
    /\ run' = [run EXCEPT ![p] =
                   OnTo(p, Grown(run[p].copy[run[p].cid], run[p].got, run[p].chan))]
    /\ UNCHANGED <<index, kept, drops, said, stray>>

(* Mutant: only a changed health counts as a change to save.                *)
PassSaveMarksOnly(p) ==
    /\ run[p].at = "pick" /\ run[p].queue = {}
    /\ index' = [c \in Cids |-> Marked(index[c], run[p].copy[c].ok)]
    /\ run' = [run EXCEPT ![p] = Idle]
    /\ UNCHANGED <<kept, drops, said, stray>>

PassSave(p) ==
    /\ run[p].at = "pick" /\ run[p].queue = {}
    /\ index' = run[p].copy
    /\ run' = [run EXCEPT ![p] = Idle]
    /\ UNCHANGED <<kept, drops, said, stray>>

----------------------------------------------------------------------------
(* The world *)

(* A host loses a replica, or its lease there is over.                      *)
Drop(h, c) ==
    /\ drops < MaxDrops
    /\ <<h, c>> \in kept
    /\ kept' = kept \ {<<h, c>>}
    /\ stray' = stray \ {<<h, c>>}
    /\ drops' = drops + 1
    /\ UNCHANGED <<index, run, said>>

(* A process in state r has the replica of c at h in hand, to record or to  *)
(* release it.                                                              *)
Knows(r, h, c) ==
    \/ h \in r.copy[c].held
    \/ r.cid = c /\ r.at \in {"add", "place"} /\ h \in r.got
    \/ r.cid = c /\ r.at = "release" /\ h \in r.todo

(* Killed, p takes along what it knows.                                     *)
Kill(p) ==
    /\ "kill" \in Slips
    /\ run[p].at # "idle"
    /\ stray' = stray \cup {x \in kept : /\ Knows(run[p], x[1], x[2])
                                        /\ x[1] \notin index[x[2]].held}
    /\ run' = [run EXCEPT ![p] = Idle]
    /\ UNCHANGED <<index, kept, drops, said>>

Commands(p) ==
    \/ \E c \in Cids :
        \/ \E t \in Terms : AddStart(p, c, t) \/ RenewStart(p, c, t)
        \/ Rm(p, c) \/ RmLocal(p, c) \/ StatusStart(p, c) \/ Examine(p, c)
    \/ PassStart(p)

Exchange(p, h) ==
    \/ Accept(p, h) \/ Decline(p, h) \/ LoseAcceptance(p, h)
    \/ Pass(p, h) \/ Fail(p, h)
    \/ Release(p, h) \/ ReleaseFails(p, h)
    \/ Pay(p, h)

Conclude(p) ==
    \/ AddSave(p) \/ RmEnd(p) \/ RenewSave(p) \/ StatusSave(p)
    \/ Audited(p) \/ Plan(p) \/ Placed(p) \/ PassSave(p)

Next ==
    \/ \E p \in Procs :
        Commands(p) \/ Conclude(p) \/ Kill(p) \/ \E h \in Hosts : Exchange(p, h)
    \/ \E h \in Hosts, c \in Cids : Drop(h, c)

Spec == Init /\ [][Next]_indexVars

(* Every await ends (WF), and the daemon's timer ticks, now and then while  *)
(* no command runs (SF).  A host is found that takes a replica, if there is *)
(* one to be asked, at some pass (SF); it may be left out, or decline, at   *)
(* any number of passes before.                                             *)
Fairness ==
    \A p \in Procs :
        /\ SF_indexVars(PassStart(p))
        /\ WF_indexVars(\/ Conclude(p)
                        \/ \E c \in Cids : Examine(p, c)
                        \/ \E h \in Hosts : Exchange(p, h))
        /\ \A c \in Cids :
            /\ SF_indexVars(Plan(p) /\ run[p].cid = c /\ run'[p].at = "place")
            /\ SF_indexVars(run[p].cid = c /\ \E h \in Hosts : Accept(p, h))

FairSpec == Spec /\ Fairness

----------------------------------------------------------------------------
(* Properties *)

(* The index and every copy of it map pins to well-formed entries: health   *)
(* and channels belong to holders on record, whatever is removed, replaced  *)
(* or merged.                                                               *)
IndexTypeOK ==
    /\ index \in Indexes
    /\ run \in [Procs -> RunFields]
    /\ kept \subseteq Hosts \X Cids
    /\ drops \in 0 .. MaxDrops
    /\ said \subseteq Hosts \X Cids
    /\ stray \subseteq Hosts \X Cids

(* No replica is forgotten: what a host keeps for the publisher is on       *)
(* record, in the hands of a process that will record or release it, or     *)
(* went astray in a way the code accepts (the process was killed, a reply   *)
(* came too late, a release was not heard, rm --local, a pin added anew).   *)
Accounted ==
    \A h \in Hosts, c \in Cids :
        <<h, c>> \in kept => \/ h \in index[c].held
                            \/ <<h, c>> \in stray
                            \/ \E p \in Procs : Knows(run[p], h, c)

(* A pass that makes a pin grow ends with no more than the desired number   *)
(* of healthy replicas, however many hosts came back or declined meanwhile  *)
(* (repair_plan's saturating shortfall).                                    *)
NeverOverPlaces ==
    [][\A p \in Procs : PassSave(p) =>
          \A c \in Cids :
            \/ index'[c].held \subseteq index[c].held
            \/ Cardinality(index'[c].ok) <= Desired]_indexVars

(* The health a process saves is what each holder itself answered last, not *)
(* its siblings: of the pins a pass examined, or that status or add was     *)
(* about (cmd_status, repair_once step 2).                                  *)
HealthIsOwnAnswer ==
    [][\A p \in Procs, c \in Cids :
          (PassSave(p) \/ ((AddSave(p) \/ StatusSave(p)) /\ run[p].cid = c)) =>
              index'[c].ok = {h \in index'[c].held : <<h, c>> \in said}]_indexVars

(* What a step does to c is what its command is for: a pin is entered by    *)
(* add and removed by rm, terms change by add and renew, and a holder is    *)
(* only forgotten with its pin or by a new add.                             *)
ItsOwn(c) ==
    LET Added == \E p \in Procs : AddSave(p) /\ run[p].cid = c
        Renewed == \E p \in Procs : RenewSave(p) /\ run[p].cid = c
        Gone == index'[c] = Absent
    IN  /\ index[c] = Absent /\ ~Gone => Added
        /\ index[c] # Absent /\ Gone =>
              \E p \in Procs : Rm(p, c) \/ RmLocal(p, c)
        /\ index[c].terms # index'[c].terms /\ ~Gone => Added \/ Renewed
        /\ ~(index[c].held \subseteq index'[c].held) => Gone \/ Added

(* A command or a pass that works alone, and writes all pins, leaves those  *)
(* it is not about as they are (PinSet::save and its callers).  What        *)
(* processes that overlap do to each other is in SharedIndex.               *)
EachToItsOwn == [][\A c \in Cids : ItsOwn(c)]_indexVars

(* The doc of Rm: "Remove a CID from the local pin-set": it is not entered  *)
(* again but by an add.                                                     *)
RemovedStaysRemoved ==
    [][\A c \in Cids :
          index[c] = Absent /\ index'[c] # Absent =>
              \E p \in Procs : AddSave(p) /\ run[p].cid = c]_indexVars

(* repair.rs: "pay accrued rent on each healthy replica's channel": who is  *)
(* about to be paid has answered this pass's audit.                         *)
PaidForProof ==
    \A p \in Procs :
        run[p].at = "pay" => run[p].todo \X {run[p].cid} \subseteq said

(* The daemon restores the replication factor: a pin on record comes to     *)
(* have the desired number of live replicas on record, however they drop.   *)
FactorRestored ==
    \A c \in Cids :
        index[c] # Absent ~>
            \/ index[c] = Absent
            \/ Cardinality({h \in index[c].held : <<h, c>> \in kept}) >= Desired

=============================================================================
