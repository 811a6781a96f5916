---------------------------- MODULE SharedIndex ----------------------------
(***************************************************************************)
(* PinIndex with its processes overlapping.  Nothing locks pins.json: add, *)
(* renew and a repair pass load it, talk to hosts for minutes and write    *)
(* their copy back whole, so that a save can undo what others saved        *)
(* meanwhile.  rm and status load and save with no await in between, which *)
(* is one step here.  What the code does is PinIndex; this module notes    *)
(* what went on behind whose back, and bounds the damage.                  *)
(***************************************************************************)
EXTENDS PinIndex

VARIABLE
    behind  \* History: pins others changed on disk since p loaded its copy

sharedVars == <<indexVars, behind>>

(* Where a process works on a copy that it will write back.                 *)
Writers == {"add", "renew", "pick", "audit", "pay", "place"}

Follow ==
    behind' = [p \in Procs |->
        IF {run[p].at, run'[p].at} \subseteq Writers
        THEN behind[p] \cup {c \in Cids : index'[c] # index[c]}
        ELSE {}]

SharedInit == Init /\ behind = [p \in Procs |-> {}]

SharedNext == Next /\ Follow

SharedSpec == SharedInit /\ [][SharedNext]_sharedVars

(* A copy is written back that others have overtaken at c.                  *)
LosesUpdate(c) ==
    \E p \in Procs :
        (AddSave(p) \/ RenewSave(p) \/ PassSave(p)) /\ c \in behind[p]

(* Where no other process has changed a pin since the copy was loaded, the  *)
(* save leaves it alone or does what the command is for, whatever else      *)
(* overlaps, is killed or comes too late; rm and status, which load the     *)
(* index anew, never undo anything (repair_once, cmd_add, cmd_renew,        *)
(* cmd_status, cmd_rm).                                                     *)
OnlyLostUpdates == [][\A c \in Cids : ItsOwn(c) \/ LosesUpdate(c)]_sharedVars

(* On record, on its way there or to be released, or astray for a reason    *)
(* the code accepts.                                                        *)
KnownOf(h, c) ==
    \/ h \in index[c].held
    \/ <<h, c>> \in stray
    \/ \E p \in Procs : Knows(run[p], h, c)

(* However processes overlap, a host's replica is only forgotten by such a  *)
(* save: not while it goes from one process to another or to the file.      *)
OnlyLostUpdatesForget ==
    [][\A h \in Hosts, c \in Cids :
          <<h, c>> \in kept /\ KnownOf(h, c) /\ <<h, c>> \in kept' =>
              KnownOf(h, c)' \/ LosesUpdate(c)]_sharedVars

=============================================================================
