----------------------------- MODULE PinLedger -----------------------------
(***************************************************************************)
(* What a pinning host promises about its commitments, with no process, no *)
(* memory and no file: a ledger that a request changes in one step and     *)
(* nothing else touches, except that pins past their lease may go at any   *)
(* time and live ones go only when the ledger is over the disk budget, and *)
(* then no more of them than it takes to fit.                              *)
(*                                                                         *)
(* The promise is the one src/held.rs makes for held.json ("the host's own *)
(* ground truth", durable, no paid commitment silently dropped) and the    *)
(* one docs/protocol.md makes for each request.  PinHost implements it as  *)
(* long as the file system takes every save: see Implements there.         *)
(***************************************************************************)
EXTENDS HeldSet

CONSTANTS Size, Capacity

VARIABLES
    tip,      \* block height of the chain
    ledger    \* the pins the host answers for, with their terms

ledgerVars == <<tip, ledger>>

(* A commitment without the recency of its use, which promises nothing.     *)
Terms == [bytes : Nat, rent : Nat, expiry : Nat]

Init ==
    /\ tip = 0
    /\ DOMAIN ledger \subseteq Cids /\ ledger \in [DOMAIN ledger -> Terms]

Same(c) ==
    /\ c \in DOMAIN ledger <=> c \in DOMAIN ledger'
    /\ c \in DOMAIN ledger => ledger'[c] = ledger[c]

Gone(c) == c \in DOMAIN ledger /\ c \notin DOMAIN ledger'

Kept(c) == Same(c) \/ (Gone(c) /\ Lapsed(ledger[c], tip))

(* An accepted offer: c is held in full, on whatever terms were offered.    *)
Commit(c) ==
    /\ c \in DOMAIN ledger' /\ ledger'[c].bytes = Size[c]
    /\ \A d \in Cids \ {c} : Kept(d)

(* A renewal: the lease of a held pin grows, or becomes finite.             *)
Extend(c) ==
    /\ c \in DOMAIN ledger \cap DOMAIN ledger'
    /\ ledger'[c].bytes = ledger[c].bytes
    /\ ledger[c].expiry = 0 \/ ledger'[c].expiry >= ledger[c].expiry
    /\ \A d \in Cids \ {c} : Kept(d)

Drop(c) == Gone(c) /\ \A d \in Cids \ {c} : Kept(d)

Clear == \A c \in Cids : Kept(c)

(* Eviction: afterwards the ledger fits, and would not with one pin more.   *)
Evict ==
    /\ \A c \in Cids : Same(c) \/ Gone(c)
    /\ TotalBytes(ledger') <= Capacity
    /\ \E c \in Cids : /\ Gone(c)
                       /\ TotalBytes(ledger') + ledger[c].bytes > Capacity

Serve == Clear \/ Evict \/ \E c \in Cids : Commit(c) \/ Extend(c) \/ Drop(c)

Mine == tip' = tip + 1 /\ UNCHANGED ledger

Next == (Serve /\ UNCHANGED tip) \/ Mine

Spec == Init /\ [][Next]_ledgerVars

=============================================================================
