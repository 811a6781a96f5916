----------------------------- MODULE EvictLoop -----------------------------
(***************************************************************************)
(* HeldSet::evict_to_fit as the loop the code runs, one victim per step.   *)
(* HeldSet.EvictToFit, which PinHost uses, says in one expression which    *)
(* pins the loop ends up with; this module shows that it does, and that    *)
(* they are the right ones.                                                *)
(***************************************************************************)
EXTENDS HeldSet, Sequences

CONSTANT Cases    \* calls to look at: [set, target, height]

ASSUME CasesAssumption ==
    \A x \in Cases : /\ IsHeldSet(x.set)
                     /\ x.target \in Nat /\ x.height \in Nat

VARIABLES
    call,      \* the arguments, self included
    ranked,    \* the entries the loop has not looked at yet
    need,      \* need_to_free
    victims    \* in eviction order

loopVars == <<call, ranked, need, victims>>

(* The held total may be below the target already: then nothing is needed.  *)
Excess(x) ==
    IF TotalBytes(x.set) <= x.target THEN 0 ELSE TotalBytes(x.set) - x.target

Called(x) ==
    /\ call = x
    /\ ranked = DOMAIN x.set
    /\ need = Excess(x)
    /\ victims = <<>>

Init == \E x \in Cases : Called(x)

(* The head of what is left of the sorted vector.                           *)
IsNext(c) ==
    /\ c \in ranked
    /\ \A d \in ranked \ {c} : EvictedBefore(call.set, call.height, c, d)

(* Mutant: the subtraction does not saturate.                               *)
PlainSub(a, b) == a - b

(* u64::saturating_sub *)
SatSub(a, b) == IF a > b THEN a - b ELSE 0

(* Mutant: the loop counts pins instead of bytes.                           *)
TakeCounting ==
    /\ need # 0
    /\ \E c \in ranked :
        /\ IsNext(c)
        /\ ranked' = ranked \ {c}
        /\ victims' = Append(victims, c)
        /\ need' = SatSub(need, 1)
    /\ UNCHANGED call

Take ==
    /\ need # 0
    /\ \E c \in ranked :
        /\ IsNext(c)
        /\ ranked' = ranked \ {c}
        /\ victims' = Append(victims, c)
        /\ need' = SatSub(need, call.set[c].bytes)
    /\ UNCHANGED call

Returned == need = 0 \/ ranked = {}

Next == Take \/ (Returned /\ UNCHANGED loopVars)

Spec == Init /\ [][Next]_loopVars

----------------------------------------------------------------------------

Evicted == {victims[i] : i \in DOMAIN victims}
Left == Without(call.set, Evicted)

(* PinHost's one-step eviction is this loop.                                *)
MatchesEvictToFit ==
    Returned => Evicted = EvictToFit(call.set, call.target, call.height)

(* The set fits afterwards, and the last victim was still needed: without   *)
(* it the set would be over the target.                                     *)
FitsWithNoneToSpare ==
    Returned =>
        /\ TotalBytes(Left) <= call.target
        /\ victims # <<>> =>
              TotalBytes(Left) + call.set[victims[Len(victims)]].bytes > call.target

(* A pin whose lease still runs is sacrificed only when every lapsed one    *)
(* is, and only to keep pins that pay at least as much.                     *)
PayingPinsStay ==
    \A v \in Evicted :
        ~Lapsed(call.set[v], call.height) =>
            \A k \in DOMAIN Left :
                Returned =>
                    /\ ~Lapsed(call.set[k], call.height)
                    /\ call.set[k].rent >= call.set[v].rent

=============================================================================
