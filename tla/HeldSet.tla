------------------------------ MODULE HeldSet ------------------------------
(***************************************************************************)
(* The held-set of a pinning host (src/held.rs) as a value: which CIDs the *)
(* host has committed to keep and what it agreed for each of them.         *)
(*                                                                         *)
(* A held-set is a partial function from CIDs to entries.  Every method    *)
(* of the code is a total, sequential function of it, so the module has    *)
(* operators and no state; PinHost owns the variables.  CIDs are numbers   *)
(* because the code orders them (the BTreeMap key, the last tie-break of   *)
(* evict_to_fit); nothing else looks at one.                               *)
(***************************************************************************)
EXTENDS Integers, FiniteSets, Functions

CONSTANTS
    Cids,      \* the objects that can be pinned
    MaxBytes   \* the largest byte count of one entry (the width of a u64)

ASSUME CidsAssumption == Cids \subseteq Int /\ IsFiniteSet(Cids)
ASSUME MaxBytesAssumption == MaxBytes \in Nat

(* HeldEntry without the fields nothing reads back (publisher, pinned_at).  *)
(* rent is the parsed rate: a blank or malformed string is a rate of 0.     *)
Entry == [bytes : 0..MaxBytes, rent : Nat, expiry : Nat, access : Nat]

IsHeldSet(h) == DOMAIN h \subseteq Cids /\ h \in [DOMAIN h -> Entry]

Empty == [c \in {} |-> 0]

(* The record a v0 file's CID is migrated to: no accounting at all.         *)
DefaultRecord == [bytes |-> 0, rent |-> 0, expiry |-> 0, access |-> 0]

----------------------------------------------------------------------------
(* The mutations.                                                           *)

Insert(h, c, e) == [d \in DOMAIN h \cup {c} |-> IF d = c THEN e ELSE h[d]]

(* The BTreeMap without the keys in S: one remove per element of S.         *)
Without(h, S) == Restrict(h, DOMAIN h \ S)

Touch(h, c, t) ==
    [d \in DOMAIN h |-> IF d = c THEN [h[d] EXCEPT !.access = t] ELSE h[d]]

----------------------------------------------------------------------------
(* The accounting.                                                          *)

(* One slot per byte a CID of the set accounts for.  Counting slots is the  *)
(* sum of the sizes, written so that the provers can compute with it.       *)
ByteSlots(h) == {s \in (DOMAIN h) \X (1..MaxBytes) : s[2] <= h[s[1]].bytes}

TotalBytes(h) == Cardinality(ByteSlots(h))

(* An entry is past its lease at a block height; expiry 0 is open-ended.    *)
Lapsed(e, height) == e.expiry # 0 /\ e.expiry <= height

(* Mutant: an open-ended pin counts as expired.                             *)
ExpiredOpenEndedToo(h, height) == {c \in DOMAIN h : h[c].expiry <= height}

Expired(h, height) == {c \in DOMAIN h : Lapsed(h[c], height)}

----------------------------------------------------------------------------
(* Eviction.                                                                *)

(* Mutant: the order forgets that expired pins go first.                    *)
EvictedBeforeByRent(h, height, a, b) ==
    \/ h[a].rent < h[b].rent
    \/ h[a].rent = h[b].rent /\ h[a].access < h[b].access
    \/ h[a].rent = h[b].rent /\ h[a].access = h[b].access /\ a < b

(* The order evict_to_fit sorts by: a goes before b.  Expired pins first,   *)
(* then the lowest rent, then the least recently accessed, then the CID.    *)
EvictedBefore(h, height, a, b) ==
    LET live(c) == IF Lapsed(h[c], height) THEN 0 ELSE 1
        key(c)  == <<live(c), h[c].rent, h[c].access, c>>
    IN  \E i \in 1..4 :
            /\ key(a)[i] < key(b)[i]
            /\ \A j \in 1..(i - 1) : key(a)[j] = key(b)[j]

(* The victims: the loop takes a pin as long as those taken before it did   *)
(* not free enough, total - target in all.                                  *)
EvictToFit(h, target, height) ==
    {c \in DOMAIN h :
        LET before == {d \in DOMAIN h : EvictedBefore(h, height, d, c)}
        IN  TotalBytes(h) - TotalBytes(Restrict(h, before)) > target}

=============================================================================
