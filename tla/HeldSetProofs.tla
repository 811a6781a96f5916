--------------------------- MODULE HeldSetProofs ---------------------------
(***************************************************************************)
(* What the operators of HeldSet return, for held-sets of any size: the    *)
(* facts the proofs about the host rest on.                                *)
(***************************************************************************)
EXTENDS HeldSet, FiniteSetTheorems, TLAPS

(* The empty held-set of a fresh host.                                      *)
LEMMA EmptyType == IsHeldSet(Empty) /\ DOMAIN Empty = {}
  BY DEF IsHeldSet, Empty

(* insert adds one key and changes no other entry.                          *)
LEMMA InsertFacts ==
  ASSUME NEW h, IsHeldSet(h), NEW c \in Cids, NEW e \in Entry
  PROVE  /\ IsHeldSet(Insert(h, c, e))
         /\ DOMAIN Insert(h, c, e) = DOMAIN h \cup {c}
         /\ Insert(h, c, e)[c] = e
         /\ \A d \in DOMAIN h : d # c => Insert(h, c, e)[d] = h[d]
  BY DEF IsHeldSet, Insert

(* remove takes away keys and changes no other entry.                       *)
LEMMA WithoutFacts ==
  ASSUME NEW h, IsHeldSet(h), NEW S
  PROVE  /\ IsHeldSet(Without(h, S))
         /\ DOMAIN Without(h, S) = DOMAIN h \ S
         /\ \A d \in DOMAIN h \ S : Without(h, S)[d] = h[d]
  BY DEF IsHeldSet, Without, Restrict

(* touch changes the recency of one entry and nothing else.                 *)
LEMMA TouchFacts ==
  ASSUME NEW h, IsHeldSet(h), NEW c, NEW t \in Nat
  PROVE  /\ IsHeldSet(Touch(h, c, t))
         /\ DOMAIN Touch(h, c, t) = DOMAIN h
         /\ \A d \in DOMAIN h : /\ Touch(h, c, t)[d].bytes = h[d].bytes
                                /\ Touch(h, c, t)[d].rent = h[d].rent
                                /\ Touch(h, c, t)[d].expiry = h[d].expiry
  <1>1. ASSUME NEW d \in DOMAIN h
        PROVE  [h[d] EXCEPT !.access = t] \in Entry
    BY DEF IsHeldSet, Entry
  <1>2. ASSUME NEW d \in DOMAIN h
        PROVE  /\ Touch(h, c, t)[d].bytes = h[d].bytes
               /\ Touch(h, c, t)[d].rent = h[d].rent
               /\ Touch(h, c, t)[d].expiry = h[d].expiry
    BY DEF IsHeldSet, Entry, Touch
  <1> QED  BY <1>1, <1>2 DEF IsHeldSet, Touch

----------------------------------------------------------------------------
(* The byte count is a number, and adds up over disjoint sets of CIDs.      *)

LEMMA SlotsFinite ==
  ASSUME NEW h, IsHeldSet(h)
  PROVE  IsFiniteSet(ByteSlots(h)) /\ TotalBytes(h) \in Nat
  <1>1. IsFiniteSet(DOMAIN h)
    BY CidsAssumption, FS_Subset DEF IsHeldSet
  <1>2. IsFiniteSet(1..MaxBytes)
    BY MaxBytesAssumption, FS_Interval
  <1>3. IsFiniteSet((DOMAIN h) \X (1..MaxBytes))
    BY <1>1, <1>2, FS_Product
  <1>4. ByteSlots(h) \in SUBSET ((DOMAIN h) \X (1..MaxBytes))
    BY DEF ByteSlots
  <1>5. IsFiniteSet(ByteSlots(h))
    BY <1>3, <1>4, FS_Subset
  <1> QED  BY <1>5, FS_CardinalityType DEF TotalBytes

(* One pin has as many slots as bytes.                                      *)
LEMMA SlotsOfOne ==
  ASSUME NEW c, NEW n \in Nat
  PROVE  IsFiniteSet({c} \X (1..n)) /\ Cardinality({c} \X (1..n)) = n
  <1>1. IsFiniteSet({c}) /\ Cardinality({c}) = 1
    BY FS_Singleton
  <1> DEFINE slots == 1..n
  <1>2. IsFiniteSet(slots) /\ Cardinality(slots) = n
    BY FS_Interval
  <1> HIDE DEF slots
  <1>3. IsFiniteSet({c} \X slots) /\ Cardinality({c} \X slots) = 1 * n
    BY <1>1, <1>2, FS_Product
  <1> QED  BY <1>3 DEF slots

(* What a set accounts for is what it accounts for without c, plus c's own  *)
(* bytes.                                                                   *)
LEMMA TotalOfMember ==
  ASSUME NEW h, IsHeldSet(h), NEW c \in DOMAIN h
  PROVE  TotalBytes(h) = TotalBytes(Without(h, {c})) + h[c].bytes
  <1> DEFINE rest == Without(h, {c})
             own  == {s \in {c} \X (1..MaxBytes) : s[2] <= h[c].bytes}
  <1>0. /\ h[c].bytes \in 0..MaxBytes /\ h[c].bytes \in Nat
        /\ IsHeldSet(rest) /\ DOMAIN rest = DOMAIN h \ {c}
        /\ \A d \in DOMAIN h \ {c} : rest[d] = h[d]
    <2>1. h[c] \in Entry
      BY DEF IsHeldSet
    <2>2. h[c].bytes \in 0..MaxBytes
      BY <2>1 DEF Entry
    <2>3. h[c].bytes \in Nat
      BY <2>2, MaxBytesAssumption
    <2>4. /\ IsHeldSet(rest) /\ DOMAIN rest = DOMAIN h \ {c}
          /\ \A d \in DOMAIN h \ {c} : rest[d] = h[d]
      BY WithoutFacts
    <2> QED  BY <2>2, <2>3, <2>4
  <1>1. own = {c} \X (1..h[c].bytes)
    BY <1>0, MaxBytesAssumption
  <1>2. IsFiniteSet(own) /\ Cardinality(own) = h[c].bytes
    <2> HIDE DEF own
    <2> QED  BY <1>0, <1>1, SlotsOfOne
  <1>3. ByteSlots(h) = ByteSlots(rest) \cup own
    BY <1>0 DEF ByteSlots
  <1>4. ByteSlots(rest) \cap own = {}
    BY <1>0 DEF ByteSlots
  <1>5. IsFiniteSet(ByteSlots(rest)) /\ Cardinality(ByteSlots(rest)) \in Nat
    BY <1>0, SlotsFinite DEF TotalBytes
  <1> HIDE DEF own, rest
  <1>6. Cardinality(ByteSlots(h))
          = Cardinality(ByteSlots(rest)) + Cardinality(own) - Cardinality({})
    BY <1>2, <1>3, <1>4, <1>5, FS_Union
  <1> QED  BY <1>0, <1>2, <1>5, <1>6, FS_EmptySet DEF TotalBytes, rest

(* Fewer pins, fewer bytes.                                                 *)
LEMMA TotalOfSmaller ==
  ASSUME NEW h, IsHeldSet(h), NEW k, IsHeldSet(k),
         DOMAIN k \subseteq DOMAIN h,
         \A d \in DOMAIN k : k[d].bytes = h[d].bytes
  PROVE  TotalBytes(k) <= TotalBytes(h)
  <1>1. ByteSlots(k) \in SUBSET ByteSlots(h)
    BY DEF ByteSlots
  <1> QED  BY <1>1, SlotsFinite, FS_Subset DEF TotalBytes

(* What is taken away and what stays add up.                                *)
LEMMA TotalSplits ==
  ASSUME NEW h, IsHeldSet(h), NEW S \in SUBSET DOMAIN h
  PROVE  /\ IsHeldSet(Restrict(h, S))
         /\ TotalBytes(h) = TotalBytes(Restrict(h, S)) + TotalBytes(Without(h, S))
  <1> DEFINE gone == Restrict(h, S)
             rest == Without(h, S)
  <1>1. /\ IsHeldSet(gone) /\ DOMAIN gone = S /\ \A c \in S : gone[c] = h[c]
        /\ IsHeldSet(rest) /\ DOMAIN rest = DOMAIN h \ S
        /\ \A c \in DOMAIN h \ S : rest[c] = h[c]
    BY DEF IsHeldSet, Restrict, Without
  <1> HIDE DEF gone, rest
  <1>2. /\ ByteSlots(h) = ByteSlots(gone) \cup ByteSlots(rest)
        /\ ByteSlots(gone) \cap ByteSlots(rest) = {}
    BY <1>1 DEF ByteSlots
  <1>3. /\ IsFiniteSet(ByteSlots(gone)) /\ TotalBytes(gone) \in Nat
        /\ IsFiniteSet(ByteSlots(rest)) /\ TotalBytes(rest) \in Nat
    BY <1>1, SlotsFinite
  <1>4. Cardinality(ByteSlots(h))
          = Cardinality(ByteSlots(gone)) + Cardinality(ByteSlots(rest)) - Cardinality({})
    BY <1>2, <1>3, FS_Union
  <1>5. TotalBytes(h) = TotalBytes(gone) + TotalBytes(rest)
    BY <1>3, <1>4, FS_EmptySet DEF TotalBytes
  <1> QED  BY <1>1, <1>5 DEF gone, rest

----------------------------------------------------------------------------
(* Eviction.                                                                *)

(* Some set of a collection of finite sets contains no other.               *)
LEMMA MinimalSet ==
  ASSUME NEW S, IsFiniteSet(S), NEW T \in SUBSET (SUBSET S), T # {}
  PROVE  \E x \in T : \A y \in T : y \subseteq x => y = x
  <1>1. T \subseteq FiniteSubsetsOf(S)
    BY FS_Subset DEF FiniteSubsetsOf
  <1>2. PICK x \in T : \A y \in T : <<y, x>> \notin StrictSubsetOrdering(S)
    BY <1>1, FS_StrictSubsetOrderingWellFounded, WFMin
  <1> QED  BY <1>2 DEF StrictSubsetOrdering

(* evict_to_fit sorts by a strict total order.                              *)
LEMMA EvictionOrder ==
  ASSUME NEW h, IsHeldSet(h), NEW t
  PROVE  /\ \A a \in DOMAIN h : ~EvictedBefore(h, t, a, a)
         /\ \A a, b \in DOMAIN h :
               a # b => EvictedBefore(h, t, a, b) \/ EvictedBefore(h, t, b, a)
         /\ \A a, b, c \in DOMAIN h :
               EvictedBefore(h, t, a, b) /\ EvictedBefore(h, t, b, c) =>
                   EvictedBefore(h, t, a, c)
  <1> DEFINE live(c) == IF Lapsed(h[c], t) THEN 0 ELSE 1
             key(c)  == <<live(c), h[c].rent, h[c].access, c>>
             Lex(a, b) ==
                 \/ live(a) < live(b)
                 \/ live(a) = live(b) /\ h[a].rent < h[b].rent
                 \/ live(a) = live(b) /\ h[a].rent = h[b].rent /\ h[a].access < h[b].access
                 \/ /\ live(a) = live(b) /\ h[a].rent = h[b].rent
                    /\ h[a].access = h[b].access /\ a < b
  <1>1. ASSUME NEW a \in DOMAIN h
        PROVE  live(a) \in Int /\ h[a].rent \in Int /\ h[a].access \in Int /\ a \in Int
    BY CidsAssumption DEF IsHeldSet, Entry
  <1>2. ASSUME NEW a \in DOMAIN h, NEW b \in DOMAIN h
        PROVE  EvictedBefore(h, t, a, b) <=> Lex(a, b)
    <2> HIDE DEF live
    <2>1. /\ key(a)[1] = live(a) /\ key(a)[2] = h[a].rent
          /\ key(a)[3] = h[a].access /\ key(a)[4] = a
          /\ key(b)[1] = live(b) /\ key(b)[2] = h[b].rent
          /\ key(b)[3] = h[b].access /\ key(b)[4] = b
      OBVIOUS
    <2>2. EvictedBefore(h, t, a, b) <=>
            \E i \in 1..4 : key(a)[i] < key(b)[i] /\ \A j \in 1..(i - 1) : key(a)[j] = key(b)[j]
      BY DEF EvictedBefore, live
    <2> HIDE DEF key
    <2>3. ASSUME NEW i \in 1..4, key(a)[i] < key(b)[i],
                 \A j \in 1..(i - 1) : key(a)[j] = key(b)[j]
          PROVE  Lex(a, b)
      <3>1. CASE i = 1
        BY <2>1, <2>3, <3>1
      <3>2. CASE i = 2
        <4>1. 1 \in 1..(i - 1)
          BY <3>2
        <4> QED  BY <2>1, <2>3, <3>2, <4>1
      <3>3. CASE i = 3
        <4>1. 1 \in 1..(i - 1) /\ 2 \in 1..(i - 1)
          BY <3>3
        <4> QED  BY <2>1, <2>3, <3>3, <4>1
      <3>4. CASE i = 4
        <4>1. 1 \in 1..(i - 1) /\ 2 \in 1..(i - 1) /\ 3 \in 1..(i - 1)
          BY <3>4
        <4> QED  BY <2>1, <2>3, <3>4, <4>1
      <3> QED  BY <3>1, <3>2, <3>3, <3>4
    <2>4. ASSUME Lex(a, b)
          PROVE  \E i \in 1..4 : key(a)[i] < key(b)[i]
                                 /\ \A j \in 1..(i - 1) : key(a)[j] = key(b)[j]
      <3>1. CASE key(a)[1] < key(b)[1]
        BY <3>1
      <3>2. CASE key(a)[1] = key(b)[1] /\ key(a)[2] < key(b)[2]
        <4>1. \A j \in 1..(2 - 1) : j = 1
          OBVIOUS
        <4> QED  BY <3>2, <4>1
      <3>3. CASE key(a)[1] = key(b)[1] /\ key(a)[2] = key(b)[2] /\ key(a)[3] < key(b)[3]
        <4>1. \A j \in 1..(3 - 1) : j = 1 \/ j = 2
          OBVIOUS
        <4> QED  BY <3>3, <4>1
      <3>4. CASE /\ key(a)[1] = key(b)[1] /\ key(a)[2] = key(b)[2]
                 /\ key(a)[3] = key(b)[3] /\ key(a)[4] < key(b)[4]
        <4>1. \A j \in 1..(4 - 1) : j = 1 \/ j = 2 \/ j = 3
          OBVIOUS
        <4> QED  BY <3>4, <4>1
      <3> QED  BY <2>1, <2>4, <3>1, <3>2, <3>3, <3>4
    <2> QED  BY <2>2, <2>3, <2>4
  <1> HIDE DEF live
  <1>3. \A a \in DOMAIN h : ~Lex(a, a)
    BY <1>1
  <1>4. \A a, b \in DOMAIN h : a # b => Lex(a, b) \/ Lex(b, a)
    BY <1>1
  <1>5. ASSUME NEW a \in DOMAIN h, NEW b \in DOMAIN h, NEW c \in DOMAIN h,
               Lex(a, b), Lex(b, c)
        PROVE  Lex(a, c)
    BY <1>1, <1>5
  <1> HIDE DEF Lex
  <1> QED  BY <1>2, <1>3, <1>4, <1>5

(* The pins the loop looks at before c.                                     *)
Ahead(h, t, c) == {d \in DOMAIN h : EvictedBefore(h, t, d, c)}

LEMMA AheadFacts ==
  ASSUME NEW h, IsHeldSet(h), NEW t, NEW c \in DOMAIN h
  PROVE  /\ Ahead(h, t, c) \in SUBSET DOMAIN h /\ c \notin Ahead(h, t, c)
         /\ \A d \in Ahead(h, t, c) : Ahead(h, t, d) \subseteq Ahead(h, t, c)
         /\ \A d \in DOMAIN h : d # c => d \in Ahead(h, t, c) \/ c \in Ahead(h, t, d)
  BY EvictionOrder DEF Ahead

(* Victims are the pins ahead of which too little is freed.                 *)
LEMMA VictimFacts ==
  ASSUME NEW h, IsHeldSet(h), NEW target \in Nat, NEW t, NEW c \in DOMAIN h
  PROVE  /\ c \in EvictToFit(h, target, t) <=>
                TotalBytes(Without(h, Ahead(h, t, c))) > target
         /\ c \in EvictToFit(h, target, t) =>
                Ahead(h, t, c) \subseteq EvictToFit(h, target, t)
  <1>1. ASSUME NEW d \in DOMAIN h
        PROVE  d \in EvictToFit(h, target, t) <=>
                   TotalBytes(Without(h, Ahead(h, t, d))) > target
    <2> DEFINE A == Ahead(h, t, d)
    <2>1. /\ A \in SUBSET DOMAIN h
          /\ d \in EvictToFit(h, target, t) <=>
                 TotalBytes(h) - TotalBytes(Restrict(h, A)) > target
      BY <1>1 DEF EvictToFit, Ahead
    <2> HIDE DEF A
    <2>2. /\ IsHeldSet(Restrict(h, A)) /\ IsHeldSet(Without(h, A))
          /\ TotalBytes(h) = TotalBytes(Restrict(h, A)) + TotalBytes(Without(h, A))
      BY <2>1, TotalSplits, WithoutFacts
    <2>3. /\ TotalBytes(h) \in Nat /\ TotalBytes(Restrict(h, A)) \in Nat
          /\ TotalBytes(Without(h, A)) \in Nat
      BY <2>2, SlotsFinite
    <2> QED  BY <2>1, <2>2, <2>3 DEF A
  <1>2. ASSUME c \in EvictToFit(h, target, t), NEW d \in Ahead(h, t, c)
        PROVE  d \in EvictToFit(h, target, t)
    <2> DEFINE D == Without(h, Ahead(h, t, d))
               C == Without(h, Ahead(h, t, c))
    <2>1. d \in DOMAIN h /\ Ahead(h, t, d) \subseteq Ahead(h, t, c)
      BY <1>2, AheadFacts
    <2>2. /\ IsHeldSet(D) /\ DOMAIN D = DOMAIN h \ Ahead(h, t, d)
          /\ IsHeldSet(C) /\ DOMAIN C = DOMAIN h \ Ahead(h, t, c)
          /\ DOMAIN C \subseteq DOMAIN D
          /\ \A e \in DOMAIN C : C[e].bytes = D[e].bytes
      <3>1. IsHeldSet(D) /\ IsHeldSet(C)
        BY WithoutFacts
      <3>2. /\ DOMAIN D = DOMAIN h \ Ahead(h, t, d)
            /\ \A e \in DOMAIN D : D[e] = h[e]
        BY DEF Without, Restrict
      <3>3. /\ DOMAIN C = DOMAIN h \ Ahead(h, t, c)
            /\ \A e \in DOMAIN C : C[e] = h[e]
        BY DEF Without, Restrict
      <3> HIDE DEF C, D
      <3> QED  BY <2>1, <3>1, <3>2, <3>3
    <2>3. TotalBytes(C) > target /\ (d \in EvictToFit(h, target, t) <=> TotalBytes(D) > target)
      BY <1>1, <1>2, <2>1
    <2> HIDE DEF C, D
    <2>4. TotalBytes(C) <= TotalBytes(D) /\ TotalBytes(C) \in Nat /\ TotalBytes(D) \in Nat
      BY <2>1, <2>2, TotalOfSmaller, SlotsFinite
    <2> QED  BY <2>3, <2>4
  <1> QED  BY <1>1, <1>2

(* The last victim was still needed: with it the set would not fit.         *)
LEMMA LastVictimNeeded ==
  ASSUME NEW h, IsHeldSet(h), NEW target \in Nat, NEW t,
         EvictToFit(h, target, t) # {}
  PROVE  \E c \in EvictToFit(h, target, t) :
            TotalBytes(Without(h, EvictToFit(h, target, t))) + h[c].bytes > target
  <1> DEFINE V == EvictToFit(h, target, t)
             T == {DOMAIN h \ Ahead(h, t, c) : c \in V}
  <1>1. V \subseteq DOMAIN h /\ IsFiniteSet(DOMAIN h)
    BY CidsAssumption, FS_Subset DEF EvictToFit, IsHeldSet
  <1>2. PICK x \in T : \A y \in T : y \subseteq x => y = x
    <2>1. T \in SUBSET (SUBSET DOMAIN h) /\ T # {}
      OBVIOUS
    <2> HIDE DEF T
    <2> QED  BY <1>1, <2>1, MinimalSet
  <1>3. PICK c \in V : x = DOMAIN h \ Ahead(h, t, c)
    BY <1>2
  <1> HIDE DEF V
  <1>4. ASSUME NEW v \in V, v # c
        PROVE  v \in Ahead(h, t, c)
    <2>1. SUFFICES ASSUME c \in Ahead(h, t, v) PROVE FALSE
      BY <1>1, <1>4, AheadFacts
    <2>2. Ahead(h, t, c) \subseteq Ahead(h, t, v)
      BY <1>1, <2>1, AheadFacts
    <2>3. DOMAIN h \ Ahead(h, t, v) = DOMAIN h \ Ahead(h, t, c)
      <3>1. DOMAIN h \ Ahead(h, t, v) \in T
        OBVIOUS
      <3>2. DOMAIN h \ Ahead(h, t, v) \subseteq x
        BY <1>3, <2>2
      <3> HIDE DEF T
      <3> QED  BY <1>2, <1>3, <3>1, <3>2
    <2>4. c \in DOMAIN h /\ c \notin Ahead(h, t, c)
      BY <1>1, AheadFacts
    <2> QED  BY <2>1, <2>3, <2>4
  <1>5. /\ V = Ahead(h, t, c) \cup {c} /\ c \notin Ahead(h, t, c)
        /\ Ahead(h, t, c) \in SUBSET DOMAIN h
    BY <1>1, <1>4, AheadFacts, VictimFacts DEF V
  <1> DEFINE k == Without(h, Ahead(h, t, c))
  <1>6. TotalBytes(k) > target
    BY <1>1, <1>3, VictimFacts DEF V
  <1>7. IsHeldSet(k) /\ c \in DOMAIN k /\ k[c] = h[c]
    <2>1. /\ IsHeldSet(k) /\ DOMAIN k = DOMAIN h \ Ahead(h, t, c)
          /\ \A d \in DOMAIN h \ Ahead(h, t, c) : k[d] = h[d]
      BY WithoutFacts
    <2>2. c \in DOMAIN h \ Ahead(h, t, c)
      BY <1>1, <1>5
    <2> QED  BY <2>1, <2>2
  <1>8. Without(h, V) = Without(k, {c})
    BY <1>5 DEF Without, Restrict
  <1> HIDE DEF k
  <1>9. TotalBytes(k) = TotalBytes(Without(h, V)) + h[c].bytes
    BY <1>7, <1>8, TotalOfMember
  <1> QED  BY <1>6, <1>9 DEF V

(* What is left fits.                                                       *)
LEMMA EvictionFits ==
  ASSUME NEW h, IsHeldSet(h), NEW target \in Nat, NEW t
  PROVE  TotalBytes(Without(h, EvictToFit(h, target, t))) <= target
  <1> DEFINE V == EvictToFit(h, target, t)
             R == DOMAIN h \ V
             T == {Ahead(h, t, c) : c \in R}
  <1>1. V \subseteq DOMAIN h /\ IsFiniteSet(DOMAIN h)
    BY CidsAssumption, FS_Subset DEF EvictToFit, IsHeldSet
  <1>2. CASE R = {}
    <2>1. DOMAIN Without(h, V) = {}
      BY <1>2, WithoutFacts
    <2>2. ByteSlots(Without(h, V)) = {}
      BY <2>1 DEF ByteSlots
    <2> QED  BY <2>2, FS_EmptySet DEF TotalBytes
  <1>3. CASE R # {}
    <2>1. PICK x \in T : \A y \in T : y \subseteq x => y = x
      <3>1. T \in SUBSET (SUBSET DOMAIN h) /\ T # {}
        BY <1>3 DEF Ahead
      <3> HIDE DEF T
      <3> QED  BY <1>1, <3>1, MinimalSet
    <2>2. PICK m \in R : x = Ahead(h, t, m)
      BY <2>1
    <2> HIDE DEF V
    <2>3. ASSUME NEW d \in Ahead(h, t, m)
          PROVE  d \in V
      <3>1. SUFFICES ASSUME d \in R PROVE FALSE
        BY <2>3 DEF Ahead
      <3>2. Ahead(h, t, d) \subseteq Ahead(h, t, m)
        BY <2>3, AheadFacts
      <3>3. Ahead(h, t, d) = Ahead(h, t, m)
        BY <2>1, <2>2, <3>1, <3>2
      <3> QED  BY <2>3, <3>1, <3>3, AheadFacts
    <2>4. ASSUME NEW v \in V
          PROVE  v \in Ahead(h, t, m)
      <3>1. v # m /\ v \in DOMAIN h /\ m \in DOMAIN h
        BY <1>1, <2>4
      <3>2. m \notin Ahead(h, t, v)
        <4>1. v \in DOMAIN h => Ahead(h, t, v) \subseteq V
          BY <2>4, VictimFacts DEF V
        <4> QED  BY <3>1, <4>1
      <3> QED  BY <3>1, <3>2, AheadFacts
    <2>5. V = Ahead(h, t, m) /\ m \in DOMAIN h /\ m \notin V
      BY <2>3, <2>4
    <2>6. ~(TotalBytes(Without(h, V)) > target)
      BY <2>5, VictimFacts DEF V
    <2>7. TotalBytes(Without(h, V)) \in Nat
      BY WithoutFacts, SlotsFinite
    <2> QED  BY <2>6, <2>7 DEF V
  <1> QED  BY <1>2, <1>3

=============================================================================
