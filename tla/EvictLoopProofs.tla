-------------------------- MODULE EvictLoopProofs --------------------------
(***************************************************************************)
(* evict_to_fit for held-sets and targets of any size: the loop returns    *)
(* the victims that PinHost takes in one step, they are enough, the last   *)
(* one was still needed, and pins that pay outlive those that do not.      *)
(***************************************************************************)
EXTENDS EvictLoop, HeldSetProofs

LoopTyped ==
    /\ call \in Cases
    /\ ranked \subseteq DOMAIN call.set
    /\ victims \in Seq(DOMAIN call.set)

(* What was taken is the front of the order, and each victim was a victim   *)
(* of the closed form when it was taken.                                    *)
FrontInv ==
    /\ Evicted = DOMAIN call.set \ ranked
    /\ \A v \in Evicted, c \in ranked : EvictedBefore(call.set, call.height, v, c)
    /\ Evicted \subseteq EvictToFit(call.set, call.target, call.height)

(* need is what the rest is over the target by, and never falls short by    *)
(* more than the last victim.                                               *)
NeedInv ==
    /\ need = IF TotalBytes(Left) <= call.target THEN 0
              ELSE TotalBytes(Left) - call.target
    /\ victims # <<>> =>
          TotalBytes(Left) + call.set[victims[Len(victims)]].bytes > call.target

LoopInv == LoopTyped /\ FrontInv /\ NeedInv

LEMMA CallFacts ==
  ASSUME call \in Cases
  PROVE  IsHeldSet(call.set) /\ call.target \in Nat /\ call.height \in Nat
  BY CasesAssumption

LEMMA LoopInit == Init => LoopInv
  <1> SUFFICES ASSUME Init PROVE LoopInv
    OBVIOUS
  <1>1. call \in Cases /\ ranked = DOMAIN call.set /\ victims = <<>> /\ need = Excess(call)
    BY DEF Init, Called
  <1>2. Evicted = {}
    BY <1>1 DEF Evicted
  <1>3. Left = call.set
    BY <1>1, <1>2, CallFacts DEF Left, Without, Restrict, IsHeldSet
  <1> QED  BY <1>1, <1>2, <1>3 DEF LoopInv, LoopTyped, FrontInv, NeedInv, Excess

LEMMA TakeStep ==
  ASSUME LoopInv, Take
  PROVE  LoopInv'
  <1> DEFINE h == call.set
             t == call.height
             k == Left
  <1>0. /\ call' = call /\ call \in Cases /\ need # 0
        /\ IsHeldSet(h) /\ call.target \in Nat
        /\ ranked \subseteq DOMAIN h /\ victims \in Seq(DOMAIN h)
    BY CallFacts DEF Take, LoopInv, LoopTyped
  <1>1. PICK c \in ranked :
          /\ \A d \in ranked \ {c} : EvictedBefore(h, t, c, d)
          /\ ranked' = ranked \ {c} /\ victims' = Append(victims, c)
          /\ need' = SatSub(need, h[c].bytes)
    BY DEF Take, IsNext
  <1>2. /\ victims' \in Seq(DOMAIN h) /\ victims' # <<>>
        /\ victims'[Len(victims')] = c /\ Evicted' = Evicted \cup {c}
    <2>1. /\ victims' \in Seq(DOMAIN h) /\ Len(victims') = Len(victims) + 1
          /\ DOMAIN victims' = 1..Len(victims') /\ DOMAIN victims = 1..Len(victims)
          /\ victims'[Len(victims')] = c
          /\ \A i \in 1..Len(victims) : victims'[i] = victims[i]
          /\ Len(victims) \in Nat
      BY <1>0, <1>1
    <2>2. 1..Len(victims') = 1..Len(victims) \cup {Len(victims')}
      BY <2>1
    <2> QED  BY <2>1, <2>2 DEF Evicted
  <1>3. c \in DOMAIN h /\ c \notin Evicted /\ Evicted = DOMAIN h \ ranked
    BY <1>0, <1>1 DEF LoopInv, FrontInv
  <1>4. /\ IsHeldSet(k) /\ DOMAIN k = ranked /\ k[c] = h[c]
    <2>1. IsHeldSet(k)
      BY <1>0, WithoutFacts DEF Left
    <2>2. DOMAIN k = DOMAIN h \ Evicted /\ \A d \in DOMAIN k : k[d] = h[d]
      BY DEF Left, Without, Restrict
    <2>3. DOMAIN k = ranked
      BY <1>0, <1>3, <2>2
    <2> QED  BY <1>1, <2>1, <2>2, <2>3
  <1>5. Left' = Without(k, {c})
    BY <1>0, <1>2, <1>3 DEF Left, Without, Restrict
  <1>6. /\ TotalBytes(k) = TotalBytes(Left') + h[c].bytes
        /\ TotalBytes(k) \in Nat /\ TotalBytes(Left') \in Nat /\ h[c].bytes \in Nat
    <2>1. h[c].bytes \in Nat
      BY <1>0, <1>3, MaxBytesAssumption DEF IsHeldSet, Entry
    <2> HIDE DEF k
    <2>2. IsHeldSet(Without(k, {c}))
      BY <1>4, WithoutFacts
    <2> QED  BY <1>1, <1>4, <1>5, <2>1, <2>2, TotalOfMember, SlotsFinite
  <1>7. TotalBytes(k) > call.target /\ need = TotalBytes(k) - call.target
    BY <1>0, <1>6 DEF LoopInv, NeedInv
  <1>8. NeedInv'
    <2>1. need' = IF TotalBytes(Left') <= call.target THEN 0
                  ELSE TotalBytes(Left') - call.target
      <3>1. PICK T \in Nat, R \in Nat, b \in Nat, g \in Nat :
              /\ T = TotalBytes(k) /\ R = TotalBytes(Left')
              /\ b = h[c].bytes /\ g = call.target
        BY <1>0, <1>6
      <3>2. T = R + b /\ T > g /\ need = T - g /\ need' = SatSub(need, b)
        BY <1>1, <1>6, <1>7, <3>1
      <3>3. need' = IF R <= g THEN 0 ELSE R - g
        <4>1. need' = SatSub(R + b - g, b)
          BY <3>2
        <4> QED  BY <3>2, <4>1 DEF SatSub
      <3> QED  BY <3>1, <3>3
    <2>2. TotalBytes(Left') + h[victims'[Len(victims')]].bytes > call.target
      BY <1>0, <1>2, <1>6, <1>7
    <2>3. call' = call
      BY <1>0
    <2> QED  BY <2>1, <2>2, <2>3 DEF NeedInv
  <1>9. c \in EvictToFit(h, call.target, t)
    <2>1. Ahead(h, t, c) \subseteq Evicted
      BY <1>0, <1>1, <1>3, EvictionOrder DEF Ahead
    <2>2. Evicted \subseteq Ahead(h, t, c)
      BY <1>1, <1>3 DEF LoopInv, FrontInv, Ahead
    <2>3. Without(h, Ahead(h, t, c)) = Left
      BY <2>1, <2>2 DEF Left
    <2> QED  BY <1>0, <1>3, <1>7, <2>3, VictimFacts
  <1>10. FrontInv'
    <2>1. Evicted' = DOMAIN h \ ranked'
      BY <1>1, <1>2, <1>3
    <2>2. \A v \in Evicted', d \in ranked' : EvictedBefore(h, t, v, d)
      BY <1>1, <1>2 DEF LoopInv, FrontInv
    <2>3. Evicted' \subseteq EvictToFit(h, call.target, t)
      BY <1>2, <1>9 DEF LoopInv, FrontInv
    <2> QED  BY <1>0, <2>1, <2>2, <2>3 DEF FrontInv
  <1>11. LoopTyped'
    BY <1>0, <1>1, <1>2 DEF LoopTyped
  <1> QED  BY <1>8, <1>10, <1>11 DEF LoopInv

LEMMA LoopAlways == Spec => []LoopInv
  <1>1. LoopInv /\ UNCHANGED loopVars => LoopInv'
    BY DEF loopVars, LoopInv, LoopTyped, FrontInv, NeedInv, Evicted, Left
  <1>2. LoopInv /\ [Next]_loopVars => LoopInv'
    BY <1>1, TakeStep DEF Next
  <1> QED  BY <1>2, LoopInit, PTL DEF Spec

LEMMA LoopFacts ==
  ASSUME LoopInv
  PROVE  /\ IsHeldSet(call.set) /\ call.target \in Nat
         /\ IsHeldSet(Left) /\ DOMAIN Left = ranked /\ TotalBytes(Left) \in Nat
         /\ ranked \subseteq DOMAIN call.set
  <1>1. IsHeldSet(call.set) /\ call.target \in Nat /\ ranked \subseteq DOMAIN call.set
    BY CallFacts DEF LoopInv, LoopTyped
  <1>2. IsHeldSet(Left) /\ DOMAIN Left = DOMAIN call.set \ Evicted
    BY <1>1, WithoutFacts DEF Left
  <1>3. DOMAIN Left = ranked
    BY <1>1, <1>2 DEF LoopInv, FrontInv
  <1> QED  BY <1>1, <1>2, <1>3, SlotsFinite

(* For every held-set, target and height, evict_to_fit returns what         *)
(* HeldSet.EvictToFit says, the step the host is modelled to take.          *)
THEOREM LoopMatches == Spec => []MatchesEvictToFit
  <1>1. ASSUME LoopInv
        PROVE  MatchesEvictToFit
    <2> DEFINE h == call.set
               t == call.height
               V == EvictToFit(h, call.target, t)
    <2>1. V \subseteq DOMAIN h /\ Evicted \subseteq V
      BY <1>1 DEF EvictToFit, LoopInv, FrontInv
    <2>2. CASE ranked = {}
      BY <1>1, <2>1, <2>2 DEF MatchesEvictToFit, LoopInv, FrontInv
    <2>3. CASE need = 0
      <3>1. TotalBytes(Left) <= call.target
        BY <1>1, <2>3, LoopFacts DEF LoopInv, NeedInv
      <3>2. ASSUME NEW d \in ranked
            PROVE  d \notin V
        <4> DEFINE D == Without(h, Ahead(h, t, d))
        <4>1. d \in DOMAIN h /\ Evicted \subseteq Ahead(h, t, d)
          BY <1>1, LoopFacts DEF LoopInv, FrontInv, Ahead
        <4>2. /\ IsHeldSet(D) /\ DOMAIN D = DOMAIN h \ Ahead(h, t, d)
              /\ \A e \in DOMAIN D : D[e] = h[e]
          BY <1>1, LoopFacts, WithoutFacts DEF Without, Restrict
        <4>3. \A e \in DOMAIN Left : Left[e] = h[e]
          BY DEF Left, Without, Restrict
        <4>4. DOMAIN D \subseteq DOMAIN Left
          BY <1>1, <4>1, <4>2, LoopFacts DEF LoopInv, FrontInv
        <4>5. d \in V <=> TotalBytes(D) > call.target
          BY <1>1, <4>1, LoopFacts, VictimFacts
        <4> HIDE DEF D, V
        <4>6. TotalBytes(D) <= TotalBytes(Left) /\ TotalBytes(D) \in Nat
          BY <1>1, <4>2, <4>3, <4>4, LoopFacts, TotalOfSmaller, SlotsFinite
        <4> QED  BY <1>1, <3>1, <4>5, <4>6, LoopFacts
      <3> QED  BY <1>1, <2>1, <3>2 DEF MatchesEvictToFit, LoopInv, FrontInv
    <2>4. CASE ~Returned
      BY <2>4 DEF MatchesEvictToFit
    <2> QED  BY <2>2, <2>3, <2>4 DEF Returned
  <1> QED  BY <1>1, LoopAlways, PTL

(* For every held-set, what is left fits the target, and would not with the *)
(* last victim: no pin is given up for nothing (need_to_free).              *)
THEOREM NoneToSpare == Spec => []FitsWithNoneToSpare
  <1>1. ASSUME LoopInv
        PROVE  FitsWithNoneToSpare
    <2>1. CASE ranked = {}
      <3>1. ByteSlots(Left) = {}
        BY <1>1, <2>1, LoopFacts DEF ByteSlots
      <3>2. TotalBytes(Left) = 0
        BY <3>1, FS_EmptySet DEF TotalBytes
      <3> QED  BY <1>1, <3>2, LoopFacts DEF FitsWithNoneToSpare, LoopInv, NeedInv
    <2>2. CASE need = 0
      BY <1>1, <2>2, LoopFacts DEF FitsWithNoneToSpare, LoopInv, NeedInv
    <2> QED  BY <2>1, <2>2 DEF FitsWithNoneToSpare, Returned
  <1> QED  BY <1>1, LoopAlways, PTL

(* The order looks at the lease first, and then at the rent.                *)
LEMMA OrderByLeaseAndRent ==
  ASSUME NEW h, IsHeldSet(h), NEW t, NEW a \in DOMAIN h, NEW b \in DOMAIN h,
         EvictedBefore(h, t, a, b), ~Lapsed(h[a], t)
  PROVE  ~Lapsed(h[b], t) /\ h[b].rent >= h[a].rent
  <1> DEFINE live(c) == IF Lapsed(h[c], t) THEN 0 ELSE 1
             key(c)  == <<live(c), h[c].rent, h[c].access, c>>
  <1>0. h[a].rent \in Nat /\ h[b].rent \in Nat
    BY DEF IsHeldSet, Entry
  <1>1. PICK i \in 1..4 : /\ key(a)[i] < key(b)[i]
                          /\ \A j \in 1..(i - 1) : key(a)[j] = key(b)[j]
    BY DEF EvictedBefore
  <1>2. /\ key(a)[1] = 1 /\ key(b)[1] = live(b) /\ live(b) \in {0, 1}
        /\ key(a)[2] = h[a].rent /\ key(b)[2] = h[b].rent
    OBVIOUS
  <1> HIDE DEF key
  <1>3. i # 1
    BY <1>1, <1>2
  <1>4. 1 \in 1..(i - 1) /\ (i = 2 \/ 2 \in 1..(i - 1))
    BY <1>3
  <1>5. live(b) = 1 /\ (h[a].rent < h[b].rent \/ h[a].rent = h[b].rent)
    BY <1>1, <1>2, <1>4
  <1> QED  BY <1>0, <1>5

(* For every held-set, a pin whose lease runs is given up only when every   *)
(* lapsed one is, and for pins that pay at least as much.                   *)
THEOREM PayersStay == Spec => []PayingPinsStay
  <1>1. ASSUME LoopInv
        PROVE  PayingPinsStay
    <2>1. ASSUME NEW v \in Evicted, NEW c \in DOMAIN Left, ~Lapsed(call.set[v], call.height)
          PROVE  ~Lapsed(call.set[c], call.height) /\ call.set[c].rent >= call.set[v].rent
      <3>1. /\ v \in DOMAIN call.set /\ c \in DOMAIN call.set
            /\ EvictedBefore(call.set, call.height, v, c)
        BY <1>1, <2>1, LoopFacts DEF LoopInv, FrontInv
      <3> QED  BY <1>1, <2>1, <3>1, LoopFacts, OrderByLeaseAndRent
    <2> QED  BY <2>1 DEF PayingPinsStay
  <1> QED  BY <1>1, LoopAlways, PTL

=============================================================================
