-------------------------- MODULE PlacementProofs --------------------------
(***************************************************************************)
(* What select returns for any atlas and any number of replicas: as many   *)
(* distinct hosts as can be had, spread over fault domains, the proven     *)
(* hosts first.  For that nothing is asked of the ranking but that each    *)
(* loop comes to the best of what it has left; that the two loops return   *)
(* what Select says, in order, needs it to be a strict order.              *)
(***************************************************************************)
EXTENDS Placement, FiniteSetTheorems, TLAPS

Dom(h) == DomainOf(choice, h)

SelectTyped ==
    /\ choice \in SelectCalls
    /\ pass \in {1, 2}
    /\ left \subseteq Eligible(choice)
    /\ picked \in Seq(Eligible(choice))

(* The first loop has not picked what it still has to look at; the second   *)
(* has picked what it has looked at.                                        *)
PickInv ==
    /\ IsFiniteSet(PickedSet) /\ Cardinality(PickedSet) = Len(picked)
    /\ pass = 1 => PickedSet \cap left = {}
    /\ pass = 2 => Eligible(choice) \ left \subseteq PickedSet

(* In the first loop every domain come to has one host picked; after it     *)
(* every domain there is has one.                                           *)
SpreadInv ==
    /\ pass = 1 =>
          /\ used = {Dom(h) : h \in PickedSet}
          /\ \A a, b \in PickedSet : Dom(a) = Dom(b) => a = b
          /\ \A o \in Eligible(choice) \ left : Dom(o) \in used
    /\ pass = 2 =>
          \A o \in Eligible(choice) : \E p \in PickedSet : Dom(p) = Dom(o)

(* A host that is passed over is no better than a picked one of its domain. *)
OrderInv ==
    \A p \in PickedSet, o \in Eligible(choice) \ PickedSet :
        Dom(p) = Dom(o) => Better(choice, p, o)

SelectInv == SelectTyped /\ PickInv /\ SpreadInv /\ OrderInv

----------------------------------------------------------------------------

(* To pick a host is to add it to the set of picked ones.                   *)
LEMMA Picking ==
  ASSUME NEW E, NEW s \in Seq(E), NEW h \in E
  PROVE  /\ Append(s, h) \in Seq(E)
         /\ Len(Append(s, h)) = Len(s) + 1
         /\ {Append(s, h)[i] : i \in 1..Len(Append(s, h))}
                = {s[i] : i \in 1..Len(s)} \cup {h}
  <1>1. Append(s, h) \in Seq(E) /\ Len(Append(s, h)) = Len(s) + 1 /\ Len(s) \in Nat
    OBVIOUS
  <1>2. \A i \in 1..Len(s) : Append(s, h)[i] = s[i]
    OBVIOUS
  <1>3. Append(s, h)[Len(s) + 1] = h
    OBVIOUS
  <1>4. 1..Len(Append(s, h)) = 1..Len(s) \cup {Len(s) + 1}
    BY <1>1
  <1> QED  BY <1>1, <1>2, <1>3, <1>4

(* Picked hosts are eligible ones.                                          *)
LEMMA PickedEligible == SelectTyped => PickedSet \subseteq Eligible(choice)
  BY DEF SelectTyped, PickedSet

(* A step that picks a new host.                                            *)
LEMMA PickStep ==
  ASSUME SelectTyped, PickInv, NEW h \in Eligible(choice), h \notin PickedSet,
         picked' = Append(picked, h)
  PROVE  /\ picked' \in Seq(Eligible(choice))
         /\ PickedSet' = PickedSet \cup {h}
         /\ IsFiniteSet(PickedSet') /\ Cardinality(PickedSet') = Len(picked')
  <1>1. /\ picked' \in Seq(Eligible(choice))
        /\ Len(picked') = Len(picked) + 1
        /\ PickedSet' = PickedSet \cup {h}
    BY Picking DEF SelectTyped, PickedSet
  <1>2. /\ IsFiniteSet(PickedSet \cup {h})
        /\ Cardinality(PickedSet \cup {h}) = Cardinality(PickedSet) + 1
    BY FS_AddElement DEF PickInv
  <1> QED  BY <1>1, <1>2 DEF PickInv

(* Any call may begin.                                                      *)
LEMMA SelectStart == SelectInit => SelectInv
  <1> SUFFICES ASSUME NEW x \in SelectCalls, Selecting(x)
               PROVE  SelectInv
    BY DEF SelectInit
  <1>1. PickedSet = {} /\ Len(picked) = 0
    BY DEF Selecting, PickedSet
  <1>2. SelectTyped
    BY DEF Selecting, SelectTyped
  <1>3. PickInv
    BY <1>1, FS_EmptySet DEF Selecting, PickInv
  <1>4. SpreadInv /\ OrderInv
    BY <1>1 DEF Selecting, SpreadInv, OrderInv
  <1> QED  BY <1>2, <1>3, <1>4 DEF SelectInv

(* The first loop.                                                          *)
LEMMA SpreadStep == SelectInv /\ VisitForSpread => SelectInv'
  <1> SUFFICES ASSUME SelectInv, VisitForSpread,
                      NEW h \in left, IsBestLeft(h), left' = left \ {h},
                      IF Dom(h) \in used
                      THEN UNCHANGED <<picked, used>>
                      ELSE picked' = Append(picked, h) /\ used' = used \cup {Dom(h)}
               PROVE  SelectInv'
    BY DEF VisitForSpread, Dom
  <1> USE DEF SelectInv
  <1>1. choice' = choice /\ pass = 1 /\ pass' = 1
    BY DEF VisitForSpread
  <1>2. h \in Eligible(choice) /\ h \notin PickedSet
    BY <1>1 DEF SelectTyped, PickInv
  <1>3. \A g : Dom(g)' = Dom(g)
    BY <1>1 DEF Dom
  <1>4. Eligible(choice)' = Eligible(choice)
    BY <1>1
  <1>5. CASE Dom(h) \in used
    <2>1. PickedSet' = PickedSet
      BY <1>5 DEF PickedSet
    <2>2. SelectTyped' /\ PickInv'
      BY <1>1, <1>4, <1>5, <2>1 DEF SelectTyped, PickInv
    <2>3. SpreadInv'
      BY <1>1, <1>3, <1>4, <1>5, <2>1 DEF SpreadInv
    <2>4. OrderInv'
      BY <1>1, <1>3, <1>4, <2>1 DEF OrderInv
    <2> QED  BY <2>2, <2>3, <2>4
  <1>6. CASE Dom(h) \notin used
    <2>1. /\ picked' \in Seq(Eligible(choice))
          /\ PickedSet' = PickedSet \cup {h}
          /\ IsFiniteSet(PickedSet') /\ Cardinality(PickedSet') = Len(picked')
      BY <1>2, <1>6, PickStep
    <2>2. SelectTyped' /\ PickInv'
      BY <1>1, <1>4, <2>1 DEF SelectTyped, PickInv
    <2>3. SpreadInv'
      BY <1>1, <1>3, <1>4, <1>6, <2>1 DEF SpreadInv
    <2>4. ASSUME NEW o \in Eligible(choice) \ (PickedSet \cup {h}), Dom(h) = Dom(o)
          PROVE  Better(choice, h, o)
      <3>1. o \in left \ {h}
        BY <1>1, <1>6, <2>4 DEF SpreadInv
      <3> QED  BY <3>1 DEF IsBestLeft
    <2>5. OrderInv'
      BY <1>1, <1>3, <1>4, <2>1, <2>4 DEF OrderInv
    <2> QED  BY <2>2, <2>3, <2>5
  <1> QED  BY <1>5, <1>6

(* Between the loops all has been looked at, so every domain has a host.    *)
LEMMA BetweenStep == SelectInv /\ SecondPass => SelectInv'
  <1> SUFFICES ASSUME SelectInv, SecondPass
               PROVE  SelectInv'
    OBVIOUS
  <1> USE DEF SelectInv
  <1>1. /\ choice' = choice /\ pass = 1 /\ pass' = 2 /\ left = {}
        /\ left' = Eligible(choice) /\ picked' = picked
    BY DEF SecondPass
  <1>2. PickedSet' = PickedSet /\ (\A g : Dom(g)' = Dom(g))
    BY <1>1 DEF PickedSet, Dom
  <1>3. SelectTyped' /\ PickInv'
    BY <1>1, <1>2 DEF SelectTyped, PickInv
  <1>4. SpreadInv'
    BY <1>1, <1>2 DEF SpreadInv
  <1>5. OrderInv'
    BY <1>1, <1>2 DEF OrderInv
  <1> QED  BY <1>3, <1>4, <1>5

(* The second loop.                                                         *)
LEMMA CountStep == SelectInv /\ VisitForCount => SelectInv'
  <1> SUFFICES ASSUME SelectInv, VisitForCount,
                      NEW h \in left, IsBestLeft(h), left' = left \ {h},
                      picked' = IF h \in PickedSet THEN picked ELSE Append(picked, h)
               PROVE  SelectInv'
    BY DEF VisitForCount
  <1> USE DEF SelectInv
  <1>1. choice' = choice /\ pass = 2 /\ pass' = 2
    BY DEF VisitForCount
  <1>2. h \in Eligible(choice)
    BY DEF SelectTyped
  <1>3. \A g : Dom(g)' = Dom(g)
    BY <1>1 DEF Dom
  <1>4. Eligible(choice)' = Eligible(choice)
    BY <1>1
  <1>5. CASE h \in PickedSet
    <2>1. PickedSet' = PickedSet /\ picked' = picked
      BY <1>5 DEF PickedSet
    <2>2. SelectTyped' /\ PickInv'
      BY <1>1, <1>4, <1>5, <2>1 DEF SelectTyped, PickInv
    <2>3. SpreadInv'
      BY <1>1, <1>3, <1>4, <2>1 DEF SpreadInv
    <2>4. OrderInv'
      BY <1>1, <1>3, <1>4, <2>1 DEF OrderInv
    <2> QED  BY <2>2, <2>3, <2>4
  <1>6. CASE h \notin PickedSet
    <2>1. /\ picked' \in Seq(Eligible(choice))
          /\ PickedSet' = PickedSet \cup {h}
          /\ IsFiniteSet(PickedSet') /\ Cardinality(PickedSet') = Len(picked')
      BY <1>2, <1>6, PickStep
    <2>2. SelectTyped' /\ PickInv'
      BY <1>1, <1>4, <2>1 DEF SelectTyped, PickInv
    <2>3. SpreadInv'
      BY <1>1, <1>3, <1>4, <2>1 DEF SpreadInv
    <2>4. ASSUME NEW o \in Eligible(choice) \ (PickedSet \cup {h})
          PROVE  Better(choice, h, o)
      BY <1>1, <2>4 DEF PickInv, IsBestLeft
    <2>5. OrderInv'
      BY <1>1, <1>3, <1>4, <2>1, <2>4 DEF OrderInv
    <2> QED  BY <2>2, <2>3, <2>5
  <1> QED  BY <1>5, <1>6

LEMMA SelectStep == SelectInv /\ [SelectNext]_selectVars => SelectInv'
  <1> SUFFICES ASSUME SelectInv, UNCHANGED selectVars
               PROVE  SelectInv'
    BY SpreadStep, BetweenStep, CountStep DEF SelectNext
  <1>1. PickedSet' = PickedSet /\ (\A g : Dom(g)' = Dom(g))
    BY DEF selectVars, PickedSet, Dom
  <1> QED  BY <1>1 DEF selectVars, SelectInv, SelectTyped, PickInv, SpreadInv, OrderInv

LEMMA SelectInvariant == SelectSpec => []SelectInv
  BY SelectStart, SelectStep, PTL DEF SelectSpec

----------------------------------------------------------------------------

(* For every call, select returns as many distinct hosts as were asked for, *)
(* or all that can be had, and none that is excluded (both loops).          *)
THEOREM Filled == SelectSpec => []FactorFilled
  <1>1. ASSUME SelectInv
        PROVE  FactorFilled
    <2>1. PickedSet \subseteq Eligible(choice)
      BY <1>1, PickedEligible DEF SelectInv
    <2>2. Eligible(choice) \subseteq choice.advertised \ (choice.exclude \cup {choice.self})
      BY DEF Eligible, Candidates
    <2>3. Selected /\ Wanting => Eligible(choice) \subseteq PickedSet
      BY <1>1 DEF Selected, SelectInv, PickInv
    <2> QED  BY <1>1, <2>1, <2>2, <2>3 DEF FactorFilled, SelectInv, PickInv
  <1> QED  BY <1>1, SelectInvariant, PTL

(* For every call, two hosts of one fault domain are picked only when every *)
(* domain that can be had has one (the first loop).                         *)
THEOREM Spread == SelectSpec => []NoAvoidableOverlap
  <1>1. ASSUME SelectInv
        PROVE  NoAvoidableOverlap
    <2>1. CASE pass = 1
      BY <1>1, <2>1 DEF NoAvoidableOverlap, SelectInv, SpreadInv, Dom
    <2>2. CASE pass = 2
      BY <1>1, <2>2 DEF NoAvoidableOverlap, SelectInv, SpreadInv, Dom
    <2> QED  BY <1>1, <2>1, <2>2 DEF SelectInv, SelectTyped
  <1> QED  BY <1>1, SelectInvariant, PTL

(* The first key of the ranking is the work delivered (rank).               *)
LEMMA BetterHasWorked ==
  ASSUME NEW x \in SelectCalls, NEW a \in DOMAIN x.atlas, NEW b \in DOMAIN x.atlas,
         Better(x, a, b)
  PROVE  x.atlas[a].work >= x.atlas[b].work
  <1>1. x.atlas[a].work \in Nat /\ x.atlas[b].work \in Nat
    BY PlacementAssumption DEF IsSelectCall, IsListing
  <1> DEFINE key(h) == <<-x.atlas[h].work, x.atlas[h].seen, -x.atlas[h].mem, h>>
  <1>2. PICK i \in 1..4 : /\ key(a)[i] < key(b)[i]
                          /\ \A j \in 1..(i - 1) : key(a)[j] = key(b)[j]
    BY DEF Better
  <1>3. key(a)[1] = -x.atlas[a].work /\ key(b)[1] = -x.atlas[b].work
    OBVIOUS
  <1>4. -x.atlas[a].work < -x.atlas[b].work \/ -x.atlas[a].work = -x.atlas[b].work
    <2>1. i = 1 \/ 1 \in 1..(i - 1)
      OBVIOUS
    <2> QED  BY <1>2, <1>3, <2>1
  <1> QED  BY <1>1, <1>4

(* For every call, a host that delivered more work is not passed over for   *)
(* one of its own domain that delivered less (rank and the first loop).     *)
THEOREM MostWorkFirst == SelectSpec => []ProvenFirst
  <1>1. ASSUME SelectInv
        PROVE  ProvenFirst
    <2>1. PickedSet \subseteq Eligible(choice) /\ Eligible(choice) \subseteq DOMAIN choice.atlas
      BY <1>1, PickedEligible DEF SelectInv, Eligible, Candidates
    <2>2. choice \in SelectCalls
      BY <1>1 DEF SelectInv, SelectTyped
    <2>3. ASSUME NEW p \in PickedSet, NEW o \in Eligible(choice) \ PickedSet,
                 DomainOf(choice, p) = DomainOf(choice, o)
          PROVE  choice.atlas[p].work >= choice.atlas[o].work
      <3>1. Better(choice, p, o)
        BY <1>1, <2>3 DEF SelectInv, OrderInv, Dom
      <3> QED  BY <2>1, <2>2, <3>1, BetterHasWorked
    <2> QED  BY <2>3 DEF ProvenFirst
  <1> QED  BY <1>1, SelectInvariant, PTL


----------------------------------------------------------------------------
(* The ranking is a strict order in which any two hosts compare.            *)

LEMMA BetterCompares ==
  ASSUME NEW x \in SelectCalls, NEW a \in DOMAIN x.atlas, NEW b \in DOMAIN x.atlas
  PROVE  /\ {x.atlas[a].work, x.atlas[a].seen, x.atlas[a].mem} \subseteq Nat /\ a \in Int
         /\ Better(x, a, b) <=>
              \/ x.atlas[a].work > x.atlas[b].work
              \/ /\ x.atlas[a].work = x.atlas[b].work
                 /\ x.atlas[a].seen < x.atlas[b].seen
              \/ /\ x.atlas[a].work = x.atlas[b].work
                 /\ x.atlas[a].seen = x.atlas[b].seen
                 /\ x.atlas[a].mem > x.atlas[b].mem
              \/ /\ x.atlas[a].work = x.atlas[b].work
                 /\ x.atlas[a].seen = x.atlas[b].seen
                 /\ x.atlas[a].mem = x.atlas[b].mem
                 /\ a < b
  <1>1. /\ {x.atlas[a].work, x.atlas[a].seen, x.atlas[a].mem} \subseteq Nat
        /\ {x.atlas[b].work, x.atlas[b].seen, x.atlas[b].mem} \subseteq Nat
        /\ a \in Int /\ b \in Int
    BY PlacementAssumption DEF IsSelectCall, IsListing
  <1> DEFINE key(h) == <<-x.atlas[h].work, x.atlas[h].seen, -x.atlas[h].mem, h>>
  <1>2. /\ key(a)[1] = -x.atlas[a].work /\ key(a)[2] = x.atlas[a].seen
        /\ key(a)[3] = -x.atlas[a].mem /\ key(a)[4] = a
        /\ key(b)[1] = -x.atlas[b].work /\ key(b)[2] = x.atlas[b].seen
        /\ key(b)[3] = -x.atlas[b].mem /\ key(b)[4] = b
    OBVIOUS
  <1>3. Better(x, a, b) <=> \E i \in 1..4 : /\ key(a)[i] < key(b)[i]
                                            /\ \A j \in 1..(i - 1) : key(a)[j] = key(b)[j]
    BY DEF Better
  <1> HIDE DEF key
  <1>4. (\E i \in 1..4 : /\ key(a)[i] < key(b)[i]
                         /\ \A j \in 1..(i - 1) : key(a)[j] = key(b)[j])
        <=> \/ key(a)[1] < key(b)[1]
            \/ key(a)[1] = key(b)[1] /\ key(a)[2] < key(b)[2]
            \/ key(a)[1] = key(b)[1] /\ key(a)[2] = key(b)[2] /\ key(a)[3] < key(b)[3]
            \/ /\ key(a)[1] = key(b)[1] /\ key(a)[2] = key(b)[2]
               /\ key(a)[3] = key(b)[3] /\ key(a)[4] < key(b)[4]
    <2> DEFINE P(i) == /\ key(a)[i] < key(b)[i]
                       /\ \A j \in 1..(i - 1) : key(a)[j] = key(b)[j]
    <2>1. (\E i \in 1..4 : P(i)) <=> P(1) \/ P(2) \/ P(3) \/ P(4)
      <3>1. 1..4 = {1, 2, 3, 4}
        OBVIOUS
      <3> HIDE DEF P
      <3> QED  BY <3>1
    <2>2. 1..(1-1) = {} /\ 1..(2-1) = {1} /\ 1..(3-1) = {1, 2} /\ 1..(4-1) = {1, 2, 3}
      OBVIOUS
    <2> QED  BY <2>1, <2>2
  <1> QED  BY <1>1, <1>2, <1>3, <1>4

LEMMA BetterOrders ==
  ASSUME NEW x \in SelectCalls, NEW a \in Eligible(x), NEW b \in Eligible(x)
  PROVE  /\ ~(Better(x, a, b) /\ Better(x, b, a))
         /\ a # b => Better(x, a, b) \/ Better(x, b, a)
         /\ ~Better(x, a, a)
         /\ \A c \in Eligible(x) : Better(x, a, b) /\ Better(x, b, c) => Better(x, a, c)
  <1>1. Eligible(x) \subseteq DOMAIN x.atlas
    BY DEF Eligible, Candidates
  <1>2. a \in DOMAIN x.atlas /\ b \in DOMAIN x.atlas
    BY <1>1
  <1>3. /\ ~(Better(x, a, b) /\ Better(x, b, a)) /\ ~Better(x, a, a)
        /\ a # b => Better(x, a, b) \/ Better(x, b, a)
    BY <1>2, BetterCompares
  <1>4. ASSUME NEW c \in Eligible(x), Better(x, a, b), Better(x, b, c)
        PROVE  Better(x, a, c)
    <2>1. c \in DOMAIN x.atlas
      BY <1>1
    <2> QED  BY <1>2, <1>4, <2>1, BetterCompares
  <1> QED  BY <1>3, <1>4

----------------------------------------------------------------------------
(* The positions.  Each loop goes down the ranking, so what it has looked   *)
(* at is better than what is left.                                          *)

Heads(x) == {a \in Eligible(x) : \A b \in Eligible(x) \ {a} :
                DomainOf(x, a) = DomainOf(x, b) => Better(x, a, b)}

RankInv ==
    /\ \A a \in Eligible(choice) \ left, b \in left : Better(choice, a, b)
    /\ pass = 1 => PickedSet = Heads(choice) \ left
    /\ pass = 2 => PickedSet = Heads(choice) \cup (Eligible(choice) \ left)
    /\ Len(picked) <= choice.n
    /\ \A i \in 1..Len(picked) : Position(choice, picked[i]) = i

LEMMA EligibleFinite ==
  ASSUME NEW x \in SelectCalls
  PROVE  IsFiniteSet(Eligible(x)) /\ IsFiniteSet(Heads(x)) /\ Heads(x) \subseteq Eligible(x)
  <1>1. Eligible(x) \subseteq Nodes
    BY PlacementAssumption DEF Eligible, Candidates, IsSelectCall
  <1>2. IsFiniteSet(Eligible(x))
    BY <1>1, FS_Subset, PlacementAssumption
  <1>3. Heads(x) \subseteq Eligible(x)
    BY DEF Heads
  <1> QED  BY <1>2, <1>3, FS_Subset

Ahead(S, h) == {o \in S : Better(choice, o, h)}

LEMMA PositionIs ==
  ASSUME NEW h
  PROVE  Position(choice, h) =
            IF h \in Heads(choice) THEN 1 + Cardinality(Ahead(Heads(choice), h))
            ELSE 1 + Cardinality(Heads(choice))
                   + Cardinality(Ahead(Eligible(choice) \ Heads(choice), h))
  BY DEF Position, Heads, Ahead

(* Whoever is not picked comes after all who are, and the host a loop picks *)
(* comes right after them.                                                  *)
LEMMA PositionOfRest ==
  ASSUME SelectInv, RankInv, NEW h \in Eligible(choice) \ PickedSet
  PROVE  /\ Position(choice, h) \in Nat /\ Position(choice, h) > Len(picked)
         /\ IsBestLeft(h) /\ (pass = 1 => h \in Heads(choice)) =>
                Position(choice, h) = Len(picked) + 1
  <1> DEFINE E == Eligible(choice)
             H == Heads(choice)
  <1>0. /\ choice \in SelectCalls /\ pass \in {1, 2} /\ left \subseteq E /\ h \in E
        /\ Len(picked) = Cardinality(PickedSet) /\ Len(picked) \in Nat
    BY DEF SelectInv, SelectTyped, PickInv
  <1>1. /\ IsFiniteSet(E) /\ IsFiniteSet(H) /\ H \subseteq E
    BY <1>0, EligibleFinite
  <1>2. \A o \in left \ {h} : IsBestLeft(h) => ~Better(choice, o, h)
    BY <1>0, BetterOrders DEF IsBestLeft
  <1>3. \A o \in E \ left : h \in left => Better(choice, o, h)
    BY DEF RankInv
  <1>4. ~Better(choice, h, h)
    BY <1>0, BetterOrders
  <1>5. CASE h \in H
    <2>1. pass = 1 /\ h \in left /\ PickedSet = H \ left
      BY <1>0, <1>5 DEF RankInv
    <2>2. PickedSet \subseteq Ahead(H, h) /\ Ahead(H, h) \subseteq H
      BY <1>1, <1>3, <2>1 DEF Ahead
    <2>3. /\ IsFiniteSet(Ahead(H, h)) /\ Cardinality(Ahead(H, h)) \in Nat
          /\ Cardinality(PickedSet) <= Cardinality(Ahead(H, h))
      <3>1. IsFiniteSet(Ahead(H, h))
        BY <1>1, <2>2, FS_Subset
      <3> QED  BY <2>2, <3>1, FS_Subset, FS_CardinalityType
    <2>4. IsBestLeft(h) => Ahead(H, h) = PickedSet
      BY <1>1, <1>2, <1>4, <2>1, <2>2 DEF Ahead
    <2>5. Position(choice, h) = 1 + Cardinality(Ahead(H, h))
      BY <1>5, PositionIs
    <2> QED  BY <1>0, <2>3, <2>4, <2>5
  <1>6. CASE h \notin H
    <2> DEFINE R == E \ H
    <2>1. IsFiniteSet(R) /\ Ahead(R, h) \subseteq R
      BY <1>1, FS_Subset DEF Ahead
    <2>2. /\ IsFiniteSet(Ahead(R, h)) /\ Cardinality(Ahead(R, h)) \in Nat
          /\ Cardinality(H) \in Nat
      <3>1. IsFiniteSet(Ahead(R, h))
        BY <2>1, FS_Subset
      <3> QED  BY <1>1, <3>1, FS_CardinalityType
    <2>3. Position(choice, h) = 1 + Cardinality(H) + Cardinality(Ahead(R, h))
      BY <1>6, PositionIs
    <2>4. CASE pass = 1
      <3>1. PickedSet \in SUBSET H
        BY <2>4 DEF RankInv
      <3>2. Cardinality(PickedSet) <= Cardinality(H)
        BY <1>1, <3>1, FS_Subset
      <3> QED  BY <1>0, <1>6, <2>2, <2>3, <2>4, <3>2
    <2>5. CASE pass = 2
      <3> DEFINE L == R \ left
      <3>1. h \in left /\ PickedSet = H \cup L /\ H \cap L = {}
        BY <1>6, <2>5 DEF RankInv
      <3>2. L \in SUBSET Ahead(R, h)
        BY <1>3, <3>1 DEF Ahead
      <3>3. /\ IsFiniteSet(L) /\ Cardinality(L) \in Nat
            /\ Cardinality(L) <= Cardinality(Ahead(R, h))
        <4>1. IsFiniteSet(L) /\ Cardinality(L) <= Cardinality(Ahead(R, h))
          BY <2>2, <3>2, FS_Subset
        <4> QED  BY <4>1, FS_CardinalityType
      <3>4. IsBestLeft(h) => Ahead(R, h) = L
        BY <1>2, <1>4, <3>2 DEF Ahead
      <3>5. Cardinality(PickedSet) = Cardinality(H) + Cardinality(L)
        <4>1. Cardinality({}) = 0
          BY FS_EmptySet
        <4>2. Cardinality(H \cup L) = Cardinality(H) + Cardinality(L) - Cardinality(H \cap L)
          BY <1>1, <3>3, FS_Union
        <4>3. H \cap L = {} /\ PickedSet = H \cup L
          BY <3>1
        <4>4. Cardinality(H) \in Nat /\ Cardinality(L) \in Nat
          BY <2>2, <3>3
        <4> HIDE DEF H, L, R
        <4>5. Cardinality(H \cap L) = 0 /\ Cardinality(PickedSet) = Cardinality(H \cup L)
          BY <4>1, <4>3, Zenon
        <4> QED  BY <4>2, <4>4, <4>5
      <3> HIDE DEF H, L, R
      <3> QED  BY <1>0, <2>2, <2>3, <2>5, <3>3, <3>4, <3>5
    <2> QED  BY <1>0, <2>4, <2>5
  <1> QED  BY <1>5, <1>6

(* The host a loop picks gets the next position.                            *)
LEMMA PickedInOrder ==
  ASSUME SelectInv, RankInv, choice' = choice, Wanting, NEW h \in Eligible(choice) \ PickedSet,
         Position(choice, h) = Len(picked) + 1, picked' = Append(picked, h)
  PROVE  /\ Len(picked') <= choice'.n
         /\ \A i \in 1..Len(picked') : Position(choice', picked'[i]) = i
  <1>1. picked \in Seq(Eligible(choice)) /\ choice.n \in Nat
    BY PlacementAssumption DEF SelectInv, SelectTyped, IsSelectCall
  <1>2. Len(picked') = Len(picked) + 1 /\ Len(picked) \in Nat
    BY <1>1
  <1>3. Len(picked') <= choice.n
    BY <1>1, <1>2 DEF Wanting
  <1>4. \A i \in 1..Len(picked') : picked'[i] = IF i = Len(picked) + 1 THEN h ELSE picked[i]
    BY <1>1, <1>2
  <1>5. \A i \in 1..Len(picked) : Position(choice, picked[i]) = i
    BY DEF RankInv
  <1>6. ASSUME NEW i \in 1..Len(picked') PROVE Position(choice, picked'[i]) = i
    <2>1. CASE i = Len(picked) + 1
      BY <1>4, <2>1
    <2>2. CASE i # Len(picked) + 1
      <3>1. i \in 1..Len(picked)
        BY <1>2, <2>2
      <3>2. picked'[i] = picked[i]
        BY <1>4, <2>2
      <3> QED  BY <1>5, <3>1, <3>2
    <2> QED  BY <2>1, <2>2
  <1> QED  BY <1>3, <1>6

LEMMA RankStart == SelectInit => RankInv
  <1> SUFFICES ASSUME NEW x \in SelectCalls, Selecting(x)
               PROVE  RankInv
    BY DEF SelectInit
  <1>1. x.n \in Nat /\ Heads(x) \subseteq Eligible(x)
    BY EligibleFinite, PlacementAssumption DEF IsSelectCall
  <1>2. PickedSet = {} /\ Len(picked) = 0
    BY DEF Selecting, PickedSet
  <1> QED  BY <1>1, <1>2 DEF Selecting, RankInv

LEMMA RankStep == SelectInv /\ RankInv /\ [SelectNext]_selectVars => RankInv'
  <1> SUFFICES ASSUME SelectInv, RankInv, [SelectNext]_selectVars
               PROVE  RankInv'
    OBVIOUS
  <1> DEFINE E == Eligible(choice)
             H == Heads(choice)
  <1>0. /\ choice \in SelectCalls /\ left \subseteq E /\ choice' = choice
        /\ E' = E /\ H' = H /\ H \subseteq E
    BY EligibleFinite
       DEF SelectInv, SelectTyped, SelectNext, VisitForSpread, SecondPass, VisitForCount, selectVars
  <1>1. ASSUME NEW h \in left, IsBestLeft(h), left' = left \ {h}
        PROVE  \A a \in E \ left', b \in left' : Better(choice, a, b)
    BY <1>1 DEF RankInv, IsBestLeft
  <1>2. ASSUME picked' = picked
        PROVE  /\ PickedSet' = PickedSet /\ Len(picked') <= choice'.n
               /\ \A i \in 1..Len(picked') : Position(choice', picked'[i]) = i
    BY <1>0, <1>2 DEF RankInv, PickedSet
  <1>3. CASE VisitForSpread
    <2>1. PICK h \in left :
            /\ IsBestLeft(h) /\ left' = left \ {h}
            /\ IF Dom(h) \in used THEN picked' = picked ELSE picked' = Append(picked, h)
      BY <1>3 DEF VisitForSpread, Dom
    <2>2. /\ pass = 1 /\ pass' = 1 /\ Wanting /\ h \in E /\ h \notin PickedSet
          /\ PickedSet = H \ left
      BY <1>0, <1>3 DEF VisitForSpread, RankInv
    <2>3. CASE Dom(h) \in used
      <3>1. PICK p \in PickedSet : Dom(p) = Dom(h)
        BY <2>2, <2>3 DEF SelectInv, SpreadInv
      <3>2. p \in E \ left /\ Better(choice, p, h)
        BY <1>0, <2>2, <3>1 DEF RankInv
      <3>3. h \notin H
        BY <1>0, <2>2, <3>1, <3>2, BetterOrders DEF Heads, Dom
      <3>4. PickedSet' = H \ left'
        BY <1>2, <2>1, <2>2, <2>3, <3>3
      <3> QED  BY <1>0, <1>1, <1>2, <2>1, <2>2, <2>3, <3>4 DEF RankInv
    <2>4. CASE Dom(h) \notin used
      <3>1. h \in H
        <4>1. ASSUME NEW b \in E \ {h}, Dom(b) = Dom(h)
              PROVE  Better(choice, h, b)
          <5>1. b \in left
            BY <2>2, <2>4, <4>1 DEF SelectInv, SpreadInv
          <5> QED  BY <2>1, <4>1, <5>1 DEF IsBestLeft
        <4> QED  BY <2>2, <4>1 DEF Heads, Dom
      <3>2. Position(choice, h) = Len(picked) + 1
        BY <2>1, <2>2, <3>1, PositionOfRest
      <3>3. PickedSet' = PickedSet \cup {h}
        BY <2>1, <2>2, <2>4, PickStep DEF SelectInv
      <3>4. /\ Len(picked') <= choice'.n
            /\ \A i \in 1..Len(picked') : Position(choice', picked'[i]) = i
        BY <1>0, <2>1, <2>2, <2>4, <3>2, PickedInOrder
      <3>5. PickedSet' = H \ left'
        BY <2>1, <2>2, <3>1, <3>3
      <3> QED  BY <1>0, <1>1, <2>1, <2>2, <3>4, <3>5 DEF RankInv
    <2> QED  BY <2>3, <2>4
  <1>4. CASE SecondPass
    <2>1. pass = 1 /\ pass' = 2 /\ left = {} /\ left' = E /\ picked' = picked
      BY <1>4 DEF SecondPass
    <2> QED  BY <1>0, <1>2, <2>1 DEF RankInv
  <1>5. CASE VisitForCount
    <2>1. PICK h \in left :
            /\ IsBestLeft(h) /\ left' = left \ {h}
            /\ picked' = IF h \in PickedSet THEN picked ELSE Append(picked, h)
      BY <1>5 DEF VisitForCount
    <2>2. /\ pass = 2 /\ pass' = 2 /\ Wanting /\ h \in E
          /\ PickedSet = H \cup (E \ left)
      BY <1>0, <1>5 DEF VisitForCount, RankInv
    <2>3. CASE h \in PickedSet
      <3>1. PickedSet' = H \cup (E \ left')
        BY <1>2, <2>1, <2>2, <2>3
      <3> QED  BY <1>0, <1>1, <1>2, <2>1, <2>2, <2>3, <3>1 DEF RankInv
    <2>4. CASE h \notin PickedSet
      <3>1. Position(choice, h) = Len(picked) + 1
        BY <2>1, <2>2, <2>4, PositionOfRest
      <3>2. PickedSet' = PickedSet \cup {h}
        BY <2>1, <2>2, <2>4, PickStep DEF SelectInv
      <3>3. /\ Len(picked') <= choice'.n
            /\ \A i \in 1..Len(picked') : Position(choice', picked'[i]) = i
        BY <1>0, <2>1, <2>2, <2>4, <3>1, PickedInOrder
      <3>4. PickedSet' = H \cup (E \ left')
        BY <2>1, <2>2, <3>2
      <3> QED  BY <1>0, <1>1, <2>1, <2>2, <3>3, <3>4 DEF RankInv
    <2> QED  BY <2>3, <2>4
  <1>6. CASE UNCHANGED selectVars
    BY <1>0, <1>2, <1>6 DEF selectVars, RankInv
  <1> QED  BY <1>3, <1>4, <1>5, <1>6 DEF SelectNext

(* For every call, the two loops return what Select says in one expression, *)
(* in that order: the best host of each domain, then the others, each group *)
(* best first (rank and both loops of select).                              *)
THEOREM LoopsMatch == SelectSpec => []MatchesSelect
  <1>1. ASSUME SelectInv, RankInv, Selected
        PROVE  /\ PickedSet = Select(choice)
               /\ \A i \in 1..Len(picked) : Position(choice, picked[i]) = i
    <2>1. PickedSet \subseteq Eligible(choice)
      BY <1>1, PickedEligible DEF SelectInv
    <2>2. Len(picked) \in Nat /\ choice.n \in Nat /\ Len(picked) <= choice.n
      BY <1>1, PlacementAssumption DEF SelectInv, SelectTyped, IsSelectCall, RankInv
    <2>3. \A i \in 1..Len(picked) : Position(choice, picked[i]) = i
      BY <1>1 DEF RankInv
    <2>4. ASSUME NEW h \in PickedSet PROVE Position(choice, h) <= choice.n
      <3>1. PICK i \in 1..Len(picked) : h = picked[i]
        BY DEF PickedSet
      <3> QED  BY <2>2, <2>3, <3>1
    <2>5. ASSUME NEW h \in Eligible(choice) \ PickedSet
          PROVE  ~(Position(choice, h) <= choice.n)
      <3>1. ~Wanting
        BY <1>1 DEF Selected, SelectInv, PickInv
      <3>2. Position(choice, h) \in Nat /\ Position(choice, h) > Len(picked)
        BY <1>1, PositionOfRest
      <3> QED  BY <2>2, <3>1, <3>2 DEF Wanting
    <2> QED  BY <2>1, <2>3, <2>4, <2>5 DEF Select
  <1>2. SelectInv /\ RankInv => MatchesSelect
    BY <1>1 DEF MatchesSelect
  <1> QED  BY <1>2, SelectStart, SelectStep, RankStart, RankStep, PTL DEF SelectSpec

=============================================================================
