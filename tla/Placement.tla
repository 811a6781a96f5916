----------------------------- MODULE Placement -----------------------------
(***************************************************************************)
(* Which hosts a publisher asks to pin an object: the candidates its       *)
(* client collects (candidate_hosts in src/client.rs) and the two passes   *)
(* of select over them (src/placement.rs), one look at a candidate per     *)
(* step.  Select is the same as one expression.  PinIndex and PinLife let  *)
(* placement be any choice of at most n hosts that are not excluded.       *)
(***************************************************************************)
EXTENDS Integers, FiniteSets, Sequences

CONSTANTS
    Nodes,       \* node ids, which the code orders
    Unknown,     \* a blank fault domain
    NoNode,      \* no id: the publisher's node did not answer
    SelectCalls  \* calls to look at, see IsSelectCall

(* A row of the atlas with what the chain's history adds to it.             *)
IsListing(l) ==
    /\ {l.work, l.seen, l.mem} \subseteq Nat
    /\ \A i \in 1..Len(l.tags) : {"key", "value"} \subseteq DOMAIN l.tags[i]

(* advertised: who offers pin:host on the DHT; exclude: who is not asked.   *)
IsSelectCall(x) ==
    /\ DOMAIN x.atlas \subseteq Nodes /\ \A h \in DOMAIN x.atlas : IsListing(x.atlas[h])
    /\ x.advertised \subseteq Nodes /\ x.exclude \subseteq Nodes
    /\ x.self \in Nodes \cup {NoNode} /\ x.n \in Nat

ASSUME PlacementAssumption ==
    /\ Nodes \subseteq Int /\ IsFiniteSet(Nodes)
    /\ NoNode \notin Nodes
    /\ \A x \in SelectCalls : IsSelectCall(x)

VARIABLES
    choice,  \* the call: candidates, n and exclude
    pass,    \* the first or the second loop of select
    left,    \* the candidates this loop has not come to
    picked,  \* hosts chosen, in order
    used     \* used_domains

selectVars == <<choice, pass, left, picked, used>>

----------------------------------------------------------------------------
(* Candidates.                                                              *)

(* fault_domain_from_tags: the first region, else the first zone, else the  *)
(* first asn.                                                               *)
FaultDomain(tags) ==
    LET keyed(k) == {i \in 1..Len(tags) : tags[i].key = k}
        kind == CASE keyed("region") # {} -> "region"
                  [] keyed("region") = {} /\ keyed("zone") # {} -> "zone"
                  [] OTHER -> "asn"
    IN  IF keyed(kind) = {} THEN Unknown
        ELSE tags[CHOOSE i \in keyed(kind) : \A j \in keyed(kind) : i <= j].value

(* A host without a domain is a domain of its own.                          *)
DomainOf(x, h) ==
    LET d == FaultDomain(x.atlas[h].tags)
    IN  IF d = Unknown THEN <<"node", h>> ELSE <<"named", d>>

(* Mutant: the publisher asks itself.                                       *)
CandidatesWithSelf(x) == DOMAIN x.atlas \cap x.advertised

(* candidate_hosts: in the atlas, on offer, and not the publisher's node if *)
(* that is known.                                                           *)
Candidates(x) == (DOMAIN x.atlas \cap x.advertised) \ {x.self}

Eligible(x) == Candidates(x) \ x.exclude

(* Mutant: what is left to break ties comes before the work delivered.      *)
BetterByLiveness(x, a, b) ==
    LET key(h) == <<x.atlas[h].seen, -x.atlas[h].work, -x.atlas[h].mem, h>>
    IN  \E i \in 1..4 : /\ key(a)[i] < key(b)[i]
                        /\ \A j \in 1..(i - 1) : key(a)[j] = key(b)[j]

(* The order of rank: more work delivered, seen more recently, more memory, *)
(* smaller id.                                                              *)
Better(x, a, b) ==
    LET key(h) == <<-x.atlas[h].work, x.atlas[h].seen, -x.atlas[h].mem, h>>
    IN  \E i \in 1..4 : /\ key(a)[i] < key(b)[i]
                        /\ \A j \in 1..(i - 1) : key(a)[j] = key(b)[j]

----------------------------------------------------------------------------
(* The loops.                                                               *)

Selecting(x) ==
    /\ choice = x
    /\ pass = 1
    /\ left = Eligible(x)
    /\ picked = <<>>
    /\ used = {}

SelectInit == \E x \in SelectCalls : Selecting(x)

Wanting == Len(picked) < choice.n

IsBestLeft(h) == h \in left /\ \A o \in left \ {h} : Better(choice, h, o)

PickedSet == {picked[i] : i \in 1..Len(picked)}

(* Mutant: the domain taken is not noted.                                   *)
VisitForgetful ==
    /\ pass = 1 /\ Wanting
    /\ \E h \in left :
        /\ IsBestLeft(h)
        /\ left' = left \ {h}
        /\ picked' = Append(picked, h)
        /\ UNCHANGED used
    /\ UNCHANGED <<choice, pass>>

(* The first loop takes the best host of each domain.                       *)
VisitForSpread ==
    /\ pass = 1 /\ Wanting
    /\ \E h \in left :
        /\ IsBestLeft(h)
        /\ left' = left \ {h}
        /\ IF DomainOf(choice, h) \in used
           THEN UNCHANGED <<picked, used>>
           ELSE picked' = Append(picked, h) /\ used' = used \cup {DomainOf(choice, h)}
    /\ UNCHANGED <<choice, pass>>

SecondPass ==
    /\ pass = 1 /\ Wanting /\ left = {}
    /\ pass' = 2 /\ left' = Eligible(choice)
    /\ UNCHANGED <<choice, picked, used>>

(* Mutant: the second loop does not look who is picked already.             *)
VisitTwice ==
    /\ pass = 2 /\ Wanting
    /\ \E h \in left :
        /\ IsBestLeft(h)
        /\ left' = left \ {h}
        /\ picked' = Append(picked, h)
    /\ UNCHANGED <<choice, pass, used>>

(* The second takes the best of the others.                                 *)
VisitForCount ==
    /\ pass = 2 /\ Wanting
    /\ \E h \in left :
        /\ IsBestLeft(h)
        /\ left' = left \ {h}
        /\ picked' = IF h \in PickedSet THEN picked ELSE Append(picked, h)
    /\ UNCHANGED <<choice, pass, used>>

Selected == ~Wanting \/ (pass = 2 /\ left = {})

SelectNext ==
    \/ VisitForSpread \/ SecondPass \/ VisitForCount
    \/ Selected /\ UNCHANGED selectVars

SelectSpec == SelectInit /\ [][SelectNext]_selectVars

----------------------------------------------------------------------------

(* The best host of each domain comes first, then everybody else; each      *)
(* group best-first.                                                        *)
Position(x, h) ==
    LET all == Eligible(x)
        heads == {a \in all : \A b \in all \ {a} :
                     DomainOf(x, a) = DomainOf(x, b) => Better(x, a, b)}
        ahead(S) == Cardinality({o \in S : Better(x, o, h)})
    IN  IF h \in heads THEN 1 + ahead(heads)
        ELSE 1 + Cardinality(heads) + ahead(all \ heads)

(* What select returns, in one expression.                                  *)
Select(x) == {h \in Eligible(x) : Position(x, h) <= x.n}

(* The two loops return that, in that order (select, rank).                 *)
MatchesSelect ==
    Selected => /\ PickedSet = Select(choice)
                /\ \A i \in 1..Len(picked) : Position(choice, picked[i]) = i

(* As many hosts as were asked for, or all there are, and none twice, none  *)
(* that is excluded, does not offer to pin or is the publisher (select's    *)
(* second pass must not repeat the first).                                  *)
FactorFilled ==
    Selected =>
        /\ Cardinality(PickedSet) = Len(picked)
        /\ PickedSet \subseteq choice.advertised \ (choice.exclude \cup {choice.self})
        /\ Wanting => PickedSet = Eligible(choice)

(* Two picked hosts share a domain only if every domain that could be had   *)
(* has one (the first pass of select).                                      *)
NoAvoidableOverlap ==
    Selected =>
        \A a, b \in PickedSet :
            a # b /\ DomainOf(choice, a) = DomainOf(choice, b) =>
                \A o \in Eligible(choice) :
                    \E p \in PickedSet : DomainOf(choice, p) = DomainOf(choice, o)

(* A host with more delivered work is not passed over for one of its own    *)
(* domain with less.                                                        *)
ProvenFirst ==
    Selected =>
        \A p \in PickedSet, o \in Eligible(choice) \ PickedSet :
            DomainOf(choice, p) = DomainOf(choice, o) =>
                choice.atlas[p].work >= choice.atlas[o].work

=============================================================================
