------------------------------ MODULE MCLoops ------------------------------
(* The two greedy loops of the program, evict_to_fit and select, side by    *)
(* side: a behaviour is a call of one of them.  Every held-set over three   *)
(* CIDs with small entries and every target, at height 1; every atlas of    *)
(* three nodes.                                                             *)
EXTENDS EvictLoop, Placement

CONSTANTS MCRents, MCAccesses, MCStats, MCTags

MCEntries == [bytes : 0..MaxBytes, rent : MCRents, expiry : {0, 1}, access : MCAccesses]

MCCases ==
    [set : UNION {[S -> MCEntries] : S \in SUBSET Cids},
     target : 0..(Cardinality(Cids) * MaxBytes), height : {1}]

NoCase == [set |-> Empty, target |-> 0, height |-> 1]

Tag(k, v) == [key |-> k, value |-> v]

(* No tag, a zone alone, and a zone written before a region.                *)
MCAllTags == {<<>>, <<Tag("zone", "us")>>, <<Tag("zone", "us"), Tag("region", "eu")>>}

MCFewTags == {<<Tag("region", "eu")>>, <<Tag("region", "us")>>}

Stats(w, s, m) == [work |-> w, seen |-> s, mem |-> m]

(* Ties in every place of the order.                                        *)
MCAllStats == {Stats(1, 1, 0), Stats(0, 0, 0), Stats(0, 0, 1)}

MCListings ==
    {[work |-> s.work, seen |-> s.seen, mem |-> s.mem, tags |-> t] : s \in MCStats, t \in MCTags}

NoCall == [atlas |-> Empty, advertised |-> {}, self |-> NoNode, exclude |-> {}, n |-> 0]

(* All nodes offer to pin, or the last does not, or it is the publisher's.  *)
MCSelectCalls ==
    LET request(a, adv, me, out, k) ==
            [atlas |-> a, advertised |-> adv, self |-> me, exclude |-> out, n |-> k]
    IN  {request(a, w[1], w[2], out, k) :
            a \in [Nodes -> MCListings],
            w \in {<<Nodes, NoNode>>, <<Nodes \ {3}, NoNode>>, <<Nodes, 3>>},
            out \in {{}, {1}}, k \in 1..3} \cup {NoCall}

LoopsInit ==
    \/ Init /\ Selecting(NoCall)
    \/ SelectInit /\ Called(NoCase)

LoopsNext ==
    \/ Next /\ UNCHANGED selectVars
    \/ SelectNext /\ UNCHANGED loopVars

LoopsSpec == LoopsInit /\ [][LoopsNext]_<<loopVars, selectVars>>

=============================================================================
