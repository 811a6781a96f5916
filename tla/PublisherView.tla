--------------------------- MODULE PublisherView ---------------------------
(***************************************************************************)
(* The host seen from the publisher that pays it.  The publisher knows     *)
(* only replies: src/client.rs records a replica when an offer is answered *)
(* `accepted`, and the lease when a renewal is answered `renewed`.  The    *)
(* module adds that knowledge to PinHost as a history variable and asks    *)
(* whether it can be relied on.                                            *)
(***************************************************************************)
EXTENDS PinHost

VARIABLES
    promise,    \* CID -> the lease the publisher was last told it has
    dismissed   \* CIDs the publisher was last told are released

viewVars == <<vars, promise, dismissed>>

(* A request about a CID puts the old terms in question: from the moment it *)
(* is sent until the reply, and for good if there is no positive reply, the *)
(* publisher relies on nothing.                                             *)
Asked(w) == pc[w] = "idle" /\ pc'[w] # "idle" /\ req'[w].op \notin {"audit", "status"}

Told(w, ops) ==
    /\ up' /\ pc[w] = "reply" /\ pc'[w] = "idle"
    /\ req[w].op \in ops /\ answer[w].ok

(* offer (OfferResp.accepted), renew (RenewResp.renewed) and release        *)
(* (ReleaseResp.released) in client.rs.                                     *)
Listen ==
    LET asked == {req'[w].cid : w \in {v \in Workers : Asked(v)}}
        told  == {w \in Workers : Told(w, {"offer", "renew"})}
        new   == {cid(w) : w \in told}
    IN  /\ promise' =
                [c \in (DOMAIN promise \cup new) \ asked |->
                    IF c \in new
                    THEN answer[CHOOSE w \in told : cid(w) = c].expiry
                    ELSE promise[c]]
        /\ dismissed' = (dismissed \ asked)
               \cup {cid(w) : w \in {v \in Workers : Told(v, {"release"})}}

ViewInit == Init /\ promise = Empty /\ dismissed = {}

ViewSpec == ViewInit /\ [][Next /\ Listen]_viewVars

ViewTypeOK ==
    /\ TypeOK
    /\ DOMAIN promise \subseteq Cids /\ promise \in [DOMAIN promise -> Nat]
    /\ dismissed \subseteq Cids

(* What a host has acknowledged it holds until the lease it acknowledged is *)
(* over, whatever crashes, collections, other requests and renewals of      *)
(* other pins happen meanwhile.  True of a host that serves one request at  *)
(* a time, is offered real sizes, and whose file system takes every save.   *)
PublisherCanRely ==
    up => \A c \in DOMAIN promise :
            \/ c \in DOMAIN held
            \/ promise[c] # 0 /\ promise[c] <= tip

(* A renewal or an offer never leaves the host on a shorter lease than the  *)
(* publisher was told.                                                      *)
LeaseAsTold ==
    up => \A c \in DOMAIN promise \cap DOMAIN held :
            held[c].expiry = promise[c]

(* A pin the publisher was told is released stays gone, over any restart,   *)
(* until it is asked for again (the release arm of handle_inner saves       *)
(* before it answers).                                                      *)
ReleaseIsFinal ==
    /\ up => dismissed \cap DOMAIN held = {}
    /\ dismissed \cap DOMAIN disk = {}

=============================================================================
