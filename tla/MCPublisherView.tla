-------------------------- MODULE MCPublisherView --------------------------
(* One request at a time, real sizes: the setting of the publisher's view.  *)
EXTENDS PublisherView

MCSize == [c \in Cids |-> c]

MCHonest == [c \in Cids |-> {Size[c]}]

=============================================================================
