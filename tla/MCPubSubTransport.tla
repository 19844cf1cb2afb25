-------------------------- MODULE MCPubSubTransport --------------------------
(* Instances of PubSubTransport small enough for TLC. *)
EXTENDS PubSubTransport, TLC

CONSTANTS e1, e2, d1

\* All the events of a run are about one document.
OneDocument == [e \in Events |-> d1]

EventSymmetry == Permutations(Events)
=============================================================================
