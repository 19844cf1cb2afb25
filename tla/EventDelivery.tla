---------------------------- MODULE EventDelivery ----------------------------
(***************************************************************************)
(* What a transport promises the service about the events it hands over:   *)
(* an event that reaches the bus was handed over; an event reported as     *)
(* delivered is on the bus; every other one ends in a logged failure,      *)
(* unless the process itself stops.  A failure may be reported of an event *)
(* that still arrives, before or after the report.                         *)
(***************************************************************************)

CONSTANT Events

VARIABLES
    fate,       \* what the process knows of each event
    arrived     \* the events the bus has accepted

vars == <<fate, arrived>>

Open   == {"unpublished", "pending"}
Closed == {"delivered", "logged", "lost"}

Init ==
    /\ fate = [e \in Events |-> "unpublished"]
    /\ arrived = {}

Becomes(e, f) == fate' = [fate EXCEPT ![e] = f]

Take(e) ==
    /\ fate[e] = "unpublished"
    /\ Becomes(e, "pending")
    /\ UNCHANGED arrived

\* Refused on the spot, in the caller's hands.
Refuse(e) ==
    /\ fate[e] = "unpublished"
    /\ Becomes(e, "logged")
    /\ UNCHANGED arrived

Arrive(e) ==
    /\ fate[e] \in {"pending", "logged", "lost"}
    /\ arrived' = arrived \cup {e}
    /\ UNCHANGED fate

Confirm(e) ==
    /\ fate[e] = "pending"
    /\ e \in arrived
    /\ Becomes(e, "delivered")
    /\ UNCHANGED arrived

GiveUp(e) ==
    /\ fate[e] = "pending"
    /\ Becomes(e, "logged")
    /\ UNCHANGED arrived

\* The process stops: whatever was pending is nobody's any more.
Stop ==
    /\ fate' = [e \in Events |-> IF fate[e] = "pending" THEN "lost" ELSE fate[e]]
    /\ UNCHANGED arrived

Next ==
    \/ \E e \in Events :
         Take(e) \/ Refuse(e) \/ Arrive(e) \/ Confirm(e) \/ GiveUp(e)
    \/ Stop

Spec == Init /\ [][Next]_vars
=============================================================================
