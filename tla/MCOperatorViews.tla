-------------------------- MODULE MCOperatorViews --------------------------
EXTENDS OperatorViews
CONSTANTS e1, e2, e3, p1, p2
(* Two events of one endpoint, one of another. *)
MCEndpointOf == [e \in Events |-> IF e = e3 THEN p2 ELSE p1]
(* Events and circuits share neither an action nor a property: the run lets *)
(* the one or the other move, and the handlers read both.                   *)
EventsOrCircuits == Rows = {} \/ Keyed = {}
=============================================================================
