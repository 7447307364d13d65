--------------------------- MODULE MCApiRequests ---------------------------
EXTENDS ApiRequests
CONSTANTS k1, none
(* A PATCH that activates, which changes nothing while the endpoint is active. *)
MCActivation == {[is_active |-> TRUE, settings |-> none]}
(* And one of another column. *)
MCBodies == MCActivation \cup {[is_active |-> none, settings |-> 1]}
=============================================================================
