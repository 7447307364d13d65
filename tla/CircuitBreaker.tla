--------------------------- MODULE CircuitBreaker ---------------------------
(***************************************************************************)
(* services/circuit_breaker.py at the level of whole calls: what one       *)
(* uninterrupted call of get_state, record_success, record_failure or      *)
(* reset does to the breaker of one endpoint.  (CircuitBreakerRedis models *)
(* the same methods one Redis command at a time.)                          *)
(***************************************************************************)
EXTENDS Naturals

CONSTANT FailureThreshold     \* CB_FAILURE_THRESHOLD

ASSUME ThresholdAssumption == FailureThreshold \in Nat \ {0}

CircuitStates == {"closed", "open", "half_open"}

(* failures saturates at the threshold: the code only compares it with >=.  *)
(* aged: more than recovery_timeout has passed since opened_at was written. *)
Circuits ==
    [state : CircuitStates, failures : 0..FailureThreshold, aged : BOOLEAN]

ClosedCircuit == [state |-> "closed", failures |-> 0, aged |-> FALSE]

(* get_state: reading an open circuit that has aged half-opens it. *)
Observed(c) ==
    IF c.state = "open" /\ c.aged THEN [c EXCEPT !.state = "half_open"] ELSE c

IsAllowed(c) == Observed(c).state # "open"

AfterSuccess(c) ==
    IF Observed(c).state = "half_open" THEN ClosedCircuit ELSE Observed(c)

OneMoreFailure(c) ==
    [c EXCEPT !.failures = IF @ < FailureThreshold THEN @ + 1 ELSE @]

(* INCR comes first, the state is observed after it. *)
AfterFailure(c) ==
    LET o == Observed(OneMoreFailure(c)) IN
    IF \/ o.state = "closed" /\ o.failures = FailureThreshold
       \/ o.state = "half_open"
    THEN [o EXCEPT !.state = "open", !.aged = FALSE]
    ELSE o

(* The failures key expires. *)
WindowLapsed(c) == [c EXCEPT !.failures = 0]

(* recovery_timeout passes. *)
Aged(c) == [c EXCEPT !.aged = TRUE]

=============================================================================
