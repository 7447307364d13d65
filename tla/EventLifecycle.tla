--------------------------- MODULE EventLifecycle ---------------------------
(***************************************************************************)
(* What WebhookRelay promises for an event, with nothing of how: once      *)
(* accepted it waits, is tried a bounded number of times, and ends either  *)
(* delivered or in the dead letter queue, for good.                        *)
(***************************************************************************)
EXTENDS Naturals

CONSTANTS Events, RetryLimits

VARIABLES phase, tries

lifecycle == <<phase, tries>>

Final == {"delivered", "dead_lettered"}

WithinLimit(n) == \E limit \in RetryLimits : n <= limit

LifecycleInit ==
    /\ phase = [e \in Events |-> "unborn"]
    /\ tries = [e \in Events |-> 0]

Accept(e) ==
    /\ phase[e] = "unborn"
    /\ phase' = [phase EXCEPT ![e] = "waiting"]
    /\ UNCHANGED tries

(* An attempt failed and at least one more is left. *)
Retry(e) ==
    /\ phase[e] = "waiting"
    /\ WithinLimit(tries[e] + 2)
    /\ tries' = [tries EXCEPT ![e] = @ + 1]
    /\ UNCHANGED phase

Succeed(e) ==
    /\ phase[e] = "waiting"
    /\ WithinLimit(tries[e] + 1)
    /\ tries' = [tries EXCEPT ![e] = @ + 1]
    /\ phase' = [phase EXCEPT ![e] = "delivered"]

(* With a last failing attempt, or without one (the endpoint is inactive). *)
GiveUp(e) ==
    /\ phase[e] = "waiting"
    /\ \/ UNCHANGED tries
       \/ WithinLimit(tries[e] + 1) /\ tries' = [tries EXCEPT ![e] = @ + 1]
    /\ phase' = [phase EXCEPT ![e] = "dead_lettered"]

LifecycleNext ==
    \E e \in Events : Accept(e) \/ Retry(e) \/ Succeed(e) \/ GiveUp(e)

Lifecycle == LifecycleInit /\ [][LifecycleNext]_lifecycle

=============================================================================
