------------------------ MODULE DeliveryLedgerProofs ------------------------
(***************************************************************************)
(* The books of DeliveryPipeline, from what a step can do to the rows of   *)
(* an event: audit log, dead letters, attempts, and the abstract life; and *)
(* what the receivers see: POSTs against rows.                             *)
(***************************************************************************)
EXTENDS DeliverySafetyProofs, FiniteSetTheorems

(* An event in the books: its audit log, its dead letters, its attempts. *)
Logged(e) ==
    /\ Len(attempts[e]) = event[e].attempt_count
    /\ \A i \in 1..Len(attempts[e]) :
          attempts[e][i] =
              [attempt_number |-> i,
               success |-> /\ i = event[e].attempt_count
                           /\ event[e].status = "delivered"]

Booked(e) ==
    dlq[e] = IF event[e].status = "dead_lettered"
             THEN <<event[e].attempt_count>> ELSE << >>

Bounded(e) ==
    /\ ~Exists(e) => event[e].attempt_count = 0
    /\ Exists(e) =>
          \E limit \in limits[e] :
              /\ event[e].attempt_count <= limit
              /\ ~Settled(e) => event[e].attempt_count < limit

Books(e) == Logged(e) /\ Booked(e) /\ Bounded(e)

LedgerInv == OwnInv /\ \A e \in Events : Books(e)

LEMMA EventTypes ==
    ASSUME OwnInv, NEW e \in Events
    PROVE  /\ event[e].attempt_count \in Nat
           /\ event[e].status \in Statuses
           /\ attempts[e] \in Seq(AttemptRows)
           /\ dlq[e] \in Seq(Nat)
           /\ limits[e] \subseteq RetryLimits
  BY DEF OwnInv, TypeInv, TypeOK, EventRows

LEMMA InitBooks == ASSUME Init, NEW e \in Events PROVE Books(e)
<1>1. Logged(e)
  BY DEF Init, Logged
<1>2. Booked(e)
  BY DEF Init, Booked
<1>3. Bounded(e)
  BY DEF Init, Bounded, Exists
<1> QED BY <1>1, <1>2, <1>3 DEF Books

(* An attempt adds the next row to the log, and is a success if the event    *)
(* ends delivered.                                                          *)
LEMMA AttemptedLogged ==
    ASSUME OwnInv, NEW e \in Events, Logged(e), Attempted(e, "delivered")
              \/ Attempted(e, "failed") \/ Attempted(e, "dead_lettered")
    PROVE  Logged(e)'
<1> DEFINE n == event[e].attempt_count
           s == event'[e].status
<1>1. n \in Nat /\ attempts[e] \in Seq(AttemptRows) /\ Len(attempts[e]) = n
  BY EventTypes DEF Logged
<1>2. PICK won \in BOOLEAN :
          /\ won <=> s = "delivered"
          /\ attempts'[e] = Append(attempts[e], [attempt_number |-> n + 1, success |-> won])
  BY DEF Attempted
<1>3. event'[e].attempt_count = n + 1 /\ event[e].status # "delivered"
  BY DEF Attempted, Waiting
<1>4. [attempt_number |-> n + 1, success |-> won] \in [attempt_number : Nat, success : BOOLEAN]
  BY <1>1
<1>5. Len(attempts'[e]) = n + 1
  BY <1>1, <1>2, <1>4 DEF AttemptRows
<1>6. \A i \in 1..n : attempts'[e][i] = attempts[e][i]
  BY <1>1, <1>2, <1>4 DEF AttemptRows
<1>7. attempts'[e][n + 1] = [attempt_number |-> n + 1, success |-> won]
  BY <1>1, <1>2, <1>4 DEF AttemptRows
<1>8. ASSUME NEW i \in 1..(n + 1)
      PROVE  attempts'[e][i] =
                 [attempt_number |-> i, success |-> i = n + 1 /\ s = "delivered"]
  <2>1. CASE i = n + 1
    <3>1. won = (i = n + 1 /\ s = "delivered")
      BY <1>2, <2>1
    <3> QED BY <1>7, <2>1, <3>1
  <2>2. CASE i # n + 1
    <3>1. i \in 1..n
      BY <1>1, <2>2
    <3>2. attempts[e][i] =
              [attempt_number |-> i, success |-> i = n /\ event[e].status = "delivered"]
      BY <1>1, <3>1 DEF Logged
    <3>3. (i = n /\ event[e].status = "delivered") = (i = n + 1 /\ s = "delivered")
      BY <1>3, <2>2
    <3> QED BY <1>6, <3>1, <3>2, <3>3
  <2> QED BY <2>1, <2>2
<1> QED BY <1>3, <1>5, <1>8 DEF Logged

(* A step that logs nothing leaves the log true of the new row. *)
LEMMA UnattemptedLogged ==
    ASSUME OwnInv, NEW e \in Events, Logged(e), Deferred(e) \/ GivenUp(e)
    PROVE  Logged(e)'
<1>1. /\ attempts'[e] = attempts[e]
      /\ event'[e].attempt_count = event[e].attempt_count
      /\ event[e].status # "delivered"
      /\ event'[e].status # "delivered"
  BY DEF Deferred, GivenUp, Waiting
<1> DEFINE n == event[e].attempt_count
<1>2. \A i \in 1..Len(attempts[e]) :
          (i = n /\ event[e].status = "delivered") = (i = n /\ event'[e].status = "delivered")
  BY <1>1
<1> QED BY <1>1, <1>2 DEF Logged

LEMMA FirstEntry == ASSUME NEW n \in Nat PROVE Append(<< >>, n) = <<n>>
  OBVIOUS

(* PATCH adds to the limits of an event, and nothing takes one away. *)
LEMMA LimitsGrow ==
    ASSUME TypeInv, RowsConsistent, [Next]_vars, NEW e \in Events, Exists(e)
    PROVE  limits[e] \subseteq limits'[e]
<1> USE DEF history
<1>1. ASSUME NEW d \in Events, ApiCommit(d) PROVE limits[e] \subseteq limits'[e]
  <2>1. d # e
    BY <1>1 DEF ApiCommit, RowsConsistent, Exists
  <2> QED BY <1>1, <2>1 DEF ApiCommit, TypeInv, TypeOK
<1>2. ASSUME NEW p \in Endpoints, UpdateEndpoint(p) PROVE limits[e] \subseteq limits'[e]
  BY <1>2 DEF UpdateEndpoint
<1>3. ASSUME NEW d \in Events,
             \/ ApiInsert(d) \/ ApiEnqueue(d) \/ ApiAbort(d)
             \/ Drop(d) \/ Poll(d) \/ EventTimers(d)
      PROVE  UNCHANGED limits
  BY <1>3 DEF ApiInsert, ApiEnqueue, ApiAbort, Drop, Poll, PollEnqueue,
     PollEnqueueFails, EventTimers, TimerFires, LeaseExpires, ResultExpires
<1>4. ASSUME NEW w \in Workers,
             \/ Load(w) \/ DeadLetterInactive(w) \/ Gate(w) \/ RescheduleOpen(w)
             \/ Post(w) \/ Respond(w) \/ RecordOutcome(w) \/ ConcludeDelivered(w)
             \/ ConcludeRetry(w) \/ ConcludeDeadLetter(w) \/ Finish(w)
             \/ \E d \in Events : Start(w, d)
      PROVE  UNCHANGED limits
  BY <1>4 DEF Load, DeadLetterInactive, Gate, RescheduleOpen, Post, Respond,
     RecordOutcome, ConcludeDelivered, ConcludeRetry, ConcludeDeadLetter, Finish, Start
<1>5. ASSUME NEW w \in Workers, Fail(w) PROVE UNCHANGED limits
  BY <1>5 DEF Fail, Abort, JobTimeout, Shutdown, Crash
<1>6. ASSUME NEW p \in Endpoints, CircuitAges(p) \/ FailureWindowLapses(p)
      PROVE  UNCHANGED limits
  BY <1>6 DEF CircuitAges, FailureWindowLapses
<1>7. ASSUME PollRead \/ PollLost \/ UNCHANGED vars PROVE UNCHANGED limits
  BY <1>7 DEF PollRead, PollLost, vars
<1> QED BY <1>1, <1>2, <1>3, <1>4, <1>5, <1>6, <1>7 DEF Next, Deliver, Api

LEMMA StepBooks ==
    ASSUME OwnInv, OwnInv', [Next]_vars, NEW e \in Events, Books(e)
    PROVE  Books(e)'
<1>1. RowStep(e)
  BY RowSteps
<1>2. /\ event[e].attempt_count \in Nat
      /\ limits[e] \subseteq Nat
      /\ Exists(e) => limits[e] \subseteq limits'[e]
  BY EventTypes, LimitsGrow, PipelineAssumption DEF OwnInv
<1>3. CASE UNCHANGED <<event[e], attempts[e], dlq[e]>>
  BY <1>2, <1>3 DEF Books, Logged, Booked, Bounded, Exists, Settled
<1>4. CASE Deferred(e)
  <2>1. Logged(e)'
    BY <1>4, UnattemptedLogged DEF Books
  <2>2. Booked(e)'
    BY <1>4 DEF Books, Booked, Deferred
  <2>3. Bounded(e)'
    <3>1. CASE Exists(e)
      BY <1>2, <1>4, <3>1 DEF Books, Bounded, Exists, Deferred, Settled, Terminal
    <3>2. CASE ~Exists(e)
      <4> DEFINE n == endpoint'[EndpointOf[e]].max_retries
      <4>1. Exists(e)' /\ event'[e].attempt_count = 0
        BY <1>4, <3>2 DEF Books, Bounded, Exists, Deferred
      <4>2. n \in limits'[e]
        BY <4>1 DEF OwnInv, LimitsKept
      <4>3. n \in Nat /\ 0 < n
        <5>1. EndpointOf[e] \in Endpoints /\ endpoint' \in [Endpoints -> EndpointRows]
          BY PipelineAssumption DEF OwnInv, TypeInv, TypeOK
        <5>2. n \in RetryLimits
          BY <5>1 DEF EndpointRows
        <5> HIDE DEF n
        <5> QED BY <5>2, PipelineAssumption
      <4> QED BY <4>1, <4>2, <4>3 DEF Bounded
    <3> QED BY <3>1, <3>2
  <2> QED BY <2>1, <2>2, <2>3 DEF Books
<1>5. CASE GivenUp(e)
  <2>1. Logged(e)'
    BY <1>5, UnattemptedLogged DEF Books
  <2>2. Booked(e)'
    <3>1. dlq[e] = << >>
      BY <1>5 DEF Books, Booked, GivenUp, Waiting
    <3>2. dlq'[e] = <<event[e].attempt_count>>
      BY <1>2, <1>5, <3>1, FirstEntry DEF GivenUp
    <3> QED BY <1>5, <3>2 DEF Booked, GivenUp
  <2>3. Bounded(e)'
    BY <1>2, <1>5 DEF Books, Bounded, Exists, GivenUp, Waiting, Settled, Terminal
  <2> QED BY <2>1, <2>2, <2>3 DEF Books
<1>6. ASSUME NEW status \in {"delivered", "failed", "dead_lettered"}, Attempted(e, status)
      PROVE  Books(e)'
  <2> Exists(e) /\ Exists(e)'
    BY <1>6 DEF Attempted, Waiting, Exists
  <2>1. Logged(e)'
    BY <1>6, AttemptedLogged DEF Books
  <2>2. Booked(e)'
    <3>1. dlq[e] = << >>
      BY <1>6 DEF Books, Booked, Attempted, Waiting
    <3>2. dlq'[e] = IF status = "dead_lettered"
                    THEN <<event[e].attempt_count + 1>> ELSE << >>
      BY <1>2, <1>6, <3>1, FirstEntry DEF Attempted
    <3> QED BY <1>6, <3>2 DEF Booked, Attempted
  <2>3. CASE status = "failed"
    <3>1. PICK limit \in limits[e] : event[e].attempt_count + 1 < limit
      BY <1>6, <2>3 DEF Attempted
    <3> QED BY <1>2, <1>6, <2>1, <2>2, <3>1 DEF Books, Bounded, Attempted
  <2>4. CASE status # "failed"
    <3>1. PICK limit \in limits[e] : event[e].attempt_count < limit
      BY <1>6 DEF Books, Bounded, Attempted, Waiting, Settled, Terminal
    <3>2. Settled(e)'
      BY <1>6, <2>4 DEF Attempted, Settled, Terminal
    <3>3. event'[e].attempt_count <= limit /\ limit \in limits'[e]
      BY <1>2, <1>6, <3>1, PipelineAssumption DEF Attempted
    <3>4. Bounded(e)'
      BY <3>2, <3>3 DEF Bounded
    <3> QED BY <2>1, <2>2, <3>4 DEF Books
  <2> QED BY <2>3, <2>4
<1> QED BY <1>1, <1>3, <1>4, <1>5, <1>6 DEF RowStep

LEMMA LedgerInvHolds ==
    ASSUME ~LeaseMayLapse
    PROVE  Spec => []LedgerInv
<1>1. OwnInv /\ Init => LedgerInv
  BY InitBooks DEF LedgerInv
<1>2. LedgerInv /\ OwnInv' /\ [Next]_vars => LedgerInv'
  BY StepBooks DEF LedgerInv
<1>3. Spec => []OwnInv
  BY OwnInvHolds
<1> QED BY <1>1, <1>2, <1>3, PTL DEF Spec

(* The DLQ has one entry for each dead-lettered event, with the number of    *)
(* its attempts, and none for any other: mark_dead_lettered and the insert   *)
(* of the entry never come apart.                                           *)
THEOREM DeadLetterLedgerHolds ==
    ASSUME ~LeaseMayLapse
    PROVE  Spec => []DeadLetterLedger
<1>1. LedgerInv => DeadLetterLedger
  BY DEF LedgerInv, Books, Booked, DeadLetterLedger
<1> QED BY LedgerInvHolds, <1>1, PTL

(* delivery_attempts is the event's history: attempts 1 to attempt_count,    *)
(* and a success only as the last of a delivered one.                       *)
THEOREM AuditLogMatchesEventHolds ==
    ASSUME ~LeaseMayLapse
    PROVE  Spec => []AuditLogMatchesEvent
<1>1. LedgerInv => AuditLogMatchesEvent
  BY DEF LedgerInv, Books, Logged, AuditLogMatchesEvent
<1> QED BY LedgerInvHolds, <1>1, PTL

(* should_retry keeps attempt_count within a max_retries that the row of the *)
(* event's endpoint has held since the event was committed, however PATCH   *)
(* changes it during the attempts.                                          *)
THEOREM AttemptsBoundedHolds ==
    ASSUME ~LeaseMayLapse
    PROVE  Spec => []AttemptsBounded
<1>1. LedgerInv => AttemptsBounded
  BY DEF LedgerInv, Books, Bounded, AttemptsBounded
<1> QED BY LedgerInvHolds, <1>1, PTL

-----------------------------------------------------------------------------
(* The abstract life *)

(* A commit writes the row of one event. *)
LEMMA OneRowAtATime ==
    ASSUME OwnInv, [Next]_vars
    PROVE  \/ UNCHANGED event
           \/ \E e \in Events : \A d \in Events \ {e} : event'[d] = event[d]
<1> DEFINE OneRow == \E e \in Events : \A d \in Events \ {e} : event'[d] = event[d]
<1>1. TypeInv /\ TypeOK
  BY DEF OwnInv, TypeInv
<1>2. ASSUME NEW w \in Workers,
             \/ DeadLetterInactive(w) \/ RescheduleOpen(w)
             \/ ConcludeDelivered(w) \/ ConcludeRetry(w) \/ ConcludeDeadLetter(w)
      PROVE  OneRow
  <2>1. job[w] \in Events
    BY <1>1, <1>2, BusyJob DEF DeadLetterInactive, RescheduleOpen, ConcludeDelivered,
       ConcludeRetry, ConcludeDeadLetter
  <2>2. \A d \in Events : d # job[w] => event'[d] = event[d]
    BY <1>1, <1>2 DEF DeadLetterInactive, RescheduleOpen, ConcludeDelivered,
       ConcludeRetry, ConcludeDeadLetter, TypeOK
  <2> QED BY <2>1, <2>2
<1>3. ASSUME NEW e \in Events, ApiCommit(e) PROVE OneRow
  BY <1>1, <1>3 DEF ApiCommit, TypeOK
<1>4. ASSUME NEW e \in Events, ApiInsert(e) \/ ApiEnqueue(e) \/ ApiAbort(e)
      PROVE  UNCHANGED event
  BY <1>4 DEF ApiInsert, ApiEnqueue, ApiAbort, rows
<1>5. ASSUME NEW w \in Workers,
             \/ Load(w) \/ Gate(w) \/ Post(w) \/ Respond(w) \/ RecordOutcome(w)
             \/ Finish(w) \/ Fail(w) \/ \E d \in Events : Start(w, d)
      PROVE  UNCHANGED event
  BY <1>5 DEF Load, Gate, Post, Respond, RecordOutcome, Finish, Fail, Abort,
     JobTimeout, Shutdown, Crash, Start, rows
<1>6. ASSUME Background PROVE UNCHANGED event
  BY <1>6, BackgroundFrame
<1> QED
  BY <1>2, <1>3, <1>4, <1>5, <1>6 DEF Next, Deliver, Api, Background

PhaseMap == [e \in Events |-> Phase(e)]
TriesMap == [e \in Events |-> event[e].attempt_count]

(* What a step does to one event is a step of its life, or none. *)
LEMMA LifeStep ==
    ASSUME LedgerInv, [Next]_vars, NEW e \in Events,
           \A d \in Events \ {e} : event'[d] = event[d]
    PROVE  [Abstract!LifecycleNext]_(Abstract!lifecycle)
<1>1. OwnInv /\ Books(e) /\ RowStep(e)
  BY RowSteps DEF LedgerInv
<1>2. \A d \in Events \ {e} :
          Phase(d)' = Phase(d) /\ event'[d].attempt_count = event[d].attempt_count
  BY DEF Phase
<1>3. /\ event[e].attempt_count \in Nat
      /\ \A limit \in limits[e] : limit \in Nat /\ limit \in RetryLimits
  BY <1>1, EventTypes, PipelineAssumption
<1>4. ASSUME Phase(e)' = Phase(e), event'[e].attempt_count = event[e].attempt_count
      PROVE  UNCHANGED <<PhaseMap, TriesMap>>
  BY <1>2, <1>4 DEF PhaseMap, TriesMap
<1>5. ASSUME NEW p, Phase(e)' = p PROVE PhaseMap' = [PhaseMap EXCEPT ![e] = p]
  BY <1>2, <1>5 DEF PhaseMap
<1>6. ASSUME NEW n, event'[e].attempt_count = n PROVE TriesMap' = [TriesMap EXCEPT ![e] = n]
  BY <1>2, <1>6 DEF TriesMap
<1>7. PhaseMap[e] = Phase(e) /\ TriesMap[e] = event[e].attempt_count
  BY DEF PhaseMap, TriesMap
<1>8. CASE UNCHANGED <<event[e], attempts[e], dlq[e]>>
  <2>1. Phase(e)' = Phase(e)
    BY <1>8 DEF Phase
  <2> QED BY <1>4, <1>8, <2>1 DEF Abstract!lifecycle, PhaseMap, TriesMap
<1>9. CASE Deferred(e)
  <2>1. Phase(e)' = "waiting" /\ event'[e].attempt_count = event[e].attempt_count
    BY <1>9 DEF Deferred, Phase
  <2>2. CASE event[e].status = "absent"
    <3>1. Phase(e) = "unborn"
      BY <2>2 DEF Phase
    <3>2. TriesMap' = TriesMap
      BY <1>2, <2>1 DEF TriesMap
    <3>3. Abstract!Accept(e)
      BY <1>5, <1>7, <2>1, <3>1, <3>2 DEF Abstract!Accept, PhaseMap, TriesMap
    <3> QED BY <3>3 DEF Abstract!LifecycleNext
  <2>3. CASE event[e].status # "absent"
    <3>1. Phase(e) = "waiting"
      BY <1>9, <2>3 DEF Deferred, Phase
    <3> QED BY <1>4, <2>1, <3>1 DEF Abstract!lifecycle, PhaseMap, TriesMap
  <2> QED BY <2>2, <2>3
<1>10. Waiting(e) => Phase(e) = "waiting"
  BY DEF Waiting, Phase
<1>11. CASE GivenUp(e)
  <2>1. Phase(e)' = "dead_lettered" /\ event'[e].attempt_count = event[e].attempt_count
    BY <1>11 DEF GivenUp, Phase
  <2>2. TriesMap' = TriesMap
    BY <1>2, <2>1 DEF TriesMap
  <2>3. Abstract!GiveUp(e)
    BY <1>5, <1>7, <1>10, <1>11, <2>1, <2>2 DEF GivenUp, Abstract!GiveUp, PhaseMap, TriesMap
  <2> QED BY <2>3 DEF Abstract!LifecycleNext
<1>12. ASSUME NEW status \in {"delivered", "failed", "dead_lettered"}, Attempted(e, status)
       PROVE  Abstract!LifecycleNext
  <2>1. /\ Phase(e) = "waiting"
        /\ event'[e].status = status
        /\ event'[e].attempt_count = event[e].attempt_count + 1
    BY <1>10, <1>12 DEF Attempted
  <2>2. TriesMap' = [TriesMap EXCEPT ![e] = event[e].attempt_count + 1]
    BY <1>6, <2>1
  <2>3. Abstract!WithinLimit(event[e].attempt_count + 1)
    <3>1. PICK limit \in limits[e] : event[e].attempt_count < limit
      BY <1>1, <1>12 DEF Books, Bounded, Exists, Attempted, Waiting, Settled, Terminal
    <3> QED BY <1>3, <3>1 DEF Abstract!WithinLimit
  <2>4. CASE status = "delivered"
    <3>1. Phase(e)' = "delivered"
      BY <2>1, <2>4 DEF Phase
    <3>2. Abstract!Succeed(e)
      BY <1>5, <1>7, <2>1, <2>2, <2>3, <3>1 DEF Abstract!Succeed, PhaseMap, TriesMap
    <3> QED BY <3>2 DEF Abstract!LifecycleNext
  <2>5. CASE status = "dead_lettered"
    <3>1. Phase(e)' = "dead_lettered"
      BY <2>1, <2>5 DEF Phase
    <3>2. Abstract!GiveUp(e)
      BY <1>5, <1>7, <2>1, <2>2, <2>3, <3>1 DEF Abstract!GiveUp, PhaseMap, TriesMap
    <3> QED BY <3>2 DEF Abstract!LifecycleNext
  <2>6. CASE status = "failed"
    <3>1. PICK limit \in limits[e] : event[e].attempt_count + 1 < limit
      BY <1>12, <2>6 DEF Attempted
    <3>2. Abstract!WithinLimit(event[e].attempt_count + 2)
      BY <1>3, <3>1 DEF Abstract!WithinLimit
    <3>3. Phase(e)' = "waiting"
      BY <2>1, <2>6 DEF Phase
    <3>4. PhaseMap' = PhaseMap
      BY <1>2, <2>1, <3>3 DEF PhaseMap
    <3>5. Abstract!Retry(e)
      BY <1>7, <2>1, <2>2, <3>2, <3>4 DEF Abstract!Retry, PhaseMap, TriesMap
    <3> QED BY <3>5 DEF Abstract!LifecycleNext
  <2> QED BY <2>4, <2>5, <2>6
<1> QED BY <1>1, <1>8, <1>9, <1>11, <1>12 DEF RowStep

(* The detailed pipeline implements EventLifecycle: with all its commits,    *)
(* rollbacks, retries and faults, every event is accepted, tried within its  *)
(* limit, and delivered or given up once and for good.                      *)
THEOREM ImplementsLifecycleHolds ==
    ASSUME ~LeaseMayLapse
    PROVE  Spec => ImplementsLifecycle
<1>1. Init => Abstract!LifecycleInit
  BY DEF Init, Abstract!LifecycleInit, Phase
<1>2. LedgerInv /\ [Next]_vars => [Abstract!LifecycleNext]_(Abstract!lifecycle)
  <2> SUFFICES ASSUME LedgerInv, [Next]_vars
               PROVE  [Abstract!LifecycleNext]_(Abstract!lifecycle)
    OBVIOUS
  <2>1. CASE UNCHANGED event
    BY <2>1 DEF Abstract!lifecycle, Phase
  <2>2. CASE \E e \in Events : \A d \in Events \ {e} : event'[d] = event[d]
    BY <2>2, LifeStep
  <2> QED BY <2>1, <2>2, OneRowAtATime DEF LedgerInv
<1> QED BY LedgerInvHolds, <1>1, <1>2, PTL DEF Spec, ImplementsLifecycle, Abstract!Lifecycle

-----------------------------------------------------------------------------
(* What the receivers see *)

LEMMA CountsAreNat ==
    ASSUME TypeInv, NEW e \in Events
    PROVE  posts[e] \in Nat /\ event[e].attempt_count \in Nat /\ faults \in Nat
  BY PipelineAssumption DEF TypeInv, TypeOK, EventRows

(* Only Post sends anything. *)
LEMMA PostsFrame ==
    ASSUME [Next]_vars, ~ \E w \in Workers : Post(w)
    PROVE  UNCHANGED posts
<1> USE DEF history
<1>1. ASSUME NEW w \in Workers,
             \/ Load(w) \/ DeadLetterInactive(w) \/ Gate(w) \/ RescheduleOpen(w)
             \/ Respond(w) \/ RecordOutcome(w) \/ ConcludeDelivered(w)
             \/ ConcludeRetry(w) \/ ConcludeDeadLetter(w) \/ Finish(w)
             \/ \E d \in Events : Start(w, d)
      PROVE  UNCHANGED posts
  BY <1>1 DEF Load, DeadLetterInactive, Gate, RescheduleOpen, Respond, RecordOutcome,
     ConcludeDelivered, ConcludeRetry, ConcludeDeadLetter, Finish, Start
<1>2. ASSUME NEW w \in Workers, Fail(w) PROVE UNCHANGED posts
  BY <1>2 DEF Fail, Abort, JobTimeout, Shutdown, Crash
<1>3. ASSUME NEW e \in Events, Api(e) \/ Drop(e) \/ Poll(e) \/ EventTimers(e)
      PROVE  UNCHANGED posts
  BY <1>3 DEF Api, ApiInsert, ApiEnqueue, ApiCommit, ApiAbort, Drop, Poll, PollEnqueue,
     PollEnqueueFails, EventTimers, TimerFires, LeaseExpires, ResultExpires
<1>4. ASSUME NEW p \in Endpoints,
             UpdateEndpoint(p) \/ CircuitAges(p) \/ FailureWindowLapses(p)
      PROVE  UNCHANGED posts
  BY <1>4 DEF UpdateEndpoint, CircuitAges, FailureWindowLapses
<1>5. ASSUME PollRead \/ PollLost \/ UNCHANGED vars PROVE UNCHANGED posts
  BY <1>5 DEF PollRead, PollLost, vars
<1> QED BY <1>1, <1>2, <1>3, <1>4, <1>5 DEF Next, Deliver

(* The steps that leave attempt_count alone: insert, and being put off. *)
LEMMA UncountedSteps ==
    ASSUME TypeInv, NEW e \in Events,
           \/ \E d \in Events : Api(d)
           \/ \E w \in Workers : DeadLetterInactive(w) \/ RescheduleOpen(w)
    PROVE  /\ event'[e].attempt_count = event[e].attempt_count
           /\ event'[e].status \in {event[e].status, "pending", "failed", "dead_lettered"}
<1> USE DEF TypeInv, TypeOK
<1>1. event[e] \in EventRows
  OBVIOUS
<1>2. ASSUME NEW d \in Events, Api(d)
      PROVE  event'[e] \in {event[e], [event[e] EXCEPT !.status = "pending"]}
  <2>1. CASE ApiCommit(d)
    <3>1. event' = [event EXCEPT ![d] = [event[d] EXCEPT !.status = "pending"]]
      BY <2>1 DEF ApiCommit
    <3> QED BY <3>1
  <2>2. CASE ~ApiCommit(d)
    BY <1>2, <2>2 DEF Api, ApiInsert, ApiEnqueue, ApiAbort, rows
  <2> QED BY <2>1, <2>2
<1>3. ASSUME NEW w \in Workers, DeadLetterInactive(w)
      PROVE  event'[e] \in {event[e], [event[e] EXCEPT !.status = "dead_lettered"]}
  <2>1. event' = [event EXCEPT ![job[w]] = [event[job[w]] EXCEPT !.status = "dead_lettered"]]
    BY <1>3 DEF DeadLetterInactive
  <2> QED BY <2>1
<1>4. ASSUME NEW w \in Workers, RescheduleOpen(w)
      PROVE  event'[e] \in {event[e], ScheduledRow(event[e], copy[w].status)}
  BY <1>4 DEF RescheduleOpen
<1>5. \A s \in {"pending", "dead_lettered"} :
          /\ [event[e] EXCEPT !.status = s].attempt_count = event[e].attempt_count
          /\ [event[e] EXCEPT !.status = s].status = s
  BY <1>1 DEF EventRows
<1>6. ASSUME NEW loaded
      PROVE  /\ ScheduledRow(event[e], loaded).attempt_count = event[e].attempt_count
             /\ ScheduledRow(event[e], loaded).status \in {event[e].status, "failed"}
  BY <1>1 DEF ScheduledRow, EventRows
<1>7. CASE \E d \in Events : Api(d)
  BY <1>2, <1>5, <1>7
<1>8. CASE \E w \in Workers : DeadLetterInactive(w)
  BY <1>3, <1>5, <1>8
<1>9. CASE \E w \in Workers : RescheduleOpen(w)
  <2>1. PICK w \in Workers : RescheduleOpen(w)
    BY <1>9
  <2>2. event'[e] \in {event[e], ScheduledRow(event[e], copy[w].status)}
    BY <1>4, <2>1
  <2> QED BY <1>6, <2>2
<1> QED BY <1>7, <1>8, <1>9

-----------------------------------------------------------------------------
(* Nothing is sent for an event that is not in the database *)

(* No step removes a row. *)
LEMMA RowsStay ==
    ASSUME TypeInv, RowsConsistent, [Next]_vars, NEW e \in Events,
           event[e].status # "absent"
    PROVE  event'[e].status # "absent"
<1> USE DEF TypeInv, TypeOK
<1>1. ASSUME NEW w \in Workers, job[w] # e,
             ConcludeDelivered(w) \/ ConcludeRetry(w) \/ ConcludeDeadLetter(w)
      PROVE  event'[e] = event[e]
  BY <1>1 DEF ConcludeDelivered, ConcludeRetry, ConcludeDeadLetter
<1>2. ASSUME NEW w \in Workers, job[w] = e,
             ConcludeDelivered(w) \/ ConcludeRetry(w) \/ ConcludeDeadLetter(w)
      PROVE  event'[e].status \in {"delivered", "failed", "dead_lettered"}
  BY <1>2 DEF ConcludeDelivered, ConcludeRetry, ConcludeDeadLetter, EventRows
<1>3. ASSUME \/ \E d \in Events : Api(d)
             \/ \E w \in Workers : DeadLetterInactive(w) \/ RescheduleOpen(w)
      PROVE  event'[e].status \in {event[e].status, "pending", "failed", "dead_lettered"}
  BY <1>3, UncountedSteps
<1>4. ASSUME NEW w \in Workers,
             \/ Load(w) \/ Gate(w) \/ Post(w) \/ Respond(w) \/ RecordOutcome(w)
             \/ Finish(w) \/ Fail(w) \/ \E d \in Events : Start(w, d)
      PROVE  UNCHANGED event
  BY <1>4 DEF Load, Gate, Post, Respond, RecordOutcome, Finish, Fail, Abort,
     JobTimeout, Shutdown, Crash, Start, rows
<1>5. ASSUME Background PROVE UNCHANGED event
  BY <1>5, BackgroundFrame
<1> QED BY <1>1, <1>2, <1>3, <1>4, <1>5 DEF Next, Deliver, Background

(* create_event enqueues before it commits, and its commit may fail: a job   *)
(* of an event that is not in the database sends nothing, whatever leases    *)
(* lapse.                                                                   *)
THEOREM NoPhantomDeliveryHolds == Spec => []NoPhantomDelivery
<1>1. Init => NoPhantomDelivery
  BY DEF Init, NoPhantomDelivery
<1>2. TypeInv /\ RowsConsistent /\ NoPhantomDelivery /\ [Next]_vars => NoPhantomDelivery'
  <2> SUFFICES ASSUME TypeInv, RowsConsistent, NoPhantomDelivery, [Next]_vars,
                      NEW e \in Events, posts'[e] > 0
               PROVE  event'[e].status # "absent"
    BY DEF NoPhantomDelivery
  <2>1. CASE posts[e] > 0
    BY <2>1, RowsStay DEF NoPhantomDelivery
  <2>2. ASSUME NEW w \in Workers, Post(w), job[w] = e PROVE event[e].status # "absent"
    BY <2>2 DEF Post, RowsConsistent, Working
  <2>3. ASSUME NEW w \in Workers, Post(w), job[w] # e PROVE posts'[e] = posts[e]
    BY <2>3 DEF Post, TypeInv, TypeOK
  <2> QED BY <2>1, <2>2, <2>3, PostsFrame, RowsStay
<1> QED BY RowsConsistentHolds, <1>1, <1>2, PTL DEF Spec

-----------------------------------------------------------------------------
(* At least once, and how much more *)

LEMMA StepDuplicates ==
    ASSUME ~HangingEndpoint
    PROVE  OwnInv /\ DuplicatesNeedFaults /\ [Next]_vars => DuplicatesNeedFaults'
<1> SUFFICES ASSUME OwnInv, DuplicatesNeedFaults, [Next]_vars
             PROVE  DuplicatesNeedFaults'
  OBVIOUS
<1>1. TypeInv /\ TypeInv' /\ JobsAreOwned
  BY StepTypeInv DEF OwnInv
<1>2. ASSUME UNCHANGED posts, faults' \in {faults, faults + 1},
             \A e \in Events :
                 /\ event'[e].attempt_count \in
                        {event[e].attempt_count, event[e].attempt_count + 1}
                 /\ \/ InFlight(e) => InFlight(e)'
                    \/ event'[e].attempt_count = event[e].attempt_count + 1
                    \/ faults' = faults + 1
      PROVE  DuplicatesNeedFaults'
  <2> SUFFICES ASSUME NEW e \in Events
               PROVE  posts'[e] <= event'[e].attempt_count + faults'
                                       + (IF InFlight(e)' THEN 1 ELSE 0)
    BY DEF DuplicatesNeedFaults
  <2>1. posts[e] <= event[e].attempt_count + faults + (IF InFlight(e) THEN 1 ELSE 0)
    BY DEF DuplicatesNeedFaults
  <2> HIDE DEF InFlight
  <2> QED BY <1>1, <1>2, <2>1, CountsAreNat
<1>3. ASSUME NEW w \in Workers, Post(w) PROVE DuplicatesNeedFaults'
  <2> SUFFICES ASSUME NEW e \in Events
               PROVE  posts'[e] <= event'[e].attempt_count + faults'
                                       + (IF InFlight(e)' THEN 1 ELSE 0)
    BY DEF DuplicatesNeedFaults
  <2>1. UNCHANGED <<event, faults, job>>
    BY <1>3 DEF Post, rows
  <2>2. posts[e] <= event[e].attempt_count + faults + (IF InFlight(e) THEN 1 ELSE 0)
    BY DEF DuplicatesNeedFaults
  <2>3. pc' = [pc EXCEPT ![w] = "posting"] /\ pc \in [Workers -> Steps]
    BY <1>1, <1>3 DEF Post, Goto, TypeInv, TypeOK
  <2>4. CASE job[w] = e
    <3>1. ~InFlight(e)
      BY <1>3, <2>4 DEF Post, RowFree, InFlight
    <3>2. InFlight(e)'
      BY <2>1, <2>3, <2>4 DEF InFlight, HoldsRowLock
    <3>3. posts'[e] <= posts[e] + 1
      BY <1>1, <1>3, <2>4, CountsAreNat DEF Post, TypeInv, TypeOK
    <3>4. posts'[e] \in Nat /\ posts[e] \in Nat
          /\ event[e].attempt_count \in Nat /\ faults \in Nat
      BY <1>1, CountsAreNat DEF TypeInv, TypeOK
    <3>5. posts[e] <= event[e].attempt_count + faults
      BY <2>2, <3>1, <3>4
    <3>6. posts'[e] <= event[e].attempt_count + faults + 1
      BY <3>3, <3>4, <3>5
    <3> QED BY <2>1, <3>2, <3>6
  <2>5. CASE job[w] # e
    <3>1. InFlight(e)' <=> InFlight(e)
      BY <2>1, <2>3, <2>5 DEF InFlight, HoldsRowLock
    <3>2. posts'[e] = posts[e]
      BY <1>1, <1>3, <2>5 DEF Post, TypeInv, TypeOK
    <3> QED BY <2>1, <2>2, <3>1, <3>2
  <2> QED BY <2>4, <2>5
<1>4. ASSUME NEW w \in Workers, NEW step \in Steps, Goto(w, step), UNCHANGED <<posts, job>>,
             UNCHANGED faults,
             ~HoldsRowLock(w) \/ step \in {"posting", "responded", "recorded"},
             \A e \in Events : event'[e].attempt_count = event[e].attempt_count
      PROVE  DuplicatesNeedFaults'
  <2>1. \A e \in Events : InFlight(e) => InFlight(e)'
    BY <1>1, <1>4 DEF InFlight, HoldsRowLock, Goto, TypeInv, TypeOK
  <2> QED BY <1>2, <1>4, <2>1
<1>5. ASSUME NEW w \in Workers, Load(w) \/ Gate(w) \/ Respond(w) \/ RecordOutcome(w)
      PROVE  DuplicatesNeedFaults'
  BY <1>4, <1>5 DEF Load, Gate, Respond, RecordOutcome, HoldsRowLock, Steps, rows, history
<1>6. ASSUME NEW w \in Workers, DeadLetterInactive(w) \/ RescheduleOpen(w)
      PROVE  DuplicatesNeedFaults'
  <2>1. \A e \in Events : event'[e].attempt_count = event[e].attempt_count
    BY <1>1, <1>6, UncountedSteps
  <2> QED BY <1>4, <1>6, <2>1 DEF DeadLetterInactive, RescheduleOpen, HoldsRowLock, Steps,
      history
<1>7. ASSUME NEW w \in Workers,
             ConcludeDelivered(w) \/ ConcludeRetry(w) \/ ConcludeDeadLetter(w)
      PROVE  DuplicatesNeedFaults'
  <2>1. job[w] \in Events /\ Working(w)
    BY <1>1, <1>7, BusyJob DEF ConcludeDelivered, ConcludeRetry, ConcludeDeadLetter, Working
  <2>2. ThisAttempt(w) = event[job[w]].attempt_count + 1
    BY <1>1, <2>1 DEF JobsAreOwned, ThisAttempt
  <2>3. event'[job[w]].attempt_count = event[job[w]].attempt_count + 1
    BY <1>1, <1>7, <2>1, <2>2 DEF ConcludeDelivered, ConcludeRetry, ConcludeDeadLetter,
       TypeInv, TypeOK, EventRows
  <2>4. \A e \in Events : e # job[w] => event'[e] = event[e]
    BY <1>1, <1>7 DEF ConcludeDelivered, ConcludeRetry, ConcludeDeadLetter, TypeInv, TypeOK
  <2>5. Goto(w, "finishing") /\ UNCHANGED <<posts, job, faults>>
    BY <1>7 DEF ConcludeDelivered, ConcludeRetry, ConcludeDeadLetter, history
  <2>6. \A e \in Events : e # job[w] /\ InFlight(e) => InFlight(e)'
    BY <1>1, <2>5 DEF InFlight, HoldsRowLock, Goto, TypeInv, TypeOK
  <2> QED BY <1>2, <2>3, <2>4, <2>5, <2>6
<1>8. ASSUME NEW w \in Workers, Fail(w) PROVE DuplicatesNeedFaults'
  <2>1. UNCHANGED <<event, posts>> /\ faults' = faults + 1
    BY <1>8 DEF Fail, Abort, JobTimeout, Shutdown, Crash, SpendFault, rows, history
  <2> QED BY <1>2, <2>1
<1>9. ASSUME NEW w \in Workers, Finish(w) \/ \E e \in Events : Start(w, e)
      PROVE  DuplicatesNeedFaults'
  <2>1. \A v \in Workers : HoldsRowLock(v) =>
            v # w /\ pc'[v] = pc[v] /\ job'[v] = job[v]
    BY <1>1, <1>9 DEF Finish, Start, Vacate, Goto, HoldsRowLock, TypeInv, TypeOK
  <2>2. \A e \in Events : InFlight(e) => InFlight(e)'
    BY <2>1 DEF InFlight, HoldsRowLock
  <2>3. UNCHANGED <<event, posts, faults>>
    BY <1>9 DEF Finish, Start, rows, history
  <2> QED BY <1>2, <2>2, <2>3
<1>10. ASSUME UNCHANGED <<pc, job, posts>>, faults' \in {faults, faults + 1},
              \A e \in Events : event'[e].attempt_count = event[e].attempt_count
       PROVE  DuplicatesNeedFaults'
  <2>1. \A e \in Events : InFlight(e) => InFlight(e)'
    BY <1>10 DEF InFlight, HoldsRowLock
  <2> QED BY <1>2, <1>10, <2>1
<1>11. ASSUME NEW e \in Events, Api(e) PROVE DuplicatesNeedFaults'
  <2>1. UNCHANGED <<pc, job, posts>> /\ faults' \in {faults, faults + 1}
    BY <1>11 DEF Api, ApiInsert, ApiEnqueue, ApiCommit, ApiAbort, SpendFault, local, history
  <2>2. \A d \in Events : event'[d].attempt_count = event[d].attempt_count
    BY <1>1, <1>11, UncountedSteps
  <2> QED BY <1>10, <2>1, <2>2
<1>12. ASSUME Background PROVE DuplicatesNeedFaults'
  <2>1. ASSUME NEW e \in Events, Drop(e) \/ Poll(e) \/ EventTimers(e)
        PROVE  UNCHANGED posts /\ faults' \in {faults, faults + 1}
    BY <2>1 DEF Drop, Poll, PollEnqueue, PollEnqueueFails, EventTimers, TimerFires,
       LeaseExpires, ResultExpires, SpendFault, history
  <2>2. ASSUME NEW p \in Endpoints,
               UpdateEndpoint(p) \/ CircuitAges(p) \/ FailureWindowLapses(p)
        PROVE  UNCHANGED <<posts, faults>>
    BY <2>2 DEF UpdateEndpoint, CircuitAges, FailureWindowLapses, history
  <2>3. ASSUME PollRead \/ PollLost \/ UNCHANGED vars
        PROVE  UNCHANGED posts /\ faults' \in {faults, faults + 1}
    BY <2>3 DEF PollRead, PollLost, SpendFault, vars, history
  <2> QED BY <1>10, <1>12, <2>1, <2>2, <2>3, BackgroundFrame DEF Background
<1> QED
  BY <1>3, <1>5, <1>6, <1>7, <1>8, <1>9, <1>11, <1>12 DEF Next, Deliver, Background

(* The receiver sees the attempts in the books, the one in flight, and at    *)
(* most one POST more for each crash, cancellation or error, provided that  *)
(* no endpoint outlasts job_timeout.                                        *)
THEOREM DuplicatesNeedFaultsHolds ==
    ASSUME ~LeaseMayLapse, ~HangingEndpoint
    PROVE  Spec => []DuplicatesNeedFaults
<1>1. Init => DuplicatesNeedFaults
  <2> SUFFICES ASSUME Init, NEW e \in Events
               PROVE  posts[e] <= event[e].attempt_count + faults
                                      + (IF InFlight(e) THEN 1 ELSE 0)
    BY DEF DuplicatesNeedFaults
  <2>1. posts[e] = 0 /\ event[e].attempt_count = 0 /\ faults = 0
    BY DEF Init
  <2> HIDE DEF InFlight
  <2> QED BY <2>1
<1>2. OwnInv /\ DuplicatesNeedFaults /\ [Next]_vars => DuplicatesNeedFaults'
  BY StepDuplicates
<1>3. Spec => []OwnInv
  BY OwnInvHolds
<1> QED BY <1>1, <1>2, <1>3, PTL DEF Spec

-----------------------------------------------------------------------------
(* The final status is the receiver's word *)

(* The worker carries a 2xx to its commit. *)
Answering(w) == pc[w] \in {"responded", "recorded"} /\ Succeeded(reply[w])

(* An accepted event is delivered, or its answer is on the way, or lost. *)
AnswerInv ==
    /\ \A e \in Events : event[e].status = "delivered" => e \in accepted
    /\ \A w \in Workers : Answering(w) => job[w] \in accepted
    /\ \A e \in accepted :
          \/ faults > 0
          \/ event[e].status = "delivered"
          \/ \E w \in Workers : Answering(w) /\ job[w] = e

(* Only Respond brings an answer; only a worker that carries it uses it up. *)
LEMMA AnswerKept ==
    ASSUME AnswerInv, UNCHANGED accepted, accepted \subseteq Events,
           faults \in Nat, faults' \in {faults, faults + 1},
           \A e \in Events : event'[e].status = "delivered" =>
               event[e].status = "delivered" \/ e \in accepted,
           \A e \in Events : event[e].status = "delivered" =>
               event'[e].status = "delivered",
           \A w \in Workers : Answering(w)' => Answering(w) /\ job'[w] = job[w],
           \A w \in Workers : Answering(w) =>
               \/ Answering(w)' /\ job'[w] = job[w]
               \/ event'[job[w]].status = "delivered"
               \/ faults' > 0
    PROVE  AnswerInv'
<1> HIDE DEF Answering
<1>1. \A e \in Events : event'[e].status = "delivered" => e \in accepted'
  BY DEF AnswerInv
<1>2. \A w \in Workers : Answering(w)' => job'[w] \in accepted'
  BY DEF AnswerInv
<1>3. ASSUME NEW e \in accepted'
      PROVE  \/ faults' > 0
             \/ event'[e].status = "delivered"
             \/ \E w \in Workers : Answering(w)' /\ job'[w] = e
  <2>1. CASE faults > 0
    BY <2>1
  <2>2. CASE event[e].status = "delivered"
    BY <1>3, <2>2
  <2>3. ASSUME NEW w \in Workers, Answering(w), job[w] = e
        PROVE  \/ faults' > 0
               \/ event'[e].status = "delivered"
               \/ \E v \in Workers : Answering(v)' /\ job'[v] = e
    BY <2>3
  <2> QED BY <1>3, <2>1, <2>2, <2>3 DEF AnswerInv
<1> QED BY <1>1, <1>2, <1>3 DEF AnswerInv

LEMMA StepAnswers == OwnInv /\ AnswerInv /\ [Next]_vars => AnswerInv'
<1> SUFFICES ASSUME OwnInv, AnswerInv, [Next]_vars
             PROVE  AnswerInv'
  OBVIOUS
<1>1. TypeInv /\ TypeOK /\ JobsAreOwned /\ faults \in Nat /\ accepted \subseteq Events
      /\ TypeInv'
  BY StepTypeInv, CountsAreNat, PipelineAssumption DEF OwnInv, TypeInv, TypeOK
<1>2. \A e \in Events : event[e].status = "delivered" => event'[e].status = "delivered"
  BY RowSteps DEF RowStep, Deferred, GivenUp, Attempted, Waiting
<1>3. ASSUME UNCHANGED <<pc, job, reply, accepted>>, faults' \in {faults, faults + 1},
             \A e \in Events : event'[e].status = "delivered" => event[e].status = "delivered"
      PROVE  AnswerInv'
  <2>1. \A w \in Workers : Answering(w)' <=> Answering(w)
    BY <1>3 DEF Answering
  <2> QED BY <1>1, <1>2, <1>3, <2>1, AnswerKept
<1>4. ASSUME NEW e \in Events, Api(e) PROVE AnswerInv'
  <2>1. UNCHANGED <<pc, job, reply, accepted>> /\ faults' \in {faults, faults + 1}
    BY <1>4 DEF Api, ApiInsert, ApiEnqueue, ApiCommit, ApiAbort, SpendFault, local, history
  <2>2. \A d \in Events : event'[d].status = "delivered" => event[d].status = "delivered"
    BY <1>1, <1>4, UncountedSteps
  <2> QED BY <1>3, <2>1, <2>2
<1>5. ASSUME Background PROVE AnswerInv'
  <2>1. ASSUME NEW e \in Events, Drop(e) \/ Poll(e) \/ EventTimers(e)
        PROVE  UNCHANGED accepted /\ faults' \in {faults, faults + 1}
    BY <2>1 DEF Drop, Poll, PollEnqueue, PollEnqueueFails, EventTimers, TimerFires,
       LeaseExpires, ResultExpires, SpendFault, history
  <2>2. ASSUME NEW p \in Endpoints,
               UpdateEndpoint(p) \/ CircuitAges(p) \/ FailureWindowLapses(p)
        PROVE  UNCHANGED <<accepted, faults>>
    BY <2>2 DEF UpdateEndpoint, CircuitAges, FailureWindowLapses, history
  <2>3. ASSUME PollRead \/ PollLost \/ UNCHANGED vars
        PROVE  UNCHANGED accepted /\ faults' \in {faults, faults + 1}
    BY <2>3 DEF PollRead, PollLost, SpendFault, vars, history
  <2> QED BY <1>3, <1>5, <2>1, <2>2, <2>3, BackgroundFrame DEF Background
<1>6. ASSUME NEW w \in Workers, UNCHANGED <<accepted, faults>>, ~Answering(w), ~Answering(w)',
             \A v \in Workers \ {w} : pc'[v] = pc[v] /\ job'[v] = job[v] /\ reply'[v] = reply[v],
             \A e \in Events : event'[e].status = "delivered" => event[e].status = "delivered"
      PROVE  AnswerInv'
  <2>1. \A v \in Workers : Answering(v)' => Answering(v) /\ job'[v] = job[v]
    BY <1>6 DEF Answering
  <2>2. \A v \in Workers : Answering(v) => Answering(v)' /\ job'[v] = job[v]
    BY <1>6 DEF Answering
  <2> QED BY <1>1, <1>2, <1>6, <2>1, <2>2, AnswerKept
<1>7. ASSUME NEW w \in Workers, Load(w) \/ Gate(w) \/ Post(w) PROVE AnswerInv'
  <2>1. /\ UNCHANGED <<event, accepted, faults, job, reply>>
        /\ pc[w] \notin {"responded", "recorded"} /\ pc'[w] \notin {"responded", "recorded"}
        /\ \A v \in Workers \ {w} : pc'[v] = pc[v]
    BY <1>1, <1>7 DEF Load, Gate, Post, Goto, TypeOK, rows, history
  <2> QED BY <1>6, <2>1 DEF Answering
<1>8. ASSUME NEW w \in Workers, Finish(w) \/ \E e \in Events : Start(w, e)
      PROVE  AnswerInv'
  <2>1. /\ UNCHANGED <<event, accepted, faults>>
        /\ pc[w] \notin {"responded", "recorded"} /\ pc'[w] \notin {"responded", "recorded"}
        /\ \A v \in Workers \ {w} : pc'[v] = pc[v] /\ job'[v] = job[v] /\ reply'[v] = reply[v]
    BY <1>1, <1>8 DEF Finish, Start, Vacate, Goto, TypeOK, rows, history
  <2> QED BY <1>6, <2>1 DEF Answering
<1>9. ASSUME NEW w \in Workers, DeadLetterInactive(w) \/ RescheduleOpen(w) PROVE AnswerInv'
  <2>1. /\ UNCHANGED <<accepted, faults, job, reply>>
        /\ pc[w] \notin {"responded", "recorded"} /\ pc'[w] \notin {"responded", "recorded"}
        /\ \A v \in Workers \ {w} : pc'[v] = pc[v]
    BY <1>1, <1>9 DEF DeadLetterInactive, RescheduleOpen, Goto, TypeOK, history
  <2>2. \A e \in Events : event'[e].status = "delivered" => event[e].status = "delivered"
    BY <1>1, <1>9, UncountedSteps
  <2> QED BY <1>6, <2>1, <2>2 DEF Answering
<1>10. ASSUME NEW w \in Workers, ConcludeRetry(w) \/ ConcludeDeadLetter(w) PROVE AnswerInv'
  <2>1. /\ UNCHANGED <<accepted, faults, job, reply>>
        /\ ~Succeeded(reply[w]) /\ pc'[w] \notin {"responded", "recorded"}
        /\ \A v \in Workers \ {w} : pc'[v] = pc[v]
    BY <1>1, <1>10 DEF ConcludeRetry, ConcludeDeadLetter, Goto, TypeOK, history
  <2>2. ASSUME NEW e \in Events, event'[e].status = "delivered"
        PROVE  event[e].status = "delivered"
    <3>1. CASE job[w] = e
      BY <1>1, <1>10, <2>2, <3>1 DEF ConcludeRetry, ConcludeDeadLetter, TypeOK, EventRows
    <3>2. CASE job[w] # e
      BY <1>1, <1>10, <2>2, <3>2 DEF ConcludeRetry, ConcludeDeadLetter, TypeOK
    <3> QED BY <3>1, <3>2
  <2> QED BY <1>6, <2>1, <2>2 DEF Answering
<1>11. ASSUME NEW w \in Workers, ConcludeDelivered(w) PROVE AnswerInv'
  <2>1. /\ UNCHANGED <<accepted, faults, job, reply>>
        /\ Answering(w) /\ pc'[w] \notin {"responded", "recorded"}
        /\ \A v \in Workers \ {w} : pc'[v] = pc[v]
    BY <1>1, <1>11 DEF ConcludeDelivered, Goto, TypeOK, history, Answering
  <2>2. job[w] \in accepted
    BY <2>1 DEF AnswerInv
  <2>3. event'[job[w]].status = "delivered"
    BY <1>1, <1>11, <2>2 DEF ConcludeDelivered, TypeOK, EventRows
  <2>4. \A e \in Events : e # job[w] => event'[e] = event[e]
    BY <1>1, <1>11 DEF ConcludeDelivered, TypeOK
  <2>5. \A v \in Workers : Answering(v)' => Answering(v) /\ job'[v] = job[v]
    BY <2>1 DEF Answering
  <2>6. \A v \in Workers : Answering(v) =>
            (Answering(v)' /\ job'[v] = job[v]) \/ event'[job[v]].status = "delivered"
    BY <2>1, <2>3 DEF Answering
  <2> QED BY <1>1, <1>2, <2>1, <2>2, <2>4, <2>5, <2>6, AnswerKept
<1>12. ASSUME NEW w \in Workers, Fail(w) PROVE AnswerInv'
  <2>1. UNCHANGED <<event, accepted>>
    BY <1>12 DEF Fail, Abort, JobTimeout, Shutdown, Crash, rows, history
  <2>2. /\ pc'[w] \notin {"responded", "recorded"}
        /\ \A v \in Workers \ {w} : pc'[v] = pc[v] /\ job'[v] = job[v] /\ reply'[v] = reply[v]
    BY <1>1, <1>12 DEF Fail, Abort, JobTimeout, Shutdown, Crash, Vacate, Goto, TypeOK
  <2>3. faults' = faults + 1 \/ (pc[w] = "posting" /\ UNCHANGED faults)
    BY <1>12 DEF Fail, Abort, JobTimeout, Shutdown, Crash, SpendFault
  <2>4. \A v \in Workers : Answering(v)' => Answering(v) /\ job'[v] = job[v]
    BY <2>2 DEF Answering
  <2>5. CASE faults' = faults + 1
    <3>1. faults' > 0
      BY <1>1, <2>5
    <3> QED BY <1>1, <1>2, <2>1, <2>4, <2>5, <3>1, AnswerKept
  <2>6. CASE pc[w] = "posting" /\ UNCHANGED faults
    BY <1>6, <2>1, <2>2, <2>6 DEF Answering
  <2> QED BY <2>3, <2>5, <2>6
<1>13. ASSUME NEW w \in Workers, RecordOutcome(w) PROVE AnswerInv'
  <2>1. /\ UNCHANGED <<event, accepted, faults, job, reply>>
        /\ pc[w] = "responded" /\ pc'[w] = "recorded"
        /\ \A v \in Workers \ {w} : pc'[v] = pc[v]
    BY <1>1, <1>13 DEF RecordOutcome, Goto, TypeOK, rows, history
  <2>2. \A v \in Workers : Answering(v)' <=> Answering(v)
    BY <2>1 DEF Answering
  <2> QED BY <1>1, <1>2, <2>1, <2>2, AnswerKept
<1>14. ASSUME NEW w \in Workers, Respond(w) PROVE AnswerInv'
  <2>1. PICK code \in Replies :
            /\ reply' = [reply EXCEPT ![w] = code]
            /\ accepted' = IF code \in 200..299 THEN accepted \cup {job[w]} ELSE accepted
    BY <1>14 DEF Respond
  <2>2. /\ UNCHANGED <<event, faults, job>>
        /\ pc[w] = "posting" /\ pc'[w] = "responded"
        /\ \A v \in Workers \ {w} : pc'[v] = pc[v] /\ reply'[v] = reply[v]
        /\ reply'[w] = code
    BY <1>1, <1>14, <2>1 DEF Respond, Goto, TypeOK, rows
  <2>3. Answering(w)' <=> code \in 200..299
    BY <2>2 DEF Answering, Succeeded
  <2>4. \A v \in Workers : Answering(v) => v # w /\ Answering(v)'
    BY <2>2 DEF Answering
  <2>5. \A v \in Workers : v # w /\ Answering(v)' => Answering(v)
    BY <2>2 DEF Answering
  <2>6. \A e \in Events : event'[e].status = "delivered" => e \in accepted'
    BY <2>1, <2>2 DEF AnswerInv
  <2>7. \A v \in Workers : Answering(v)' => job'[v] \in accepted'
    BY <2>1, <2>2, <2>3, <2>5 DEF AnswerInv
  <2>8. ASSUME NEW e \in accepted'
        PROVE  \/ faults' > 0
               \/ event'[e].status = "delivered"
               \/ \E v \in Workers : Answering(v)' /\ job'[v] = e
    <3>1. CASE e \in accepted
      BY <2>2, <2>4, <3>1 DEF AnswerInv
    <3>2. CASE e \notin accepted
      BY <2>1, <2>2, <2>3, <2>8, <3>2
    <3> QED BY <3>1, <3>2
  <2> QED BY <2>6, <2>7, <2>8 DEF AnswerInv
<1> QED
  BY <1>4, <1>5, <1>7, <1>8, <1>9, <1>10, <1>11, <1>12, <1>13, <1>14
  DEF Next, Deliver, Background

(* An event is delivered only on a 2xx of its receiver, and dead-lettered    *)
(* against one only if a fault has lost that answer: deliver() never mixes  *)
(* up the answers of several attempts or events.                            *)
THEOREM OutcomeMatchesReceiverHolds ==
    ASSUME ~LeaseMayLapse
    PROVE  Spec => []OutcomeMatchesReceiver
<1>1. Init => AnswerInv
  BY DEF Init, AnswerInv, Answering
<1>2. OwnInv /\ AnswerInv /\ [Next]_vars => AnswerInv'
  BY StepAnswers
<1>3. OwnInv /\ AnswerInv => OutcomeMatchesReceiver
  <2> SUFFICES ASSUME OwnInv, AnswerInv, NEW e \in Events
               PROVE  /\ event[e].status = "delivered" => e \in accepted
                      /\ event[e].status = "dead_lettered" /\ e \in accepted => faults > 0
    BY DEF OutcomeMatchesReceiver
  <2>1. event[e].status = "delivered" => e \in accepted
    BY DEF AnswerInv
  <2>2. ASSUME NEW w \in Workers, Answering(w), job[w] = e
        PROVE  event[e].status # "dead_lettered"
    BY <2>2 DEF Answering, OwnInv, JobsAreOwned, RowsConsistent, Working
  <2> QED BY <2>1, <2>2 DEF AnswerInv
<1>4. Spec => []OwnInv
  BY OwnInvHolds
<1> QED BY <1>1, <1>2, <1>3, <1>4, PTL DEF Spec

-----------------------------------------------------------------------------
(* The breaker and the audit log *)

(* A call of the breaker forgets failures, or counts one, and only a counted *)
(* one that makes the threshold moves it out of the closed state.           *)
LEMMA CircuitCounts ==
    ASSUME NEW c \in Circuits
    PROVE  /\ \A d \in {Observed(c), AfterSuccess(c), WindowLapsed(c), Aged(c)} :
                  /\ d.failures <= c.failures
                  /\ d.state # "closed" => c.state # "closed"
           /\ AfterFailure(c).failures <= c.failures + 1
           /\ AfterFailure(c).state # "closed" =>
                  c.state # "closed" \/ FailureThreshold <= c.failures + 1
<1> USE ThresholdAssumption DEF Circuits, CircuitStates
<1>1. ASSUME NEW b \in Circuits
      PROVE  /\ Observed(b) \in Circuits
             /\ Observed(b).failures = b.failures
             /\ Observed(b).state # "closed" <=> b.state # "closed"
  BY DEF Observed
<1>2. /\ AfterSuccess(c).failures <= c.failures
      /\ AfterSuccess(c).state # "closed" => c.state # "closed"
  BY <1>1 DEF AfterSuccess, ClosedCircuit
<1>3. /\ WindowLapsed(c).failures <= c.failures /\ WindowLapsed(c).state = c.state
      /\ Aged(c).failures <= c.failures /\ Aged(c).state = c.state
  BY DEF WindowLapsed, Aged
<1> DEFINE b == OneMoreFailure(c)
           o == Observed(b)
<1>4. b \in Circuits /\ b.failures <= c.failures + 1 /\ b.state = c.state
  BY DEF OneMoreFailure
<1> HIDE DEF b
<1>5. /\ o \in Circuits /\ o.failures <= c.failures + 1
      /\ o.state # "closed" => c.state # "closed"
  BY <1>1, <1>4
<1>6. AfterFailure(c) = IF \/ o.state = "closed" /\ o.failures = FailureThreshold
                           \/ o.state = "half_open"
                        THEN [o EXCEPT !.state = "open", !.aged = FALSE] ELSE o
  BY DEF AfterFailure, b
<1> HIDE DEF o
<1>7. /\ AfterFailure(c).failures = o.failures
      /\ AfterFailure(c).state # "closed" =>
             o.state # "closed" \/ o.failures = FailureThreshold
  BY <1>5, <1>6
<1>8. /\ AfterFailure(c).failures <= c.failures + 1
      /\ AfterFailure(c).state # "closed" =>
             c.state # "closed" \/ FailureThreshold <= c.failures + 1
  BY <1>5, <1>7
<1> QED BY <1>1, <1>2, <1>3, <1>8

FailuresFinite(p) ==
    IsFiniteSet(FailuresLogged(p)) /\ IsFiniteSet(FailuresRecorded(p))

BreakerKnows(p) ==
    /\ circuit[p].failures <= FailuresKnown(p)
    /\ circuit[p].state # "closed" => FailureThreshold <= FailuresKnown(p)

(* The breaker counts no more than it did. *)
BreakerCalm(p) ==
    /\ circuit'[p].failures <= circuit[p].failures
    /\ circuit'[p].state # "closed" => circuit[p].state # "closed"

(* How a step may change what is known, and what is counted. *)
LEMMA KnownMoves ==
    ASSUME TypeInv, TypeInv', NEW p \in Endpoints, FailuresFinite(p), BreakerKnows(p),
           \/ /\ BreakerCalm(p)
              /\ FailuresLogged(p)' = FailuresLogged(p)
              /\ FailuresRecorded(p)' = FailuresRecorded(p)
              /\ faults' >= faults
           \/ /\ BreakerCalm(p)
              /\ FailuresLogged(p)' = FailuresLogged(p)
              /\ \E w : FailuresRecorded(p)' = FailuresRecorded(p) \ {w}
              /\ faults' = faults + 1
           \/ /\ BreakerCalm(p)
              /\ \E x : /\ x \notin FailuresLogged(p)
                        /\ FailuresLogged(p)' = FailuresLogged(p) \cup {x}
              /\ \E w : FailuresRecorded(p)' = FailuresRecorded(p) \ {w}
              /\ UNCHANGED faults
           \/ /\ circuit'[p].failures <= circuit[p].failures + 1
              /\ circuit'[p].state # "closed" =>
                     circuit[p].state # "closed" \/ FailureThreshold <= circuit[p].failures + 1
              /\ FailuresLogged(p)' = FailuresLogged(p)
              /\ \E w : /\ w \notin FailuresRecorded(p)
                        /\ FailuresRecorded(p)' = FailuresRecorded(p) \cup {w}
              /\ UNCHANGED faults
    PROVE  FailuresFinite(p)' /\ BreakerKnows(p)'
<1> DEFINE L == FailuresLogged(p)
           R == FailuresRecorded(p)
           known == Cardinality(L) + Cardinality(R) + faults
           f == circuit[p].failures
           g == circuit'[p].failures
<1>1. faults \in Nat /\ faults' \in Nat /\ f \in Nat /\ g \in Nat /\ FailureThreshold \in Nat
  BY PipelineAssumption, ThresholdAssumption DEF TypeInv, TypeOK, Circuits
<1>2. IsFiniteSet(L) /\ IsFiniteSet(R) /\ Cardinality(L) \in Nat /\ Cardinality(R) \in Nat
  BY FS_CardinalityType DEF FailuresFinite
<1>3. f <= known /\ (circuit[p].state # "closed" => FailureThreshold <= known)
  BY DEF BreakerKnows, FailuresKnown
<1>4. \A w : /\ IsFiniteSet(R \ {w}) /\ Cardinality(R \ {w}) \in Nat
             /\ Cardinality(R \ {w}) >= Cardinality(R) - 1
  <2> HIDE DEF L, R
  <2> TAKE w
  <2>1. /\ IsFiniteSet(R \ {w})
        /\ Cardinality(R \ {w}) = IF w \in R THEN Cardinality(R) - 1 ELSE Cardinality(R)
    BY <1>2, FS_RemoveElement
  <2>2. Cardinality(R \ {w}) \in Nat
    BY <2>1, FS_CardinalityType
  <2> QED BY <1>2, <2>1, <2>2
<1>5. \A w : w \notin R => /\ IsFiniteSet(R \cup {w})
                           /\ Cardinality(R \cup {w}) = Cardinality(R) + 1
  BY <1>2, FS_AddElement
<1>6. \A x : x \notin L => /\ IsFiniteSet(L \cup {x})
                           /\ Cardinality(L \cup {x}) = Cardinality(L) + 1
  BY <1>2, FS_AddElement
<1>7. ASSUME IsFiniteSet(L'), IsFiniteSet(R'), Cardinality(L') \in Nat, Cardinality(R') \in Nat,
             g <= Cardinality(L') + Cardinality(R') + faults',
             circuit'[p].state # "closed" =>
                 FailureThreshold <= Cardinality(L') + Cardinality(R') + faults'
      PROVE  FailuresFinite(p)' /\ BreakerKnows(p)'
  BY <1>7 DEF FailuresFinite, BreakerKnows, FailuresKnown
<1> HIDE DEF L, R, f, g
<1>8. ASSUME g <= f, circuit'[p].state # "closed" => circuit[p].state # "closed",
             IsFiniteSet(L'), IsFiniteSet(R'), Cardinality(L') \in Nat, Cardinality(R') \in Nat,
             known <= Cardinality(L') + Cardinality(R') + faults'
      PROVE  FailuresFinite(p)' /\ BreakerKnows(p)'
  BY <1>1, <1>2, <1>3, <1>7, <1>8
<1>9. CASE /\ g <= f /\ (circuit'[p].state # "closed" => circuit[p].state # "closed")
           /\ L' = L /\ R' = R /\ faults' >= faults
  BY <1>1, <1>2, <1>8, <1>9
<1>10. ASSUME g <= f, circuit'[p].state # "closed" => circuit[p].state # "closed",
              L' = L, NEW w, R' = R \ {w}, faults' = faults + 1
       PROVE  FailuresFinite(p)' /\ BreakerKnows(p)'
  <2>1. IsFiniteSet(R') /\ Cardinality(R') \in Nat /\ Cardinality(R') >= Cardinality(R) - 1
    BY <1>4, <1>10
  <2>2. known <= Cardinality(L') + Cardinality(R') + faults'
    BY <1>1, <1>2, <1>10, <2>1
  <2> QED BY <1>2, <1>8, <1>10, <2>1, <2>2
<1>11. ASSUME g <= f, circuit'[p].state # "closed" => circuit[p].state # "closed",
              NEW x, x \notin L, L' = L \cup {x}, NEW w, R' = R \ {w}, faults' = faults
       PROVE  FailuresFinite(p)' /\ BreakerKnows(p)'
  <2>1. IsFiniteSet(R') /\ Cardinality(R') \in Nat /\ Cardinality(R') >= Cardinality(R) - 1
    BY <1>4, <1>11
  <2>2. IsFiniteSet(L') /\ Cardinality(L') = Cardinality(L) + 1
    BY <1>6, <1>11
  <2>3. known <= Cardinality(L') + Cardinality(R') + faults'
    BY <1>1, <1>2, <1>11, <2>1, <2>2
  <2>4. Cardinality(L') \in Nat
    BY <1>2, <2>2
  <2> QED BY <1>8, <1>11, <2>1, <2>2, <2>3, <2>4
<1>12. ASSUME g <= f + 1,
              circuit'[p].state # "closed" =>
                  circuit[p].state # "closed" \/ FailureThreshold <= f + 1,
              L' = L, NEW w, w \notin R, R' = R \cup {w}, faults' = faults
       PROVE  FailuresFinite(p)' /\ BreakerKnows(p)'
  <2>1. Cardinality(R') = Cardinality(R) + 1 /\ IsFiniteSet(R')
    BY <1>5, <1>12
  <2>2. Cardinality(L') + Cardinality(R') + faults' = known + 1
    BY <1>1, <1>2, <1>12, <2>1
  <2>3. g <= known + 1 /\ (circuit'[p].state # "closed" => FailureThreshold <= known + 1)
    BY <1>1, <1>2, <1>3, <1>12
  <2> QED BY <1>2, <1>7, <1>12, <2>1, <2>2, <2>3
<1> QED BY <1>9, <1>10, <1>11, <1>12 DEF BreakerCalm, L, R, f, g

Failed(e, i) == i \in DOMAIN attempts[e] /\ ~attempts[e][i].success

(* A failed attempt adds itself to the failures of its endpoint, a success *)
(* adds nothing.                                                            *)
LEMMA LoggedFailures ==
    ASSUME TypeInv, NEW p \in Endpoints, NEW w \in Workers, job[w] \in Events,
           ThisAttempt(w) \in Nat, LogAttempt(w)
    PROVE  IF EndpointOf[job[w]] = p /\ ~Succeeded(reply[w])
           THEN \E x : /\ x \notin FailuresLogged(p)
                       /\ FailuresLogged(p)' = FailuresLogged(p) \cup {x}
           ELSE FailuresLogged(p)' = FailuresLogged(p)
<1> DEFINE c == job[w]
           n == Len(attempts[c]) + 1
           won == Succeeded(reply[w])
           row == [attempt_number |-> ThisAttempt(w), success |-> won]
<1>1. won \in BOOLEAN /\ row \in AttemptRows /\ row.success = won
  <2>1. won \in BOOLEAN
    BY DEF Succeeded
  <2> HIDE DEF won
  <2> QED BY <2>1 DEF AttemptRows
<1>2. attempts' = [attempts EXCEPT ![c] = Append(attempts[c], row)]
  BY DEF LogAttempt
<1>3. attempts \in [Events -> Seq(AttemptRows)] /\ c \in Events
  BY DEF TypeInv, TypeOK
<1> HIDE DEF c, row, won
<1>4. \A e \in Events : e # c => attempts'[e] = attempts[e]
  BY <1>2, <1>3
<1>5. /\ DOMAIN attempts[c] = 1..(n - 1) /\ n \in Nat \ {0}
      /\ DOMAIN attempts'[c] = 1..n
      /\ attempts'[c][n] = row
      /\ \A i \in 1..(n - 1) : attempts'[c][i] = attempts[c][i]
  <2> DEFINE old == attempts[c]
  <2>1. old \in Seq(AttemptRows) /\ attempts'[c] = Append(old, row)
    BY <1>2, <1>3
  <2> HIDE DEF old
  <2>2. /\ DOMAIN old = 1..Len(old) /\ Len(old) \in Nat
        /\ DOMAIN Append(old, row) = 1..(Len(old) + 1)
        /\ Append(old, row)[Len(old) + 1] = row
        /\ \A i \in 1..Len(old) : Append(old, row)[i] = old[i]
    BY <1>1, <2>1
  <2> QED BY <2>1, <2>2 DEF old
<1> DEFINE FailedAfter(e, i) == i \in DOMAIN attempts'[e] /\ ~attempts'[e][i].success
<1>6. ASSUME NEW e \in Events, e # c, NEW i PROVE FailedAfter(e, i) <=> Failed(e, i)
  BY <1>4, <1>6 DEF Failed
<1>7. ASSUME NEW i PROVE FailedAfter(c, i) <=> Failed(c, i) \/ (i = n /\ ~won)
  <2>1. CASE i \in 1..(n - 1)
    <3>1. i \in 1..n /\ i # n
      BY <1>5, <2>1
    <3> QED BY <1>5, <2>1, <3>1 DEF Failed
  <2>2. CASE i = n
    <3>1. i \in 1..n /\ i \notin 1..(n - 1)
      BY <1>5, <2>2
    <3> QED BY <1>1, <1>5, <2>2, <3>1 DEF Failed
  <2>3. CASE i \notin 1..(n - 1) /\ i # n
    <3>1. i \notin 1..n
      BY <1>5, <2>3
    <3> QED BY <1>5, <2>3, <3>1 DEF Failed
  <2> QED BY <2>1, <2>2, <2>3
<1>8. ~Failed(c, n)
  BY <1>5 DEF Failed
<1>9. \A x : x \in FailuresLogged(p) <=>
          \E e \in Events : \E i : x = <<e, i>> /\ EndpointOf[e] = p /\ Failed(e, i)
  BY DEF FailuresLogged, Failed
<1>10. \A x : x \in FailuresLogged(p)' <=>
          \E e \in Events : \E i : x = <<e, i>> /\ EndpointOf[e] = p /\ FailedAfter(e, i)
  BY DEF FailuresLogged
<1> HIDE DEF n, FailedAfter
<1>11. CASE EndpointOf[c] = p /\ ~won
  <2>1. <<c, n>> \notin FailuresLogged(p)
    BY <1>8, <1>9
  <2>2. ASSUME NEW x \in FailuresLogged(p)' PROVE x \in FailuresLogged(p) \cup {<<c, n>>}
    <3> PICK e \in Events : \E i : x = <<e, i>> /\ EndpointOf[e] = p /\ FailedAfter(e, i)
      BY <1>10, <2>2
    <3>1. PICK i : x = <<e, i>> /\ EndpointOf[e] = p /\ FailedAfter(e, i)
      OBVIOUS
    <3>2. Failed(e, i) \/ (e = c /\ i = n)
      BY <1>6, <1>7, <3>1
    <3> QED BY <1>9, <3>1, <3>2
  <2>3. ASSUME NEW x \in FailuresLogged(p) PROVE x \in FailuresLogged(p)'
    <3> PICK e \in Events : \E i : x = <<e, i>> /\ EndpointOf[e] = p /\ Failed(e, i)
      BY <1>9, <2>3
    <3>1. PICK i : x = <<e, i>> /\ EndpointOf[e] = p /\ Failed(e, i)
      OBVIOUS
    <3>2. FailedAfter(e, i)
      BY <1>6, <1>7, <3>1
    <3> QED BY <1>10, <3>1, <3>2
  <2>4. <<c, n>> \in FailuresLogged(p)'
    <3>1. FailedAfter(c, n)
      BY <1>7, <1>11
    <3> QED BY <1>3, <1>10, <1>11, <3>1
  <2>5. FailuresLogged(p)' = FailuresLogged(p) \cup {<<c, n>>}
    BY <2>2, <2>3, <2>4
  <2> QED BY <1>11, <2>1, <2>5 DEF c, won
<1>12. CASE ~(EndpointOf[c] = p /\ ~won)
  <2>1. ASSUME NEW e \in Events, EndpointOf[e] = p, NEW i
        PROVE  FailedAfter(e, i) <=> Failed(e, i)
    <3>1. CASE e = c
      <4>1. won
        BY <1>12, <2>1, <3>1
      <4> QED BY <1>7, <3>1, <4>1
    <3>2. CASE e # c
      BY <1>6, <3>2
    <3> QED BY <3>1, <3>2
  <2>2. FailuresLogged(p)' = FailuresLogged(p)
    BY <1>9, <1>10, <2>1
  <2> QED BY <1>12, <2>2 DEF c, won
<1> QED BY <1>11, <1>12

LEMMA StepBreakerKnows ==
    ASSUME TypeInv, [Next]_vars, NEW p \in Endpoints, FailuresFinite(p), BreakerKnows(p)
    PROVE  FailuresFinite(p)' /\ BreakerKnows(p)'
<1>1. TypeInv'
  BY StepTypeInv
<1>2. TypeOK /\ TypeOK' /\ faults \in Nat /\ circuit[p] \in Circuits
  BY <1>1, PipelineAssumption DEF TypeInv, TypeOK
<1>3. UNCHANGED attempts => FailuresLogged(p)' = FailuresLogged(p)
  BY DEF FailuresLogged
<1>4. \A w : w \in FailuresRecorded(p) <=>
          /\ w \in Workers
          /\ pc[w] = "recorded" /\ EndpointOf[job[w]] = p /\ ~Succeeded(reply[w])
  BY DEF FailuresRecorded
<1>5. \A w : w \in FailuresRecorded(p)' <=>
          /\ w \in Workers
          /\ pc'[w] = "recorded" /\ EndpointOf[job'[w]] = p /\ ~Succeeded(reply'[w])
  BY DEF FailuresRecorded
<1>6. circuit'[p] \in {circuit[p], Observed(circuit[p]), AfterSuccess(circuit[p]),
                       WindowLapsed(circuit[p]), Aged(circuit[p])}
      => BreakerCalm(p)
  <2>1. circuit[p].failures <= circuit[p].failures
    BY <1>2, ThresholdAssumption DEF Circuits
  <2> QED BY <1>2, <2>1, CircuitCounts DEF BreakerCalm
<1>7. ASSUME UNCHANGED attempts, BreakerCalm(p), faults' \in {faults, faults + 1},
             UNCHANGED <<pc, job, reply>>
      PROVE  FailuresFinite(p)' /\ BreakerKnows(p)'
  <2>1. FailuresRecorded(p)' = FailuresRecorded(p)
    BY <1>7 DEF FailuresRecorded
  <2> QED BY <1>1, <1>2, <1>3, <1>7, <2>1, KnownMoves
<1>8. ASSUME NEW w \in Workers, UNCHANGED attempts, BreakerCalm(p), UNCHANGED faults,
             pc[w] # "recorded" \/ Succeeded(reply[w]),
             pc'[w] # "recorded" \/ Succeeded(reply'[w]),
             \A v \in Workers \ {w} : pc'[v] = pc[v] /\ job'[v] = job[v] /\ reply'[v] = reply[v]
      PROVE  FailuresFinite(p)' /\ BreakerKnows(p)'
  <2>1. FailuresRecorded(p)' = FailuresRecorded(p)
    BY <1>4, <1>5, <1>8
  <2> QED BY <1>1, <1>2, <1>3, <1>8, <2>1, KnownMoves
<1>9. ASSUME NEW w \in Workers,
             Load(w) \/ DeadLetterInactive(w) \/ RescheduleOpen(w) \/ Post(w) \/ Respond(w)
      PROVE  FailuresFinite(p)' /\ BreakerKnows(p)'
  <2>1. /\ UNCHANGED <<attempts, circuit, faults, job>>
        /\ pc[w] # "recorded" /\ pc'[w] # "recorded"
        /\ \A v \in Workers \ {w} : pc'[v] = pc[v] /\ reply'[v] = reply[v]
    BY <1>2, <1>9 DEF Load, DeadLetterInactive, RescheduleOpen, Post, Respond, Goto,
       TypeOK, rows
  <2> QED BY <1>6, <1>8, <2>1
<1>10. ASSUME NEW w \in Workers, Finish(w) \/ \E e \in Events : Start(w, e)
       PROVE  FailuresFinite(p)' /\ BreakerKnows(p)'
  <2>1. /\ UNCHANGED <<attempts, circuit, faults>>
        /\ pc[w] # "recorded" /\ pc'[w] # "recorded"
        /\ \A v \in Workers \ {w} : pc'[v] = pc[v] /\ job'[v] = job[v] /\ reply'[v] = reply[v]
    BY <1>2, <1>10 DEF Finish, Start, Vacate, Goto, TypeOK, rows
  <2> QED BY <1>6, <1>8, <2>1
<1>11. ASSUME NEW w \in Workers, Gate(w) PROVE FailuresFinite(p)' /\ BreakerKnows(p)'
  <2>1. /\ UNCHANGED <<attempts, faults, job, reply>>
        /\ pc[w] # "recorded" /\ pc'[w] # "recorded"
        /\ \A v \in Workers \ {w} : pc'[v] = pc[v]
    BY <1>2, <1>11 DEF Gate, Goto, TypeOK, rows
  <2>2. circuit'[p] \in {circuit[p], Observed(circuit[p])}
    BY <1>2, <1>11 DEF Gate, TypeOK
  <2> QED BY <1>6, <1>8, <2>1, <2>2
<1>12. ASSUME NEW w \in Workers, RecordOutcome(w)
       PROVE  FailuresFinite(p)' /\ BreakerKnows(p)'
  <2>1. /\ UNCHANGED <<attempts, faults, job, reply>>
        /\ pc[w] = "responded" /\ pc'[w] = "recorded"
        /\ \A v \in Workers \ {w} : pc'[v] = pc[v]
    BY <1>2, <1>12 DEF RecordOutcome, Goto, TypeOK, rows
  <2>2. EndpointOf[job[w]] # p => circuit'[p] = circuit[p]
    BY <1>2, <1>12 DEF RecordOutcome, TypeOK
  <2>3. EndpointOf[job[w]] = p =>
            circuit'[p] = IF Succeeded(reply[w]) THEN AfterSuccess(circuit[p])
                                                 ELSE AfterFailure(circuit[p])
    BY <1>2, <1>12 DEF RecordOutcome, TypeOK
  <2>4. CASE EndpointOf[job[w]] # p
    <3>1. FailuresRecorded(p)' = FailuresRecorded(p)
      BY <1>4, <1>5, <2>1, <2>4
    <3>2. BreakerCalm(p) /\ faults' >= faults
      BY <1>2, <1>6, <2>1, <2>2, <2>4
    <3> QED BY <1>1, <1>3, <2>1, <3>1, <3>2, KnownMoves
  <2>5. CASE EndpointOf[job[w]] = p /\ Succeeded(reply[w])
    <3>1. circuit'[p] = AfterSuccess(circuit[p])
      BY <2>3, <2>5
    <3> QED BY <1>6, <1>8, <2>1, <2>5, <3>1
  <2>6. CASE EndpointOf[job[w]] = p /\ ~Succeeded(reply[w])
    <3>1. circuit'[p] = AfterFailure(circuit[p])
      BY <2>3, <2>6
    <3>2. /\ circuit'[p].failures <= circuit[p].failures + 1
          /\ circuit'[p].state # "closed" =>
                 circuit[p].state # "closed" \/ FailureThreshold <= circuit[p].failures + 1
      BY <1>2, <3>1, CircuitCounts
    <3>3. w \notin FailuresRecorded(p)
      BY <1>4, <2>1
    <3>4. FailuresRecorded(p)' = FailuresRecorded(p) \cup {w}
      BY <1>4, <1>5, <2>1, <2>6
    <3> QED BY <1>1, <1>3, <2>1, <3>2, <3>3, <3>4, KnownMoves
  <2> QED BY <2>4, <2>5, <2>6
<1>13. ASSUME NEW w \in Workers, ConcludeDelivered(w) \/ ConcludeRetry(w) \/ ConcludeDeadLetter(w)
       PROVE  FailuresFinite(p)' /\ BreakerKnows(p)'
  <2>1. /\ UNCHANGED <<circuit, faults, job, reply>>
        /\ pc[w] = "recorded" /\ pc'[w] = "finishing"
        /\ \A v \in Workers \ {w} : pc'[v] = pc[v]
        /\ LogAttempt(w)
    BY <1>2, <1>13 DEF ConcludeDelivered, ConcludeRetry, ConcludeDeadLetter, Goto, TypeOK
  <2>2. job[w] \in Events /\ ThisAttempt(w) \in Nat
    BY <1>2, <2>1, BusyJob DEF ThisAttempt, TypeOK, Copies
  <2>3. BreakerCalm(p) /\ faults' >= faults
    BY <1>2, <1>6, <2>1
  <2>4. CASE EndpointOf[job[w]] = p /\ ~Succeeded(reply[w])
    <3>1. \E x : /\ x \notin FailuresLogged(p)
                 /\ FailuresLogged(p)' = FailuresLogged(p) \cup {x}
      BY <2>1, <2>2, <2>4, LoggedFailures
    <3>2. FailuresRecorded(p)' = FailuresRecorded(p) \ {w}
      BY <1>4, <1>5, <2>1
    <3> QED BY <1>1, <2>1, <2>3, <3>1, <3>2, KnownMoves
  <2>5. CASE ~(EndpointOf[job[w]] = p /\ ~Succeeded(reply[w]))
    <3>1. FailuresLogged(p)' = FailuresLogged(p)
      BY <2>1, <2>2, <2>5, LoggedFailures
    <3>2. FailuresRecorded(p)' = FailuresRecorded(p)
      BY <1>4, <1>5, <2>1, <2>5
    <3> QED BY <1>1, <2>3, <3>1, <3>2, KnownMoves
  <2> QED BY <2>4, <2>5
<1>14. ASSUME NEW w \in Workers, Fail(w) PROVE FailuresFinite(p)' /\ BreakerKnows(p)'
  <2>1. UNCHANGED <<attempts, circuit>>
    BY <1>14 DEF Fail, Abort, JobTimeout, Shutdown, Crash, rows
  <2>2. /\ pc'[w] # "recorded"
        /\ \A v \in Workers \ {w} : pc'[v] = pc[v] /\ job'[v] = job[v] /\ reply'[v] = reply[v]
    BY <1>2, <1>14 DEF Fail, Abort, JobTimeout, Shutdown, Crash, Vacate, Goto, TypeOK
  <2>3. faults' = faults + 1 \/ (pc[w] # "recorded" /\ UNCHANGED faults)
    BY <1>14 DEF Fail, Abort, JobTimeout, Shutdown, Crash, SpendFault
  <2>4. BreakerCalm(p)
    BY <1>6, <2>1
  <2>5. CASE faults' = faults + 1
    <3>1. FailuresRecorded(p)' = FailuresRecorded(p) \ {w}
      BY <1>4, <1>5, <2>2
    <3> QED BY <1>1, <1>3, <2>1, <2>4, <2>5, <3>1, KnownMoves
  <2>6. CASE pc[w] # "recorded" /\ UNCHANGED faults
    BY <1>8, <2>1, <2>2, <2>4, <2>6
  <2> QED BY <2>3, <2>5, <2>6
<1>15. ASSUME NEW e \in Events, Api(e) PROVE FailuresFinite(p)' /\ BreakerKnows(p)'
  <2>1. UNCHANGED <<attempts, circuit, pc, job, reply>> /\ faults' \in {faults, faults + 1}
    BY <1>15 DEF Api, ApiInsert, ApiEnqueue, ApiCommit, ApiAbort, SpendFault, rows, local
  <2> QED BY <1>6, <1>7, <2>1
<1>16. ASSUME Background PROVE FailuresFinite(p)' /\ BreakerKnows(p)'
  <2>1. ASSUME NEW e \in Events, Drop(e) \/ Poll(e) \/ EventTimers(e)
        PROVE  UNCHANGED circuit /\ faults' \in {faults, faults + 1}
    BY <2>1 DEF Drop, Poll, PollEnqueue, PollEnqueueFails, EventTimers, TimerFires,
       LeaseExpires, ResultExpires, SpendFault
  <2>2. ASSUME NEW q \in Endpoints,
               UpdateEndpoint(q) \/ CircuitAges(q) \/ FailureWindowLapses(q)
        PROVE  /\ UNCHANGED faults
               /\ circuit'[p] \in {circuit[p], WindowLapsed(circuit[p]), Aged(circuit[p])}
    BY <1>2, <2>2 DEF UpdateEndpoint, CircuitAges, FailureWindowLapses, TypeOK
  <2>3. ASSUME PollRead \/ PollLost \/ UNCHANGED vars
        PROVE  UNCHANGED circuit /\ faults' \in {faults, faults + 1}
    BY <2>3 DEF PollRead, PollLost, SpendFault, vars
  <2> QED BY <1>6, <1>7, <1>16, <2>1, <2>2, <2>3, BackgroundFrame DEF Background
<1> QED
  BY <1>9, <1>10, <1>11, <1>12, <1>13, <1>14, <1>15, <1>16 DEF Next, Deliver, Background

(* Redis and PostgreSQL never meet again: still the failures that the breaker *)
(* counts, and the threshold on which it opened, are attempts in the audit   *)
(* log, about to be committed, or rolled back by a fault, however many       *)
(* workers share the endpoint and whatever leases lapse.                     *)
THEOREM BreakerMatchesLogHolds == Spec => []BreakerMatchesLog
<1> DEFINE Inv == \A p \in Endpoints : FailuresFinite(p) /\ BreakerKnows(p)
<1>1. Init => Inv
  <2> SUFFICES ASSUME Init, NEW p \in Endpoints
               PROVE  FailuresFinite(p) /\ BreakerKnows(p)
    OBVIOUS
  <2>1. FailuresLogged(p) = {} /\ FailuresRecorded(p) = {}
    BY DEF Init, FailuresLogged, FailuresRecorded
  <2>2. IsFiniteSet({}) /\ Cardinality({}) = 0
    BY FS_EmptySet
  <2>3. circuit[p].failures = 0 /\ circuit[p].state = "closed" /\ faults = 0
    BY DEF Init, ClosedCircuit
  <2> QED BY <2>1, <2>2, <2>3 DEF FailuresFinite, BreakerKnows, FailuresKnown
<1>2. TypeInv /\ Inv /\ [Next]_vars => Inv'
  BY StepBreakerKnows
<1>3. Inv => BreakerMatchesLog
  BY DEF BreakerKnows, BreakerMatchesLog
<1>4. Spec => [](TypeInv /\ RowsConsistent)
  BY RowsConsistentHolds
<1> QED BY <1>1, <1>2, <1>3, <1>4, PTL DEF Spec

=============================================================================
