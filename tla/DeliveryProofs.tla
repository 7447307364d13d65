--------------------------- MODULE DeliveryProofs ---------------------------
(***************************************************************************)
(* Theorems about DeliveryPipeline, for any number of events, endpoints,   *)
(* workers and faults.                                                     *)
(***************************************************************************)
EXTENDS DeliveryPipeline, TLAPS

(* The calls of the breaker keep it well formed. *)
LEMMA CircuitCalls ==
    ASSUME NEW c \in Circuits
    PROVE  /\ ClosedCircuit \in Circuits
           /\ Observed(c) \in Circuits
           /\ AfterSuccess(c) \in Circuits
           /\ AfterFailure(c) \in Circuits
           /\ WindowLapsed(c) \in Circuits
           /\ Aged(c) \in Circuits
<1> USE ThresholdAssumption
<1>1. ClosedCircuit \in Circuits
  BY DEF ClosedCircuit, Circuits, CircuitStates
<1>2. \A d \in Circuits : Observed(d) \in Circuits
  BY DEF Observed, Circuits, CircuitStates
<1>3. AfterSuccess(c) \in Circuits
  BY <1>1, <1>2 DEF AfterSuccess
<1>4. OneMoreFailure(c) \in Circuits
  BY DEF OneMoreFailure, Circuits, CircuitStates
<1>5. AfterFailure(c) \in Circuits
  <2> DEFINE o == Observed(OneMoreFailure(c))
  <2>1. o \in Circuits
    BY <1>2, <1>4
  <2>2. [o EXCEPT !.state = "open", !.aged = FALSE] \in Circuits
    <3> HIDE DEF o
    <3> QED BY <2>1 DEF Circuits, CircuitStates
  <2> QED BY <2>1, <2>2 DEF AfterFailure
<1>6. WindowLapsed(c) \in Circuits
  BY DEF WindowLapsed, Circuits, CircuitStates
<1>7. Aged(c) \in Circuits
  BY DEF Aged, Circuits, CircuitStates
<1> QED BY <1>1, <1>2, <1>3, <1>5, <1>6, <1>7

(* What the repositories assign leaves an event row an event row. *)
LEMMA RowUpdates ==
    ASSUME NEW row \in EventRows, NEW n \in Nat, NEW s \in Statuses, NEW loaded
    PROVE  /\ [row EXCEPT !.status = s] \in EventRows
           /\ [row EXCEPT !.status = s, !.attempt_count = n] \in EventRows
           /\ [status |-> s, attempt_count |-> n, next_retry_at |-> "set"] \in EventRows
           /\ ScheduledRow(row, loaded) \in EventRows
<1>1. [row EXCEPT !.status = s] \in EventRows
  BY DEF EventRows
<1>2. [row EXCEPT !.status = s, !.attempt_count = n] \in EventRows
  BY DEF EventRows
<1>3. [status |-> s, attempt_count |-> n, next_retry_at |-> "set"] \in EventRows
  BY DEF EventRows
<1>4. ScheduledRow(row, loaded) \in EventRows
  BY DEF ScheduledRow, EventRows, Statuses
<1> QED BY <1>1, <1>2, <1>3, <1>4

(* A slot holds an event exactly while it is busy. *)
SlotsMatch ==
    \A w \in Workers : pc[w] = "idle" <=> job[w] = NoJob

TypeInv == TypeOK /\ SlotsMatch

LEMMA BusyJob ==
    ASSUME TypeInv, NEW w \in Workers, pc[w] # "idle"
    PROVE  job[w] \in Events
BY DEF TypeInv, TypeOK, SlotsMatch

LEMMA LoggedRows ==
    ASSUME TypeInv, NEW w \in Workers, job[w] \in Events, ThisAttempt(w) \in Nat,
           LogAttempt(w)
    PROVE  attempts' \in [Events -> Seq(AttemptRows)]
<1> DEFINE won == Succeeded(reply[w])
           row == [attempt_number |-> ThisAttempt(w), success |-> won]
<1>1. won \in BOOLEAN
  BY DEF Succeeded
<1>2. row \in AttemptRows
  <2> HIDE DEF won
  <2> QED BY <1>1 DEF AttemptRows
<1>3. attempts' = [attempts EXCEPT ![job[w]] = Append(attempts[job[w]], row)]
  BY DEF LogAttempt
<1> HIDE DEF row
<1> QED BY <1>2, <1>3 DEF TypeInv, TypeOK

LEMMA DeactivatedRow ==
    ASSUME NEW row \in EndpointRows, NEW keep \in BOOLEAN
    PROVE  [row EXCEPT !.is_active = @ /\ keep] \in EndpointRows
<1>1. (row.is_active /\ keep) \in BOOLEAN
  OBVIOUS
<1> DEFINE active == row.is_active /\ keep
<1>2. [row EXCEPT !.is_active = active] \in EndpointRows
  <2> HIDE DEF active
  <2>1. active \in BOOLEAN
    BY <1>1 DEF active
  <2> QED BY <2>1 DEF EndpointRows
<1> QED BY <1>2

LEMMA InitTypeInv == Init => TypeInv
<1> SUFFICES ASSUME Init PROVE TypeInv
  OBVIOUS
<1>1. ClosedCircuit \in Circuits
  BY ThresholdAssumption DEF ClosedCircuit, Circuits, CircuitStates
<1>2. TypeOK
  <2>1. event \in [Events -> EventRows]
    BY DEF Init, EventRows, Statuses
  <2>2. attempts \in [Events -> Seq(AttemptRows)] /\ dlq \in [Events -> Seq(Nat)]
    BY DEF Init
  <2>3. endpoint \in [Endpoints -> EndpointRows]
    <3>1. [is_active : {TRUE}, max_retries : RetryLimits] \subseteq EndpointRows
      BY DEF EndpointRows
    <3> QED BY <3>1 DEF Init
  <2>4. copy \in [Workers -> Copies]
    BY DEF Init, NoCopy, Copies, Statuses
  <2>5. posts \in [Events -> 0..PostCap] /\ faults \in 0..MaxFaults /\ ArqTypeOK
    BY PipelineAssumption, MaxTriesAssumption DEF Init, ArqInit, ArqTypeOK
  <2>6. circuit \in [Endpoints -> Circuits]
    BY <1>1 DEF Init
  <2> QED
    BY <2>1, <2>2, <2>3, <2>4, <2>5, <2>6 DEF Init, TypeOK, Steps
<1>3. SlotsMatch
  BY DEF Init, SlotsMatch
<1> QED BY <1>2, <1>3 DEF TypeInv

LEMMA StepTypeInv == TypeInv /\ [Next]_vars => TypeInv'
<1> SUFFICES ASSUME TypeInv, [Next]_vars PROVE TypeInv'
  OBVIOUS
<1> USE PipelineAssumption, MaxTriesAssumption
<1> USE DEF TypeInv, TypeOK, SlotsMatch, ArqTypeOK, rows, local, history, arqVars
<1>1. ASSUME NEW e \in Events, ApiInsert(e) PROVE TypeInv'
  BY <1>1 DEF ApiInsert
<1>2. ASSUME NEW e \in Events, ApiEnqueue(e) PROVE TypeInv'
  BY <1>2 DEF ApiEnqueue, EnqueueJob
<1>3. ASSUME NEW e \in Events, ApiCommit(e) PROVE TypeInv'
  <2>1. event' \in [Events -> EventRows]
    BY <1>3, RowUpdates DEF ApiCommit, Statuses
  <2>2. endpoint[EndpointOf[e]].max_retries \in RetryLimits
    BY DEF EndpointRows
  <2>3. limits' \in [Events -> SUBSET RetryLimits]
    BY <1>3, <2>2 DEF ApiCommit
  <2> QED BY <1>3, <2>1, <2>3 DEF ApiCommit
<1>4. ASSUME NEW e \in Events, ApiAbort(e) PROVE TypeInv'
  BY <1>4 DEF ApiAbort, SpendFault
<1>5. ASSUME NEW p \in Endpoints, UpdateEndpoint(p) PROVE TypeInv'
  <2>1. PICK row \in EndpointRows :
            /\ endpoint' = [endpoint EXCEPT ![p] = row]
            /\ limits' = [e \in Events |->
                             IF EndpointOf[e] = p /\ Exists(e)
                             THEN limits[e] \cup {row.max_retries} ELSE limits[e]]
    BY <1>5 DEF UpdateEndpoint
  <2>2. row.max_retries \in RetryLimits
    BY DEF EndpointRows
  <2>3. limits' \in [Events -> SUBSET RetryLimits]
    BY <2>1, <2>2
  <2> QED BY <1>5, <2>1, <2>3 DEF UpdateEndpoint
<1>6. ASSUME NEW w \in Workers, NEW e \in Events, Start(w, e) PROVE TypeInv'
  BY <1>6 DEF Start, StartJob, Goto, Steps
<1>7. ASSUME NEW e \in Events, Drop(e) PROVE TypeInv'
  BY <1>7 DEF Drop, DropJob, FinishJob
<1>8. ASSUME NEW w \in Workers, Load(w) PROVE TypeInv'
  <2>1. LoadedCopy(job[w]) \in Copies
    <3>1. job[w] \in Events /\ EndpointOf[job[w]] \in Endpoints
      BY <1>8, BusyJob DEF Load
    <3> QED BY <3>1 DEF LoadedCopy, Copies, EventRows, EndpointRows
  <2>2. copy' \in [Workers -> Copies]
    BY <1>8, <2>1 DEF Load
  <2>3. PICK step \in {"finishing", "inactive", "gate"} : Goto(w, step)
    BY <1>8 DEF Load
  <2>4. /\ pc' \in [Workers -> Steps]
        /\ \A v \in Workers : pc'[v] = "idle" <=> pc[v] = "idle"
    BY <1>8, <2>3 DEF Load, Goto, Steps
  <2> QED BY <1>8, <2>2, <2>4 DEF Load
<1>9. ASSUME NEW w \in Workers, DeadLetterInactive(w) PROVE TypeInv'
  <2>1. job[w] \in Events /\ copy[w].attempt_count \in Nat
    BY <1>9, BusyJob DEF DeadLetterInactive, Copies
  <2>2. event' \in [Events -> EventRows]
    BY <1>9, <2>1, RowUpdates DEF DeadLetterInactive, Statuses
  <2> QED BY <1>9, <2>1, <2>2, SMTT(30) DEF DeadLetterInactive, Goto, Steps
<1>10. ASSUME NEW w \in Workers, Gate(w) PROVE TypeInv'
  BY <1>10, BusyJob, CircuitCalls DEF Gate, Goto, Steps
<1>11. ASSUME NEW w \in Workers, RescheduleOpen(w) PROVE TypeInv'
  <2>1. job[w] \in Events
    BY <1>11, BusyJob DEF RescheduleOpen
  <2>2. event' \in [Events -> EventRows]
    BY <1>11, <2>1, RowUpdates DEF RescheduleOpen, Statuses
  <2> QED BY <1>11, <2>1, <2>2 DEF RescheduleOpen, Goto, Steps
<1>12. ASSUME NEW w \in Workers, Post(w) PROVE TypeInv'
  BY <1>12, BusyJob, SMTT(30) DEF Post, Goto, Steps
<1>13. ASSUME NEW w \in Workers, Respond(w) PROVE TypeInv'
  BY <1>13, BusyJob DEF Respond, Goto, Steps
<1>14. ASSUME NEW w \in Workers, RecordOutcome(w) PROVE TypeInv'
  BY <1>14, BusyJob, CircuitCalls DEF RecordOutcome, Goto, Steps
<1>15. ASSUME NEW w \in Workers, ConcludeDelivered(w) PROVE TypeInv'
  <2>1. job[w] \in Events /\ ThisAttempt(w) \in Nat
    BY <1>15, BusyJob, SMTT(30) DEF ConcludeDelivered, ThisAttempt, Copies
  <2>2. event' \in [Events -> EventRows]
    BY <1>15, <2>1, RowUpdates DEF ConcludeDelivered, Statuses
  <2>3. attempts' \in [Events -> Seq(AttemptRows)]
    BY <1>15, <2>1, LoggedRows DEF ConcludeDelivered
  <2> QED BY <1>15, <2>1, <2>2, <2>3 DEF ConcludeDelivered, Goto, Steps
<1>16. ASSUME NEW w \in Workers, ConcludeRetry(w) PROVE TypeInv'
  <2>1. job[w] \in Events /\ ThisAttempt(w) \in Nat
    BY <1>16, BusyJob DEF ConcludeRetry, ThisAttempt, Copies
  <2>2. event' \in [Events -> EventRows]
    BY <1>16, <2>1, RowUpdates DEF ConcludeRetry, Statuses
  <2>3. attempts' \in [Events -> Seq(AttemptRows)]
    BY <1>16, <2>1, LoggedRows DEF ConcludeRetry
  <2> QED BY <1>16, <2>1, <2>2, <2>3 DEF ConcludeRetry, Goto, Steps
<1>17. ASSUME NEW w \in Workers, ConcludeDeadLetter(w) PROVE TypeInv'
  <2>1. job[w] \in Events /\ ThisAttempt(w) \in Nat
    BY <1>17, BusyJob, SMTT(30) DEF ConcludeDeadLetter, ThisAttempt, Copies
  <2>2. event' \in [Events -> EventRows]
    BY <1>17, <2>1, RowUpdates DEF ConcludeDeadLetter, Statuses
  <2>3. attempts' \in [Events -> Seq(AttemptRows)]
    BY <1>17, <2>1, LoggedRows DEF ConcludeDeadLetter
  <2>4. endpoint' \in [Endpoints -> EndpointRows]
    <3> DEFINE p == EndpointOf[job[w]]
               keep == reply[w] # 410
               row == [endpoint[p] EXCEPT !.is_active = @ /\ keep]
    <3>1. p \in Endpoints /\ keep \in BOOLEAN
      BY <2>1
    <3>2. row \in EndpointRows
      <4> HIDE DEF p, keep
      <4> QED BY <3>1, DeactivatedRow
    <3>3. endpoint' = [endpoint EXCEPT ![p] = row]
      BY <1>17 DEF ConcludeDeadLetter
    <3> HIDE DEF p, row
    <3> QED BY <3>1, <3>2, <3>3
  <2> QED BY <1>17, <2>1, <2>2, <2>3, <2>4, SMTT(30) DEF ConcludeDeadLetter, Goto, Steps
<1>18. ASSUME NEW w \in Workers, Finish(w) PROVE TypeInv'
  BY <1>18, BusyJob, SMTT(30) DEF Finish, FinishJob, Vacate, Steps, Copies, NoCopy, Statuses
<1>19. ASSUME NEW w \in Workers, Fail(w) PROVE TypeInv'
  <2>1. NoCopy \in Copies
    BY DEF NoCopy, Copies, Statuses
  <2>2. CASE Abort(w)
    BY <2>2, BusyJob DEF Abort, SpendFault, Goto, Busy, Steps
  <2>3. CASE JobTimeout(w)
    BY <2>3, BusyJob DEF JobTimeout, SpendFault, Goto, Steps
  <2>4. CASE Shutdown(w)
    BY <2>1, <2>4 DEF Shutdown, SpendFault, Vacate, ReleaseJob, Steps
  <2>5. CASE Crash(w)
    BY <2>1, <2>5 DEF Crash, SpendFault, Vacate, Steps
  <2> QED BY <1>19, <2>2, <2>3, <2>4, <2>5 DEF Fail
<1>20. ASSUME PollRead PROVE TypeInv'
  <2>1. batch' \subseteq Events
    BY <1>20 DEF PollRead, Page, DueForRetry, StalePending
  <2> QED BY <1>20, <2>1 DEF PollRead
<1>21. ASSUME NEW e \in Events, Poll(e) PROVE TypeInv'
  BY <1>21 DEF Poll, PollEnqueue, PollEnqueueFails, EnqueueJob, SpendFault
<1>22. ASSUME PollLost PROVE TypeInv'
  BY <1>22 DEF PollLost, SpendFault
<1>23. ASSUME NEW e \in Events, EventTimers(e) PROVE TypeInv'
  BY <1>23
  DEF EventTimers, TimerFires, LeaseExpires, ResultExpires, ExpireLease, ExpireResult,
      SpendFault
<1>24. ASSUME NEW p \in Endpoints, CircuitAges(p) \/ FailureWindowLapses(p) PROVE TypeInv'
  <2>1. CASE CircuitAges(p)
    BY <2>1, CircuitCalls DEF CircuitAges
  <2>2. CASE FailureWindowLapses(p)
    BY <2>2, CircuitCalls DEF FailureWindowLapses
  <2> QED BY <1>24, <2>1, <2>2
<1>25. ASSUME UNCHANGED vars PROVE TypeInv'
  BY <1>25 DEF vars
<1> QED
  BY <1>1, <1>2, <1>3, <1>4, <1>5, <1>6, <1>7, <1>8, <1>9, <1>10, <1>11, <1>12, <1>13,
     <1>14, <1>15, <1>16, <1>17, <1>18, <1>19, <1>20, <1>21, <1>22, <1>23, <1>24, <1>25
  DEF Next, Api, Deliver

(* Type correctness: DeliveryService, the API and the poller keep every row *)
(* and every local variable in its type.                                    *)
THEOREM TypeCorrect == Spec => []TypeOK
<1>1. TypeInv /\ [Next]_vars => TypeInv'
  BY StepTypeInv
<1>2. TypeInv => TypeOK
  BY DEF TypeInv
<1> QED BY InitTypeInv, <1>1, <1>2, PTL DEF Spec

=============================================================================
