------------------------ MODULE DeliverySafetyProofs ------------------------
(***************************************************************************)
(* Safety of DeliveryPipeline for any number of events, endpoints, workers *)
(* and faults: first what holds even when leases lapse, then what the      *)
(* exclusivity of jobs adds.                                               *)
(***************************************************************************)
EXTENDS DeliveryProofs

(* No worker can open a POST for an event while another has one open. *)
LEMMA StepOnePost ==
    TypeInv /\ OnePostAtATime /\ [Next]_vars => OnePostAtATime'
<1> SUFFICES ASSUME TypeInv, OnePostAtATime, [Next]_vars
             PROVE  OnePostAtATime'
  OBVIOUS
<1> USE DEF OnePostAtATime, HoldsRowLock, TypeInv, TypeOK, SlotsMatch, Steps
<1>1. ASSUME NEW w \in Workers, Post(w) PROVE OnePostAtATime'
  BY <1>1 DEF Post, RowFree, Goto
<1>2. ASSUME NEW w \in Workers, NEW e \in Events, Start(w, e) PROVE OnePostAtATime'
  BY <1>2 DEF Start, Goto
<1>3. ASSUME NEW w \in Workers, UNCHANGED job, NEW step \in Steps, Goto(w, step),
             HoldsRowLock(w) \/ step \notin {"posting", "responded", "recorded"}
      PROVE  OnePostAtATime'
  BY <1>3 DEF Goto
<1>4. ASSUME NEW w \in Workers,
             Load(w) \/ DeadLetterInactive(w) \/ Gate(w) \/ RescheduleOpen(w)
      PROVE  OnePostAtATime'
  BY <1>3, <1>4 DEF Load, DeadLetterInactive, Gate, RescheduleOpen
<1>5. ASSUME NEW w \in Workers,
             \/ Respond(w) \/ RecordOutcome(w)
             \/ ConcludeDelivered(w) \/ ConcludeRetry(w) \/ ConcludeDeadLetter(w)
      PROVE  OnePostAtATime'
  BY <1>3, <1>5
  DEF Respond, RecordOutcome, ConcludeDelivered, ConcludeRetry, ConcludeDeadLetter
<1>6. ASSUME NEW w \in Workers, Finish(w) \/ Shutdown(w) \/ Crash(w)
      PROVE  OnePostAtATime'
  <2>1. Vacate(w)
    BY <1>6 DEF Finish, Shutdown, Crash
  <2> QED BY <2>1 DEF Vacate
<1>7. ASSUME NEW w \in Workers, Abort(w) \/ JobTimeout(w)
      PROVE  OnePostAtATime'
  BY <1>7, SMTT(30) DEF Abort, JobTimeout, Goto
<1>8. ASSUME UNCHANGED local PROVE OnePostAtATime'
  BY <1>8 DEF local
<1>9. ASSUME NEW e \in Events, Api(e) \/ Drop(e) \/ Poll(e) \/ EventTimers(e)
      PROVE  UNCHANGED local
  BY <1>9 DEF Api, ApiInsert, ApiEnqueue, ApiCommit, ApiAbort, Drop, Poll, PollEnqueue,
     PollEnqueueFails, EventTimers, TimerFires, LeaseExpires, ResultExpires, local
<1>10. ASSUME NEW p \in Endpoints,
              UpdateEndpoint(p) \/ CircuitAges(p) \/ FailureWindowLapses(p)
       PROVE  UNCHANGED local
  BY <1>10 DEF UpdateEndpoint, CircuitAges, FailureWindowLapses, local
<1>11. ASSUME PollRead \/ PollLost \/ UNCHANGED vars PROVE UNCHANGED local
  BY <1>11 DEF PollRead, PollLost, vars, local
<1> QED
  BY <1>1, <1>2, <1>3, <1>4, <1>5, <1>6, <1>7, <1>8, <1>9, <1>10, <1>11
  DEF Next, Deliver, Fail

(* The row lock that mark_delivering takes keeps the POSTs of an event      *)
(* apart, whatever happens to the lease of its job.                         *)
THEOREM OnePostAtATimeHolds == Spec => []OnePostAtATime
<1>1. Init => TypeInv /\ OnePostAtATime
  BY InitTypeInv DEF Init, OnePostAtATime, HoldsRowLock
<1>2. TypeInv /\ OnePostAtATime /\ [Next]_vars => (TypeInv /\ OnePostAtATime)'
  BY StepTypeInv, StepOnePost
<1> QED BY <1>1, <1>2, PTL DEF Spec

-----------------------------------------------------------------------------
(* Rows *)

(* The steps that write no row, change no ingest and belong to no worker. *)
Background ==
    \/ \E e \in Events : Drop(e) \/ Poll(e) \/ EventTimers(e)
    \/ \E p \in Endpoints :
          UpdateEndpoint(p) \/ CircuitAges(p) \/ FailureWindowLapses(p)
    \/ PollRead
    \/ PollLost
    \/ UNCHANGED vars

LEMMA BackgroundFrame ==
    Background => UNCHANGED <<event, attempts, dlq, ingest, pc, job, copy, reply>>
<1> SUFFICES ASSUME Background
             PROVE  UNCHANGED <<event, attempts, dlq, ingest, pc, job, copy, reply>>
  OBVIOUS
<1> USE DEF rows, local
<1>1. ASSUME NEW e \in Events, Drop(e) \/ Poll(e) \/ EventTimers(e)
      PROVE  UNCHANGED <<event, attempts, dlq, ingest, pc, job, copy, reply>>
  BY <1>1 DEF Drop, Poll, PollEnqueue, PollEnqueueFails, EventTimers, TimerFires,
     LeaseExpires, ResultExpires
<1>2. ASSUME NEW p \in Endpoints,
             UpdateEndpoint(p) \/ CircuitAges(p) \/ FailureWindowLapses(p)
      PROVE  UNCHANGED <<event, attempts, dlq, ingest, pc, job, copy, reply>>
  BY <1>2 DEF UpdateEndpoint, CircuitAges, FailureWindowLapses
<1>3. ASSUME PollRead \/ PollLost \/ UNCHANGED vars
      PROVE  UNCHANGED <<event, attempts, dlq, ingest, pc, job, copy, reply>>
  BY <1>3 DEF PollRead, PollLost, vars
<1> QED BY <1>1, <1>2, <1>3 DEF Background

WorkingSteps ==
    {"inactive", "gate", "open", "claiming", "posting", "responded", "recorded"}

(* Any number of workers, any leases: rows and loaded copies stay consistent. *)
LEMMA StepRowsConsistent ==
    TypeInv /\ RowsConsistent /\ [Next]_vars => RowsConsistent'
<1> SUFFICES ASSUME TypeInv, RowsConsistent, [Next]_vars
             PROVE  RowsConsistent'
  OBVIOUS
<1> USE DEF RowsConsistent, Working, TypeInv, TypeOK
<1>1. ASSUME NEW w \in Workers, NEW step \in Steps, Goto(w, step),
             Working(w) \/ step \notin WorkingSteps,
             UNCHANGED <<event, ingest, job, copy>>
      PROVE  RowsConsistent'
  BY <1>1 DEF Goto, WorkingSteps, Steps
<1>2. ASSUME NEW w \in Workers, Vacate(w), UNCHANGED <<event, ingest>>
      PROVE  RowsConsistent'
  BY <1>2 DEF Vacate
<1>3. ASSUME NEW w \in Workers, Working(w), NEW row \in EventRows,
             row.status \notin {"absent", "pending"},
             row.status = "failed" => row.next_retry_at = "set",
             event' = [event EXCEPT ![job[w]] = row],
             Goto(w, "finishing"), UNCHANGED <<ingest, job, copy>>
      PROVE  RowsConsistent'
  <2>1. job[w] \in Events
    BY <1>3, BusyJob
  <2>2. \A e \in Events : event'[e] = IF e = job[w] THEN row ELSE event[e]
    BY <1>3, <2>1
  <2>3. ASSUME NEW v \in Workers, Working(v)' PROVE Working(v) /\ job[v] \in Events
    BY <1>3, <2>3, BusyJob DEF Goto
  <2>4. \A v \in Workers : Working(v)' => event'[job[v]].status # "absent"
    BY <1>3, <2>2, <2>3
  <2>5. \A v \in Workers :
            Working(v)' /\ copy[v].status = "failed" => event'[job[v]].status # "pending"
    BY <1>3, <2>2, <2>3
  <2> QED BY <1>3, <2>2, <2>3, <2>4, <2>5
<1>4. ASSUME UNCHANGED <<event, ingest, pc, job, copy>> PROVE RowsConsistent'
  BY <1>4
<1>5. ASSUME NEW e \in Events, ApiInsert(e) \/ ApiEnqueue(e) \/ ApiAbort(e)
      PROVE  RowsConsistent'
  BY <1>5 DEF ApiInsert, ApiEnqueue, ApiAbort, rows, local
<1>6. ASSUME NEW e \in Events, ApiCommit(e) PROVE RowsConsistent'
  <2>1. event[e].status = "absent" /\ event[e].next_retry_at = "null"
    BY <1>6 DEF ApiCommit
  <2>2. \A d \in Events : d # e => event'[d] = event[d]
    BY <1>6 DEF ApiCommit
  <2>3. event'[e].status = "pending" /\ event'[e].next_retry_at = "null"
    BY <1>6, <2>1 DEF ApiCommit, EventRows
  <2>4. \A w \in Workers : Working(w) => job[w] \in Events /\ job[w] # e
    BY <2>1, BusyJob
  <2>5. UNCHANGED <<pc, job, copy>>
    BY <1>6 DEF ApiCommit, local
  <2>6. \A d \in Events : ingest'[d] # "closed" => ingest[d] # "closed" /\ d # e
    BY <1>6 DEF ApiCommit
  <2>7. \A w \in Workers : Working(w)' =>
            Working(w) /\ event'[job[w]].status = event[job[w]].status
    BY <2>2, <2>4, <2>5
  <2>8. \A d \in Events :
            /\ ingest'[d] # "closed" => event'[d].status = "absent"
            /\ event'[d].status \in {"absent", "pending"} => event'[d].next_retry_at = "null"
            /\ event'[d].status = "failed" => event'[d].next_retry_at = "set"
    BY <2>2, <2>3, <2>6
  <2>9. ASSUME NEW w \in Workers, Working(w)'
        PROVE  /\ event'[job'[w]].status # "absent"
               /\ copy'[w].status \in {"pending", "failed"}
               /\ copy'[w].status = "failed" => event'[job'[w]].status # "pending"
    <3>1. Working(w) /\ event'[job[w]].status = event[job[w]].status
      BY <2>7, <2>9
    <3>2. /\ event[job[w]].status # "absent"
          /\ copy[w].status \in {"pending", "failed"}
          /\ copy[w].status = "failed" => event[job[w]].status # "pending"
      BY <3>1
    <3> QED BY <2>5, <3>1, <3>2
  <2> QED BY <2>8, <2>9
<1>7. ASSUME NEW w \in Workers, NEW e \in Events, Start(w, e) PROVE RowsConsistent'
  BY <1>7 DEF Start, Goto, rows
<1>8. ASSUME NEW w \in Workers, Load(w) PROVE RowsConsistent'
  <2>1. job[w] \in Events
    BY <1>8, BusyJob DEF Load
  <2>2. UNCHANGED <<event, ingest, job>>
    BY <1>8 DEF Load, rows
  <2>3. copy'[w].status = event[job[w]].status
    BY <1>8 DEF Load, LoadedCopy
  <2>4. Working(w)' => event[job[w]].status \in {"pending", "failed"}
    BY <1>8, <2>1 DEF Load, Goto, Exists, Settled, Terminal, EventRows, Statuses
  <2>5. \A v \in Workers : v # w => pc'[v] = pc[v] /\ copy'[v] = copy[v]
    BY <1>8 DEF Load, Goto
  <2> QED BY <2>2, <2>3, <2>4, <2>5
<1>9. ASSUME NEW w \in Workers, Gate(w) \/ Post(w) \/ Respond(w) \/ RecordOutcome(w)
      PROVE  RowsConsistent'
  BY <1>1, <1>9 DEF Gate, Post, Respond, RecordOutcome, Steps, rows
<1>10. ASSUME NEW w \in Workers, DeadLetterInactive(w) PROVE RowsConsistent'
  <2> DEFINE row == [event[job[w]] EXCEPT !.status = "dead_lettered"]
  <2>1. Working(w) /\ job[w] \in Events
    BY <1>10, BusyJob DEF DeadLetterInactive
  <2>2. row \in EventRows
    BY <2>1, RowUpdates, "dead_lettered" \in Statuses DEF Statuses
  <2>3. row.status = "dead_lettered"
    BY <2>1 DEF EventRows
  <2>4. event' = [event EXCEPT ![job[w]] = row]
    BY <1>10 DEF DeadLetterInactive
  <2>5. Goto(w, "finishing") /\ UNCHANGED <<ingest, job, copy>>
    BY <1>10 DEF DeadLetterInactive
  <2> HIDE DEF row
  <2> QED BY <1>3, <2>1, <2>2, <2>3, <2>4, <2>5
<1>11. ASSUME NEW w \in Workers, RescheduleOpen(w) PROVE RowsConsistent'
  <2> DEFINE row == ScheduledRow(event[job[w]], copy[w].status)
  <2>1. Working(w) /\ job[w] \in Events
    BY <1>11, BusyJob DEF RescheduleOpen
  <2>2. row \in EventRows
    BY <2>1, RowUpdates DEF Statuses
  <2>3. row.next_retry_at = "set" /\ row.status \notin {"absent", "pending"}
    BY <2>1 DEF ScheduledRow, EventRows
  <2>4. event' = [event EXCEPT ![job[w]] = row]
    BY <1>11 DEF RescheduleOpen
  <2> HIDE DEF row
  <2>5. Goto(w, "finishing") /\ UNCHANGED <<ingest, job, copy>>
    BY <1>11 DEF RescheduleOpen
  <2> QED BY <1>3, <2>1, <2>2, <2>3, <2>4, <2>5
<1>12. ASSUME NEW w \in Workers, ConcludeDelivered(w) \/ ConcludeDeadLetter(w)
       PROVE  RowsConsistent'
  <2> DEFINE row(s) == [event[job[w]] EXCEPT !.status = s, !.attempt_count = ThisAttempt(w)]
  <2>1. Working(w) /\ job[w] \in Events /\ ThisAttempt(w) \in Nat
    BY <1>12, BusyJob DEF ConcludeDelivered, ConcludeDeadLetter, ThisAttempt, Copies
  <2>2. \A s \in {"delivered", "dead_lettered"} : row(s) \in EventRows /\ row(s).status = s
    <3>1. \A s \in Statuses : row(s) \in EventRows
      BY <2>1, RowUpdates
    <3>2. \A s \in Statuses : row(s).status = s
      BY <2>1 DEF EventRows
    <3> QED BY <3>1, <3>2 DEF Statuses
  <2>3. PICK s \in {"delivered", "dead_lettered"} : event' = [event EXCEPT ![job[w]] = row(s)]
    <3>1. CASE ConcludeDelivered(w)
      BY <3>1 DEF ConcludeDelivered
    <3>2. CASE ConcludeDeadLetter(w)
      BY <3>2 DEF ConcludeDeadLetter
    <3> QED BY <1>12, <3>1, <3>2
  <2>4. Goto(w, "finishing") /\ UNCHANGED <<ingest, job, copy>>
    BY <1>12 DEF ConcludeDelivered, ConcludeDeadLetter
  <2> HIDE DEF row
  <2> QED BY <1>3, <2>1, <2>2, <2>3, <2>4
<1>13. ASSUME NEW w \in Workers, ConcludeRetry(w) PROVE RowsConsistent'
  <2> DEFINE row == [status |-> "failed", attempt_count |-> ThisAttempt(w),
                     next_retry_at |-> "set"]
  <2>1. Working(w) /\ job[w] \in Events /\ ThisAttempt(w) \in Nat
    BY <1>13, BusyJob DEF ConcludeRetry, ThisAttempt, Copies
  <2>2. row \in EventRows /\ row.status = "failed" /\ row.next_retry_at = "set"
    BY <2>1 DEF EventRows, Statuses
  <2>3. event' = [event EXCEPT ![job[w]] = row]
    BY <1>13 DEF ConcludeRetry
  <2> HIDE DEF row
  <2>4. Goto(w, "finishing") /\ UNCHANGED <<ingest, job, copy>>
    BY <1>13 DEF ConcludeRetry
  <2> QED BY <1>3, <2>1, <2>2, <2>3, <2>4
<1>14. ASSUME NEW w \in Workers, Finish(w) \/ Shutdown(w) \/ Crash(w)
       PROVE  RowsConsistent'
  BY <1>2, <1>14 DEF Finish, Shutdown, Crash, rows
<1>15. ASSUME NEW w \in Workers, Abort(w) \/ JobTimeout(w)
       PROVE  RowsConsistent'
  BY <1>1, <1>15 DEF Abort, JobTimeout, WorkingSteps, Steps, rows
<1>16. ASSUME Background PROVE RowsConsistent'
  BY <1>4, <1>16, BackgroundFrame
<1> QED
  BY <1>5, <1>6, <1>7, <1>8, <1>9, <1>10, <1>11, <1>12, <1>13, <1>14, <1>15, <1>16
  DEF Next, Deliver, Fail, Api, Background

LEMMA RowsConsistentHolds == Spec => [](TypeInv /\ RowsConsistent)
<1>1. Init => TypeInv /\ RowsConsistent
  <2> SUFFICES ASSUME Init PROVE RowsConsistent
    BY InitTypeInv
  <2>1. \A e \in Events : event[e].status = "absent" /\ event[e].next_retry_at = "null"
    BY DEF Init
  <2>2. \A w \in Workers : ~Working(w)
    BY DEF Init, Working
  <2> QED BY <2>1, <2>2 DEF RowsConsistent
<1>2. TypeInv /\ RowsConsistent /\ [Next]_vars => (TypeInv /\ RowsConsistent)'
  BY StepTypeInv, StepRowsConsistent
<1> QED BY <1>1, <1>2, PTL DEF Spec

(* Whatever two workers do to one event, no row is left half written: a row  *)
(* waits for its retry exactly with a date, and nobody works on a row that  *)
(* is not there, or on one that has gone back to pending.                   *)
THEOREM RowsStayConsistent == Spec => []RowsConsistent
BY RowsConsistentHolds, PTL

(* No crash, rollback, shutdown or lapsed lease leaves an unsettled event    *)
(* in a row that neither query of the poller selects.                       *)
THEOREM NoEventStrandedHolds == Spec => []NoEventStranded
<1>1. TypeInv /\ RowsConsistent => NoEventStranded
  BY DEF TypeInv, TypeOK, RowsConsistent, NoEventStranded, Exists, Settled, Terminal,
     EventRows, Statuses
<1> QED BY RowsConsistentHolds, <1>1, PTL

-----------------------------------------------------------------------------
(* Exclusivity *)

(* The limit a run goes by is one its endpoint has had since the event exists. *)
LimitsKept ==
    /\ \A e \in Events : Exists(e) => endpoint[EndpointOf[e]].max_retries \in limits[e]
    /\ \A w \in Workers : Working(w) => copy[w].max_retries \in limits[job[w]]

OwnInv == TypeInv /\ RowsConsistent /\ JobsAreOwned /\ LimitsKept

LEMMA StepLimitsKept ==
    TypeInv /\ RowsConsistent /\ LimitsKept /\ [Next]_vars => LimitsKept'
<1> SUFFICES ASSUME TypeInv, RowsConsistent, LimitsKept, [Next]_vars
             PROVE  LimitsKept'
  OBVIOUS
<1> USE DEF TypeInv, TypeOK
<1>1. ASSUME UNCHANGED limits,
             \A p \in Endpoints : endpoint'[p].max_retries = endpoint[p].max_retries,
             \A e \in Events : Exists(e)' => Exists(e),
             \A w \in Workers : Working(w)' =>
                 Working(w) /\ copy'[w] = copy[w] /\ job'[w] = job[w]
      PROVE  LimitsKept'
  BY <1>1, PipelineAssumption DEF LimitsKept
<1>2. ASSUME NEW w \in Workers, NEW step \in Steps, Goto(w, step),
             Working(w) \/ step \notin WorkingSteps,
             UNCHANGED <<limits, endpoint, event, job, copy>>
      PROVE  LimitsKept'
  <2>1. \A v \in Workers : Working(v)' => Working(v)
    BY <1>2 DEF Goto, Working, WorkingSteps, Steps
  <2> QED BY <1>1, <1>2, <2>1 DEF Exists
<1>3. ASSUME NEW w \in Workers, Gate(w) \/ Post(w) \/ Respond(w) \/ RecordOutcome(w)
      PROVE  LimitsKept'
  BY <1>2, <1>3 DEF Gate, Post, Respond, RecordOutcome, Working, Steps, rows, history
<1>4. ASSUME NEW w \in Workers, Abort(w) \/ JobTimeout(w) PROVE LimitsKept'
  BY <1>2, <1>4 DEF Abort, JobTimeout, WorkingSteps, Steps, rows, history
<1>5. ASSUME NEW w \in Workers, Finish(w) \/ Shutdown(w) \/ Crash(w) PROVE LimitsKept'
  <2>1. Vacate(w) /\ UNCHANGED <<limits, endpoint, event>>
    BY <1>5 DEF Finish, Shutdown, Crash, rows, history
  <2>2. \A v \in Workers : Working(v)' =>
            Working(v) /\ copy'[v] = copy[v] /\ job'[v] = job[v]
    BY <2>1 DEF Vacate, Working
  <2> QED BY <1>1, <2>1, <2>2 DEF Exists
<1>6. ASSUME NEW w \in Workers,
             \/ DeadLetterInactive(w) \/ RescheduleOpen(w)
             \/ ConcludeDelivered(w) \/ ConcludeRetry(w) \/ ConcludeDeadLetter(w)
      PROVE  LimitsKept'
  <2>1. /\ Working(w) /\ job[w] \in Events
        /\ Goto(w, "finishing") /\ UNCHANGED <<limits, job, copy>>
    BY <1>6, BusyJob DEF DeadLetterInactive, RescheduleOpen, ConcludeDelivered,
       ConcludeRetry, ConcludeDeadLetter, Working, history
  <2>2. \A e \in Events : e # job[w] => event'[e] = event[e]
    BY <1>6 DEF DeadLetterInactive, RescheduleOpen, ConcludeDelivered, ConcludeRetry,
       ConcludeDeadLetter
  <2>3. Exists(job[w])
    BY <2>1 DEF RowsConsistent, Exists
  <2>4. \A p \in Endpoints : endpoint'[p].max_retries = endpoint[p].max_retries
    <3>1. CASE ConcludeDeadLetter(w)
      BY <3>1 DEF ConcludeDeadLetter, EndpointRows
    <3>2. CASE ~ConcludeDeadLetter(w)
      BY <1>6, <3>2 DEF DeadLetterInactive, RescheduleOpen, ConcludeDelivered, ConcludeRetry
    <3> QED BY <3>1, <3>2
  <2>5. \A v \in Workers : Working(v)' => Working(v)
    BY <2>1 DEF Goto, Working
  <2> QED BY <1>1, <2>1, <2>2, <2>3, <2>4, <2>5 DEF Exists
<1>7. ASSUME NEW w \in Workers, Load(w) PROVE LimitsKept'
  <2>1. /\ job[w] \in Events
        /\ UNCHANGED <<limits, endpoint, event, job>>
        /\ copy' = [copy EXCEPT ![w] = LoadedCopy(job[w])]
    BY <1>7, BusyJob DEF Load, rows, history
  <2>2. \A v \in Workers : v # w => pc'[v] = pc[v] /\ copy'[v] = copy[v]
    BY <1>7 DEF Load, Goto
  <2>3. Working(w)' => Exists(job[w])
    BY <1>7 DEF Load, Goto, Working
  <2>4. copy'[w].max_retries = endpoint[EndpointOf[job[w]]].max_retries
    BY <2>1 DEF LoadedCopy
  <2>5. Working(w)' => copy'[w].max_retries \in limits'[job'[w]]
    BY <2>1, <2>3, <2>4 DEF LimitsKept
  <2>6. \A v \in Workers : v # w /\ Working(v)' => Working(v)
    BY <2>2 DEF Working
  <2> QED BY <2>1, <2>2, <2>5, <2>6 DEF LimitsKept, Exists
<1>8. ASSUME NEW w \in Workers, NEW e \in Events, Start(w, e) PROVE LimitsKept'
  <2>1. \A v \in Workers : Working(v)' =>
            Working(v) /\ copy'[v] = copy[v] /\ job'[v] = job[v]
    BY <1>8 DEF Start, Goto, Working
  <2>2. UNCHANGED <<limits, endpoint, event>>
    BY <1>8 DEF Start, rows, history
  <2> QED BY <1>1, <2>1, <2>2 DEF Exists
<1>9. ASSUME NEW e \in Events, ApiCommit(e) PROVE LimitsKept'
  <2>1. event[e].status = "absent" /\ UNCHANGED <<endpoint, pc, job, copy>>
    BY <1>9 DEF ApiCommit, RowsConsistent, local
  <2>2. limits' = [limits EXCEPT ![e] = {endpoint[EndpointOf[e]].max_retries}]
    BY <1>9 DEF ApiCommit
  <2>3. \A d \in Events : d # e => event'[d] = event[d]
    BY <1>9 DEF ApiCommit
  <2>4. \A w \in Workers : Working(w)' => Working(w) /\ job[w] # e /\ job[w] \in Events
    BY <2>1, BusyJob DEF Working, RowsConsistent
  <2> QED BY <2>1, <2>2, <2>3, <2>4 DEF LimitsKept, Exists
<1>10. ASSUME NEW p \in Endpoints, UpdateEndpoint(p) PROVE LimitsKept'
  <2>1. PICK row \in EndpointRows :
            /\ endpoint' = [endpoint EXCEPT ![p] = row]
            /\ limits' = [e \in Events |->
                             IF EndpointOf[e] = p /\ Exists(e)
                             THEN limits[e] \cup {row.max_retries} ELSE limits[e]]
    BY <1>10 DEF UpdateEndpoint
  <2>2. UNCHANGED <<event, pc, job, copy>>
    BY <1>10 DEF UpdateEndpoint, local
  <2>3. \A w \in Workers : Working(w)' => Working(w) /\ job[w] \in Events
    BY <2>2, BusyJob DEF Working
  <2>4. \A e \in Events : limits[e] \subseteq limits'[e]
    BY <2>1
  <2>5. ASSUME NEW e \in Events, Exists(e)
        PROVE  endpoint'[EndpointOf[e]].max_retries \in limits'[e]
    <3>1. EndpointOf[e] \in Endpoints
      BY PipelineAssumption
    <3> QED BY <2>1, <2>5, <3>1 DEF LimitsKept
  <2> QED BY <2>2, <2>3, <2>4, <2>5 DEF LimitsKept, Exists
<1>11. ASSUME UNCHANGED <<limits, endpoint, event, pc, job, copy>> PROVE LimitsKept'
  BY <1>1, <1>11 DEF Exists, Working
<1>12. ASSUME NEW e \in Events,
              \/ ApiInsert(e) \/ ApiEnqueue(e) \/ ApiAbort(e)
              \/ Drop(e) \/ Poll(e) \/ EventTimers(e)
       PROVE  LimitsKept'
  BY <1>11, <1>12
  DEF ApiInsert, ApiEnqueue, ApiAbort, Drop, Poll, PollEnqueue, PollEnqueueFails,
      EventTimers, TimerFires, LeaseExpires, ResultExpires, rows, local, history
<1>13. ASSUME NEW p \in Endpoints, CircuitAges(p) \/ FailureWindowLapses(p)
       PROVE  LimitsKept'
  BY <1>11, <1>13 DEF CircuitAges, FailureWindowLapses, rows, local, history
<1>14. ASSUME PollRead \/ PollLost \/ UNCHANGED vars PROVE LimitsKept'
  BY <1>11, <1>14 DEF PollRead, PollLost, vars, rows, local, history
<1> QED
  BY <1>3, <1>4, <1>5, <1>6, <1>7, <1>8, <1>9, <1>10, <1>12, <1>13, <1>14
  DEF Next, Deliver, Fail, Api

(* While leases do not lapse, at most one worker runs a job, and what it     *)
(* loaded is what the row still holds.                                      *)
LEMMA StepJobsAreOwned ==
    ASSUME ~LeaseMayLapse
    PROVE  OwnInv /\ [Next]_vars => JobsAreOwned'
<1> SUFFICES ASSUME OwnInv, [Next]_vars
             PROVE  JobsAreOwned'
  OBVIOUS
<1> TypeInv /\ RowsConsistent /\ JobsAreOwned
  BY DEF OwnInv
<1> USE DEF JobsAreOwned, Working, Busy, TypeInv, TypeOK
<1>1. ASSUME NEW w \in Workers, NEW step \in Steps \ {"idle"}, Goto(w, step), Busy(w),
             Working(w) \/ step \notin WorkingSteps,
             UNCHANGED <<event, job, copy, queued, inProgress>>
      PROVE  JobsAreOwned'
  BY <1>1 DEF Goto, WorkingSteps, Steps
<1>2. ASSUME NEW w \in Workers, Vacate(w), UNCHANGED event,
             \A v \in Workers : v # w /\ Busy(v) => job[v] \in queued' \cap inProgress'
      PROVE  JobsAreOwned'
  BY <1>2 DEF Vacate
<1>3. ASSUME NEW w \in Workers, Working(w),
             \A d \in Events : d # job[w] => event'[d] = event[d],
             Goto(w, "finishing"), UNCHANGED <<job, copy, queued, inProgress>>
      PROVE  JobsAreOwned'
  <2>1. \A v \in Workers : Busy(v)' => Busy(v)
    BY <1>3 DEF Goto
  <2>2. \A v \in Workers : Working(v)' => Working(v) /\ v # w
    BY <1>3 DEF Goto
  <2>3. \A v \in Workers : Working(v)' => job[v] # job[w]
    <3>1. \A v \in Workers : Working(v) => Busy(v)
      OBVIOUS
    <3> QED BY <1>3, <2>2, <3>1
  <2>4. \A v \in Workers : Working(v)' => event'[job[v]] = event[job[v]]
    BY <1>3, <2>2, <2>3, BusyJob
  <2>5. \A v \in Workers : Busy(v)' => job'[v] \in queued' \cap inProgress'
    BY <1>3, <2>1
  <2>6. \A u, v \in Workers : u # v /\ Busy(u)' /\ Busy(v)' => job'[u] # job'[v]
    BY <1>3, <2>1
  <2>7. ASSUME NEW v \in Workers, Working(v)'
        PROVE  /\ copy'[v].status = event'[job'[v]].status
               /\ copy'[v].attempt_count = event'[job'[v]].attempt_count
               /\ copy'[v].max_retries \in RetryLimits
    <3>1. Working(v) /\ event'[job'[v]] = event[job[v]] /\ copy'[v] = copy[v]
      BY <1>3, <2>2, <2>4, <2>7
    <3>2. /\ copy[v].status = event[job[v]].status
          /\ copy[v].attempt_count = event[job[v]].attempt_count
          /\ copy[v].max_retries \in RetryLimits
      BY <3>1
    <3> QED BY <3>1, <3>2
  <2> QED BY <2>5, <2>6, <2>7
<1>4. ASSUME UNCHANGED <<event, pc, job, copy>>,
             \A v \in Workers : Busy(v) => job[v] \in queued' \cap inProgress'
      PROVE  JobsAreOwned'
  BY <1>4
<1>5. ASSUME NEW e \in Events, ApiInsert(e) \/ ApiEnqueue(e) \/ ApiAbort(e)
      PROVE  JobsAreOwned'
  BY <1>4, <1>5 DEF ApiInsert, ApiEnqueue, ApiAbort, EnqueueJob, rows, local, arqVars
<1>6. ASSUME NEW e \in Events, ApiCommit(e) PROVE JobsAreOwned'
  <2>1. event[e].status = "absent"
    BY <1>6 DEF ApiCommit, RowsConsistent
  <2>2. \A w \in Workers : Working(w) => job[w] \in Events /\ job[w] # e
    BY <2>1, BusyJob DEF RowsConsistent
  <2>3. \A d \in Events : d # e => event'[d] = event[d]
    BY <1>6 DEF ApiCommit
  <2>4. UNCHANGED <<pc, job, copy, queued, inProgress>>
    BY <1>6 DEF ApiCommit, local, arqVars
  <2>5. \A w \in Workers : Working(w) => event'[job[w]] = event[job[w]]
    BY <2>2, <2>3
  <2> QED BY <2>4, <2>5
<1>7. ASSUME NEW w \in Workers, NEW e \in Events, Start(w, e) PROVE JobsAreOwned'
  <2>1. e \in queued \ inProgress /\ inProgress' = inProgress \cup {e}
    BY <1>7 DEF Start, StartJob
  <2>2. UNCHANGED <<event, copy, queued>>
    BY <1>7 DEF Start, StartJob, rows
  <2>3. pc[w] = "idle" /\ Goto(w, "started") /\ job' = [job EXCEPT ![w] = e]
    BY <1>7 DEF Start
  <2>4. \A v \in Workers : Busy(v) => job[v] # e /\ v # w
    BY <2>1, <2>3
  <2>5. \A v \in Workers : v # w => pc'[v] = pc[v] /\ job'[v] = job[v]
    BY <2>3 DEF Goto
  <2>6. pc'[w] = "started" /\ job'[w] = e
    BY <2>3 DEF Goto
  <2>7. \A v \in Workers : Busy(v)' => job'[v] \in queued' \cap inProgress'
    BY <2>1, <2>2, <2>5, <2>6
  <2>8. ASSUME NEW u \in Workers, NEW v \in Workers, u # v, Busy(u)', Busy(v)'
        PROVE  job'[u] # job'[v]
    <3>1. \A x \in Workers : x # w /\ Busy(x)' => Busy(x) /\ job'[x] = job[x] /\ job[x] # e
      BY <2>4, <2>5
    <3>2. CASE u # w /\ v # w
      BY <2>8, <3>1, <3>2
    <3>3. CASE u = w
      BY <2>6, <2>8, <3>1, <3>3
    <3>4. CASE v = w
      BY <2>6, <2>8, <3>1, <3>4
    <3> QED BY <3>2, <3>3, <3>4
  <2>9. \A v \in Workers : Working(v)' => Working(v) /\ v # w
    BY <2>5, <2>6
  <2> QED BY <2>2, <2>5, <2>7, <2>8, <2>9
<1>8. ASSUME NEW w \in Workers, Load(w) PROVE JobsAreOwned'
  <2>1. job[w] \in Events /\ EndpointOf[job[w]] \in Endpoints
    BY <1>8, BusyJob, PipelineAssumption DEF Load
  <2>2. UNCHANGED <<event, job, queued, inProgress>>
    BY <1>8 DEF Load, rows, arqVars
  <2>3. copy'[w] = LoadedCopy(job[w])
    BY <1>8 DEF Load
  <2>4. /\ copy'[w].status = event[job[w]].status
        /\ copy'[w].attempt_count = event[job[w]].attempt_count
        /\ copy'[w].max_retries \in RetryLimits
    BY <2>1, <2>3 DEF LoadedCopy, EndpointRows
  <2>5. \A v \in Workers : v # w => pc'[v] = pc[v] /\ copy'[v] = copy[v]
    BY <1>8 DEF Load, Goto
  <2>6. Busy(w)
    BY <1>8 DEF Load
  <2>7. \A v \in Workers : Busy(v)' => Busy(v)
    BY <2>5, <2>6
  <2>8. /\ \A v \in Workers : Busy(v)' => job'[v] \in queued' \cap inProgress'
        /\ \A u, v \in Workers : u # v /\ Busy(u)' /\ Busy(v)' => job'[u] # job'[v]
    BY <2>2, <2>7
  <2>9. ASSUME NEW v \in Workers, Working(v)'
        PROVE  /\ copy'[v].status = event'[job'[v]].status
               /\ copy'[v].attempt_count = event'[job'[v]].attempt_count
               /\ copy'[v].max_retries \in RetryLimits
    <3>1. CASE v = w
      BY <2>2, <2>4, <3>1
    <3>2. CASE v # w
      <4>1. Working(v) /\ copy'[v] = copy[v]
        BY <2>5, <2>9, <3>2
      <4> QED BY <2>2, <4>1
    <3> QED BY <3>1, <3>2
  <2> QED BY <2>8, <2>9
<1>9. ASSUME NEW w \in Workers, Gate(w) \/ Post(w) \/ Respond(w) \/ RecordOutcome(w)
      PROVE  JobsAreOwned'
  BY <1>1, <1>9 DEF Gate, Post, Respond, RecordOutcome, Steps, rows, arqVars
<1>10. ASSUME NEW w \in Workers,
              \/ DeadLetterInactive(w) \/ RescheduleOpen(w)
              \/ ConcludeDelivered(w) \/ ConcludeRetry(w) \/ ConcludeDeadLetter(w)
       PROVE  JobsAreOwned'
  <2>1. Working(w) /\ Goto(w, "finishing") /\ UNCHANGED <<job, copy, queued, inProgress>>
    BY <1>10 DEF DeadLetterInactive, RescheduleOpen, ConcludeDelivered, ConcludeRetry,
       ConcludeDeadLetter, arqVars
  <2>2. \A d \in Events : d # job[w] => event'[d] = event[d]
    BY <1>10 DEF DeadLetterInactive, RescheduleOpen, ConcludeDelivered, ConcludeRetry,
       ConcludeDeadLetter
  <2> QED BY <1>3, <2>1, <2>2
<1>11. ASSUME NEW w \in Workers, Finish(w) \/ Shutdown(w) \/ Crash(w)
       PROVE  JobsAreOwned'
  <2>1. Busy(w) /\ Vacate(w) /\ UNCHANGED event
    BY <1>11 DEF Finish, Shutdown, Crash, rows
  <2>2. /\ queued \ {job[w]} \subseteq queued'
        /\ inProgress \ {job[w]} \subseteq inProgress'
    BY <1>11 DEF Finish, FinishJob, Shutdown, ReleaseJob, Crash, arqVars
  <2>3. \A v \in Workers : v # w /\ Busy(v) => job[v] # job[w]
    BY <2>1
  <2> QED BY <1>2, <2>1, <2>2, <2>3
<1>12. ASSUME NEW w \in Workers, Abort(w) \/ JobTimeout(w) PROVE JobsAreOwned'
  BY <1>1, <1>12 DEF Abort, JobTimeout, WorkingSteps, Steps, rows, arqVars
<1>13. ASSUME Background PROVE JobsAreOwned'
  <2>1. ASSUME NEW e \in Events, Drop(e)
        PROVE  \A v \in Workers : Busy(v) => job[v] \in queued' \cap inProgress'
    BY <2>1 DEF Drop, DropJob, FinishJob
  <2>2. ASSUME NEW e \in Events, Poll(e)
        PROVE  \A v \in Workers : Busy(v) => job[v] \in queued' \cap inProgress'
    BY <2>2 DEF Poll, PollEnqueue, PollEnqueueFails, EnqueueJob, arqVars
  <2>3. ASSUME NEW e \in Events, EventTimers(e)
        PROVE  \A v \in Workers : Busy(v) => job[v] \in queued' \cap inProgress'
    BY <2>3 DEF EventTimers, TimerFires, LeaseExpires, ResultExpires, ExpireLease,
       ExpireResult, arqVars
  <2>4. ASSUME NEW p \in Endpoints,
               UpdateEndpoint(p) \/ CircuitAges(p) \/ FailureWindowLapses(p)
        PROVE  \A v \in Workers : Busy(v) => job[v] \in queued' \cap inProgress'
    BY <2>4 DEF UpdateEndpoint, CircuitAges, FailureWindowLapses, arqVars
  <2>5. ASSUME PollRead \/ PollLost \/ UNCHANGED vars
        PROVE  \A v \in Workers : Busy(v) => job[v] \in queued' \cap inProgress'
    BY <2>5 DEF PollRead, PollLost, vars, arqVars
  <2> QED
    BY <1>4, <1>13, <2>1, <2>2, <2>3, <2>4, <2>5, BackgroundFrame DEF Background
<1> QED
  BY <1>5, <1>6, <1>7, <1>8, <1>9, <1>10, <1>11, <1>12, <1>13
  DEF Next, Deliver, Fail, Api, Background

LEMMA OwnInvHolds ==
    ASSUME ~LeaseMayLapse
    PROVE  Spec => []OwnInv
<1>1. Init => OwnInv
  <2> SUFFICES ASSUME Init PROVE RowsConsistent /\ JobsAreOwned /\ LimitsKept
    BY InitTypeInv DEF OwnInv
  <2>1. \A e \in Events : event[e].status = "absent" /\ event[e].next_retry_at = "null"
    BY DEF Init
  <2>2. \A w \in Workers : ~Working(w) /\ ~Busy(w)
    BY DEF Init, Working, Busy
  <2> QED BY <2>1, <2>2 DEF RowsConsistent, JobsAreOwned, LimitsKept, Exists
<1>2. OwnInv /\ [Next]_vars => OwnInv'
  BY StepTypeInv, StepRowsConsistent, StepJobsAreOwned, StepLimitsKept DEF OwnInv
<1> QED BY <1>1, <1>2, PTL DEF Spec

(* The job id, the queue and the in-progress key make a lock: no event is    *)
(* run by two workers at once, nor changed under the one that runs it.      *)
THEOREM JobsAreOwnedHolds ==
    ASSUME ~LeaseMayLapse
    PROVE  Spec => []JobsAreOwned
<1>1. OwnInv => JobsAreOwned
  BY DEF OwnInv
<1> QED BY OwnInvHolds, <1>1, PTL

-----------------------------------------------------------------------------
(* What can happen to the rows of an event *)

Waiting(e) == event[e].status \in {"pending", "failed"}

(* Accepted, or put off by an open circuit. *)
Deferred(e) ==
    /\ event[e].status \in {"absent", "pending", "failed"}
    /\ event'[e].status \in {"pending", "failed"}
    /\ event'[e].attempt_count = event[e].attempt_count
    /\ UNCHANGED <<attempts[e], dlq[e]>>

GivenUp(e) ==
    /\ Waiting(e)
    /\ event'[e].status = "dead_lettered"
    /\ event'[e].attempt_count = event[e].attempt_count
    /\ dlq'[e] = Append(dlq[e], event[e].attempt_count)
    /\ UNCHANGED attempts[e]

Attempted(e, status) ==
    /\ Waiting(e)
    /\ event'[e].status = status
    /\ event'[e].attempt_count = event[e].attempt_count + 1
    /\ \E won \in BOOLEAN :
        /\ won <=> status = "delivered"
        /\ attempts'[e] = Append(attempts[e],
                                 [attempt_number |-> event[e].attempt_count + 1,
                                  success |-> won])
    /\ dlq'[e] = IF status = "dead_lettered"
                 THEN Append(dlq[e], event[e].attempt_count + 1) ELSE dlq[e]
    /\ status = "failed" =>
          \E limit \in limits[e] : event[e].attempt_count + 1 < limit

RowStep(e) ==
    \/ UNCHANGED <<event[e], attempts[e], dlq[e]>>
    \/ Deferred(e)
    \/ GivenUp(e)
    \/ \E status \in {"delivered", "failed", "dead_lettered"} : Attempted(e, status)

(* Every step does one of these to each event. *)

LEMMA RowSteps ==
    ASSUME OwnInv, [Next]_vars, NEW e \in Events
    PROVE  RowStep(e)
<1> TypeInv /\ TypeOK /\ RowsConsistent /\ JobsAreOwned
  BY DEF OwnInv, TypeInv
<1> LimitsKept
  BY DEF OwnInv
<1> USE DEF TypeOK
<1>1. ASSUME UNCHANGED <<event, attempts, dlq>> PROVE RowStep(e)
  BY <1>1 DEF RowStep
<1>2. ASSUME NEW w \in Workers, job[w] # e,
             \/ DeadLetterInactive(w) \/ RescheduleOpen(w)
             \/ ConcludeDelivered(w) \/ ConcludeRetry(w) \/ ConcludeDeadLetter(w)
      PROVE  RowStep(e)
  <2>1. event'[e] = event[e] /\ attempts'[e] = attempts[e]
    BY <1>2 DEF DeadLetterInactive, RescheduleOpen, ConcludeDelivered, ConcludeRetry,
       ConcludeDeadLetter, LogAttempt
  <2>2. dlq'[e] = dlq[e]
    BY <1>2 DEF DeadLetterInactive, RescheduleOpen, ConcludeDelivered, ConcludeRetry,
       ConcludeDeadLetter
  <2> QED BY <2>1, <2>2 DEF RowStep
<1>3. ASSUME NEW w \in Workers, Working(w), job[w] = e
      PROVE  /\ Waiting(e)
             /\ copy[w].status = event[e].status
             /\ copy[w].attempt_count = event[e].attempt_count
             /\ ThisAttempt(w) = event[e].attempt_count + 1
             /\ copy[w].max_retries \in limits[e]
  BY <1>3 DEF RowsConsistent, JobsAreOwned, LimitsKept, Waiting, ThisAttempt
<1>4. ASSUME NEW w \in Workers, job[w] = e, DeadLetterInactive(w) PROVE RowStep(e)
  <2>1. Working(w)
    BY <1>4 DEF DeadLetterInactive, Working
  <2>2. event'[e].status = "dead_lettered" /\ event'[e].attempt_count = event[e].attempt_count
    BY <1>4 DEF DeadLetterInactive, EventRows
  <2>3. dlq'[e] = Append(dlq[e], copy[w].attempt_count) /\ attempts'[e] = attempts[e]
    BY <1>4 DEF DeadLetterInactive
  <2>4. GivenUp(e)
    BY <1>3, <1>4, <2>1, <2>2, <2>3 DEF GivenUp
  <2> QED BY <1>3, <1>4, <2>1, <2>4 DEF RowStep
<1>5. ASSUME NEW w \in Workers, job[w] = e, RescheduleOpen(w) PROVE RowStep(e)
  <2>1. Working(w)
    BY <1>5 DEF RescheduleOpen, Working
  <2>2. event'[e] = ScheduledRow(event[e], copy[w].status)
    BY <1>5 DEF RescheduleOpen
  <2>3. event'[e].status = "failed" /\ event'[e].attempt_count = event[e].attempt_count
    BY <1>3, <1>5, <2>1, <2>2 DEF ScheduledRow, EventRows
  <2>4. Deferred(e)
    BY <1>3, <1>5, <2>1, <2>3 DEF RescheduleOpen, Deferred, Waiting
  <2> QED BY <1>3, <1>5, <2>1, <2>4 DEF RowStep
<1>6. ASSUME NEW w \in Workers, job[w] = e, LogAttempt(w), Working(w),
             NEW status \in {"delivered", "failed", "dead_lettered"},
             Succeeded(reply[w]) <=> status = "delivered"
      PROVE  \E won \in BOOLEAN :
                 /\ won <=> status = "delivered"
                 /\ attempts'[e] = Append(attempts[e],
                                          [attempt_number |-> event[e].attempt_count + 1,
                                           success |-> won])
  <2> DEFINE won == Succeeded(reply[w])
  <2>1. won \in BOOLEAN /\ (won <=> status = "delivered")
    BY <1>6 DEF Succeeded
  <2>2. attempts'[e] = Append(attempts[e], [attempt_number |-> ThisAttempt(w), success |-> won])
    BY <1>6 DEF LogAttempt
  <2>3. ThisAttempt(w) = event[e].attempt_count + 1
    BY <1>3, <1>6
  <2> HIDE DEF won
  <2> QED BY <2>1, <2>2, <2>3
<1>7. ASSUME NEW w \in Workers, job[w] = e, ConcludeDelivered(w) PROVE RowStep(e)
  <2>1. Working(w) /\ LogAttempt(w) /\ Succeeded(reply[w]) /\ dlq'[e] = dlq[e]
    BY <1>7 DEF ConcludeDelivered, Working
  <2>2. event'[e].status = "delivered" /\ event'[e].attempt_count = ThisAttempt(w)
    BY <1>7 DEF ConcludeDelivered, EventRows
  <2>3. Attempted(e, "delivered")
    BY <1>3, <1>6, <1>7, <2>1, <2>2 DEF Attempted
  <2> QED BY <1>3, <1>7, <2>1, <2>3 DEF RowStep
<1>8. ASSUME NEW w \in Workers, job[w] = e, ConcludeRetry(w) PROVE RowStep(e)
  <2>1. Working(w) /\ LogAttempt(w) /\ ~Succeeded(reply[w]) /\ dlq'[e] = dlq[e]
    BY <1>8 DEF ConcludeRetry, Working
  <2>2. event'[e].status = "failed" /\ event'[e].attempt_count = ThisAttempt(w)
    BY <1>8 DEF ConcludeRetry
  <2>3. ThisAttempt(w) < copy[w].max_retries
    BY <1>8 DEF ConcludeRetry, ShouldRetry
  <2>4. Attempted(e, "failed")
    BY <1>3, <1>6, <1>8, <2>1, <2>2, <2>3 DEF Attempted
  <2> QED BY <1>3, <1>8, <2>1, <2>4 DEF RowStep
<1>9. ASSUME NEW w \in Workers, job[w] = e, ConcludeDeadLetter(w) PROVE RowStep(e)
  <2>1. Working(w) /\ LogAttempt(w) /\ ~Succeeded(reply[w])
    BY <1>9 DEF ConcludeDeadLetter, Working
  <2>2. event'[e].status = "dead_lettered" /\ event'[e].attempt_count = ThisAttempt(w)
    BY <1>9 DEF ConcludeDeadLetter, EventRows
  <2>3. dlq'[e] = Append(dlq[e], ThisAttempt(w))
    BY <1>9 DEF ConcludeDeadLetter
  <2>4. Attempted(e, "dead_lettered")
    BY <1>3, <1>6, <1>9, <2>1, <2>2, <2>3 DEF Attempted
  <2> QED BY <1>3, <1>9, <2>1, <2>4 DEF RowStep
<1>10. ASSUME NEW d \in Events, ApiCommit(d) PROVE RowStep(e)
  <2>1. CASE d # e
    BY <1>10, <2>1 DEF ApiCommit, RowStep
  <2>2. CASE d = e
    <3>1. event[e].status = "absent"
      BY <1>10, <2>2 DEF ApiCommit, RowsConsistent
    <3>2. event'[e].status = "pending" /\ event'[e].attempt_count = event[e].attempt_count
      BY <1>10, <2>2 DEF ApiCommit, EventRows
    <3> QED BY <1>10, <3>1, <3>2 DEF ApiCommit, RowStep, Deferred
  <2> QED BY <2>1, <2>2
<1>11. ASSUME NEW d \in Events, ApiInsert(d) \/ ApiEnqueue(d) \/ ApiAbort(d)
       PROVE  RowStep(e)
  BY <1>1, <1>11 DEF ApiInsert, ApiEnqueue, ApiAbort, rows
<1>12. ASSUME NEW w \in Workers,
              \/ Load(w) \/ Gate(w) \/ Post(w) \/ Respond(w) \/ RecordOutcome(w)
              \/ Finish(w) \/ Fail(w) \/ \E d \in Events : Start(w, d)
       PROVE  RowStep(e)
  BY <1>1, <1>12 DEF Load, Gate, Post, Respond, RecordOutcome, Finish, Fail, Abort,
     JobTimeout, Shutdown, Crash, Start, rows
<1>13. ASSUME Background PROVE RowStep(e)
  BY <1>1, <1>13, BackgroundFrame
<1> QED
  BY <1>2, <1>4, <1>5, <1>7, <1>8, <1>9, <1>10, <1>11, <1>12, <1>13
  DEF Next, Deliver, Api, Background

(* An event that was delivered or dead-lettered is never touched again: no   *)
(* stale batch of the poller, requeued job or slow worker changes its row,   *)
(* adds an attempt or dead-letters it a second time.                        *)
THEOREM SettledIsFinalHolds ==
    ASSUME ~LeaseMayLapse
    PROVE  Spec => SettledIsFinal
<1>1. OwnInv /\ [Next]_vars =>
          [\A e \in Events : event[e].status \in {"delivered", "dead_lettered"} =>
              UNCHANGED <<event[e], attempts[e], dlq[e]>>]_vars
  BY RowSteps DEF RowStep, Deferred, GivenUp, Attempted, Waiting
<1>2. Spec => []OwnInv
  BY OwnInvHolds
<1> QED BY <1>1, <1>2, PTL DEF Spec, SettledIsFinal

=============================================================================
