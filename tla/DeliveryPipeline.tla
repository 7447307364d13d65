-------------------------- MODULE DeliveryPipeline --------------------------
(***************************************************************************)
(* The life of a webhook event in WebhookRelay: the API inserts it and     *)
(* enqueues a job, arq workers run DeliveryService.deliver on it, a cron   *)
(* job re-enqueues what is due.  PostgreSQL (rows and their locks), Redis  *)
(* (the arq queue of ArqQueue, the breakers of CircuitBreaker), processes  *)
(* that crash between any two steps and timers are all here.               *)
(*                                                                         *)
(* A worker is one job slot of one worker process.  Its steps are cut at   *)
(* every await that another process can observe: the reads, the breaker    *)
(* calls, the flush that locks the event row, the POST, the commit.  What  *)
(* a transaction wrote becomes visible at its commit, so the rows below    *)
(* hold committed data, and the steps before a commit change only what the *)
(* worker holds and the row lock.                                          *)
(***************************************************************************)
EXTENDS ArqQueue, CircuitBreaker, RetryStrategy, Sequences, FiniteSets

CONSTANTS
    Endpoints,        \* webhook endpoints
    EndpointOf,       \* the endpoint an event is for: [Events -> Endpoints]
    Workers,          \* job slots of the worker processes
    RetryLimits,      \* the values max_retries takes (1..20 in the schemas)
    Replies,          \* what a receiver may answer: HTTP codes, NoResponse
    RetryBatch,       \* LIMIT of get_due_for_retry (500 in the code)
    StaleBatch,       \* LIMIT of get_stale_pending (100 in the code)
    NoJob,            \* no event
    PostCap,          \* bound of the history variable posts
    MaxFaults,        \* bound on the crashes, errors and cancellations
    LeaseMayLapse,    \* can the in-progress key expire under a running job?
    HangingEndpoint   \* can a POST outlast job_timeout any number of times?

ASSUME PipelineAssumption ==
    /\ EndpointOf \in [Events -> Endpoints]
    /\ RetryLimits \subseteq Nat \ {0}
    /\ Replies \subseteq Nat
    /\ RetryBatch \in Nat \ {0}
    /\ StaleBatch \in Nat \ {0}
    /\ NoJob \notin Events
    /\ PostCap \in Nat
    /\ MaxFaults \in Nat
    /\ LeaseMayLapse \in BOOLEAN
    /\ HangingEndpoint \in BOOLEAN

VARIABLES
    event,      \* webhook_events: the committed row of each event
    attempts,   \* delivery_attempts: the rows of each event, in commit order
    dlq,        \* dead_letter_events: total_attempts of the entries of an event
    endpoint,   \* webhook_endpoints: the columns the pipeline reads
    circuit,    \* the breaker of each endpoint
    due,        \* events old enough (pending) or past next_retry_at (failed)
    batch,      \* what poll_pending_retries has read and not yet enqueued
    ingest,     \* how far the request that creates an event has got
    pc, job,    \* per worker: where deliver() is, and for which event
    copy,       \* per worker: the event and endpoint as it loaded them
    reply,      \* per worker: the answer to its POST
    posts,      \* history: POSTs made for each event, counted up to PostCap
    accepted,   \* history: events whose receiver has answered 2xx
    limits,     \* history: max_retries of its endpoint since an event exists
    faults      \* faults so far

rows == <<event, attempts, dlq, endpoint>>
local == <<pc, job, copy, reply>>
history == <<posts, accepted, limits>>
vars == <<rows, circuit, due, batch, ingest, local, history, faults, arqVars>>

-----------------------------------------------------------------------------
(* Types *)

Statuses == {"absent", "pending", "failed", "delivered", "dead_lettered"}

EventRows ==
    [status : Statuses, attempt_count : Nat, next_retry_at : {"null", "set"}]

EndpointRows == [is_active : BOOLEAN, max_retries : RetryLimits]

AttemptRows == [attempt_number : Nat, success : BOOLEAN]

Copies ==
    [status : Statuses, attempt_count : Nat, max_retries : RetryLimits \cup {0}]

NoCopy == [status |-> "absent", attempt_count |-> 0, max_retries |-> 0]

Steps == {"idle", "started", "inactive", "gate", "open", "claiming",
          "posting", "responded", "recorded", "finishing"}

(* The row of every event, and what a worker holds, has its type. *)
TypeOK ==
    /\ event \in [Events -> EventRows]
    /\ attempts \in [Events -> Seq(AttemptRows)]
    /\ dlq \in [Events -> Seq(Nat)]
    /\ endpoint \in [Endpoints -> EndpointRows]
    /\ circuit \in [Endpoints -> Circuits]
    /\ due \subseteq Events
    /\ batch \subseteq Events
    /\ ingest \in [Events -> {"new", "inserted", "enqueued", "closed"}]
    /\ pc \in [Workers -> Steps]
    /\ job \in [Workers -> Events \cup {NoJob}]
    /\ copy \in [Workers -> Copies]
    /\ reply \in [Workers -> Replies \cup {NoResponse}]
    /\ posts \in [Events -> 0..PostCap]
    /\ accepted \subseteq Events
    /\ limits \in [Events -> SUBSET RetryLimits]
    /\ faults \in 0..MaxFaults
    /\ ArqTypeOK

Init ==
    /\ event = [e \in Events |-> [status |-> "absent", attempt_count |-> 0,
                                  next_retry_at |-> "null"]]
    /\ attempts = [e \in Events |-> << >>]
    /\ dlq = [e \in Events |-> << >>]
    /\ endpoint \in [Endpoints -> [is_active : {TRUE}, max_retries : RetryLimits]]
    /\ circuit = [p \in Endpoints |-> ClosedCircuit]
    /\ due = {}
    /\ batch = {}
    /\ ingest = [e \in Events |-> "new"]
    /\ pc = [w \in Workers |-> "idle"]
    /\ job = [w \in Workers |-> NoJob]
    /\ copy = [w \in Workers |-> NoCopy]
    /\ reply = [w \in Workers |-> NoResponse]
    /\ posts = [e \in Events |-> 0]
    /\ accepted = {}
    /\ limits = [e \in Events |-> {}]
    /\ faults = 0
    /\ ArqInit

-----------------------------------------------------------------------------
(* Events and workers as the code sees them *)

(* MUTANT of Exists: the insert is visible before its commit. *)
ExistsUncommitted(e) == ingest[e] # "new"

Exists(e) == event[e].status # "absent"

(* MUTANT of Terminal: the early return of deliver() forgets the DLQ. *)
TerminalOnlyDelivered == {"delivered"}

(* deliver() does nothing more for these. *)
Terminal == {"delivered", "dead_lettered"}

Settled(e) == event[e].status \in Terminal

Busy(w) == pc[w] # "idle"

(* mark_delivering flushes an UPDATE: the row lock is held to the commit. *)
HoldsRowLock(w) == pc[w] \in {"posting", "responded", "recorded"}

(* MUTANT of RowFree: mark_delivering without its flush takes no lock. *)
RowNeverLocked(e) == TRUE

RowFree(e) == \A w \in Workers : HoldsRowLock(w) => job[w] # e

DueForRetry ==
    {e \in due : event[e].status = "failed" /\ event[e].next_retry_at = "set"}

(* MUTANT of StalePending: only the events with a date are polled. *)
StalePendingForgotten == {}

StalePending ==
    {e \in due : event[e].status = "pending" /\ event[e].next_retry_at = "null"}

(* What a SELECT with a LIMIT returns: any of the rows, as many as it may. *)
(* The due events come oldest first, the stale ones in no order at all.    *)
Page(found, limit) ==
    {S \in SUBSET found : S = found \/ Cardinality(S) = limit}

SpendFault ==
    /\ faults < MaxFaults
    /\ faults' = faults + 1

Goto(w, step) == pc' = [pc EXCEPT ![w] = step]

(* The slot is free again; what it held is forgotten. *)
Vacate(w) ==
    /\ pc' = [pc EXCEPT ![w] = "idle"]
    /\ job' = [job EXCEPT ![w] = NoJob]
    /\ copy' = [copy EXCEPT ![w] = NoCopy]
    /\ reply' = [reply EXCEPT ![w] = NoResponse]

-----------------------------------------------------------------------------
(* The API *)

(* create_event up to its flush: the insert is not committed yet. *)
ApiInsert(e) ==
    /\ ingest[e] = "new"
    /\ endpoint[EndpointOf[e]].is_active
    /\ ingest' = [ingest EXCEPT ![e] = "inserted"]
    /\ UNCHANGED <<rows, circuit, due, batch, local, history, faults, arqVars>>

(* The job is enqueued inside the transaction. *)
ApiEnqueue(e) ==
    /\ ingest[e] = "inserted"
    /\ EnqueueJob(e)
    /\ ingest' = [ingest EXCEPT ![e] = "enqueued"]
    /\ UNCHANGED <<rows, circuit, due, batch, local, history, faults>>

(* get_db commits when the handler has returned. *)
ApiCommit(e) ==
    /\ ingest[e] = "enqueued"
    /\ event' = [event EXCEPT ![e].status = "pending"]
    /\ ingest' = [ingest EXCEPT ![e] = "closed"]
    /\ limits' = [limits EXCEPT ![e] = {endpoint[EndpointOf[e]].max_retries}]
    /\ UNCHANGED <<attempts, dlq, endpoint, circuit, due, batch, local,
                   posts, accepted, faults, arqVars>>

(* An error or a crash before the commit: the insert is rolled back. *)
ApiAbort(e) ==
    /\ ingest[e] \in {"inserted", "enqueued"}
    /\ SpendFault
    /\ ingest' = [ingest EXCEPT ![e] = "closed"]
    /\ UNCHANGED <<rows, circuit, due, batch, local, history, arqVars>>

(* PATCH (is_active, max_retries) and DELETE, which only deactivates. *)
UpdateEndpoint(p) ==
    /\ \E row \in EndpointRows :
        /\ endpoint' = [endpoint EXCEPT ![p] = row]
        /\ limits' = [e \in Events |->
                         IF EndpointOf[e] = p /\ Exists(e)
                         THEN limits[e] \cup {row.max_retries} ELSE limits[e]]
    /\ UNCHANGED <<event, attempts, dlq, circuit, due, batch, ingest, local,
                   posts, accepted, faults, arqVars>>

-----------------------------------------------------------------------------
(* A worker running deliver() *)

Start(w, e) ==
    /\ pc[w] = "idle"
    /\ StartJob(e)
    /\ job' = [job EXCEPT ![w] = e]
    /\ Goto(w, "started")
    /\ UNCHANGED <<rows, circuit, due, batch, ingest, copy, reply, history, faults>>

Drop(e) ==
    /\ DropJob(e)
    /\ UNCHANGED <<rows, circuit, due, batch, ingest, local, history, faults>>

(* MUTANT of LoadedCopy: max_retries is not the endpoint's, but the largest. *)
LoadedCopyWithCeiling(e) ==
    [status |-> event[e].status,
     attempt_count |-> event[e].attempt_count,
     max_retries |-> CHOOSE most \in RetryLimits : \A n \in RetryLimits : n <= most]

(* get_with_endpoint: from here deliver() works on its own copy. *)
LoadedCopy(e) ==
    [status |-> event[e].status,
     attempt_count |-> event[e].attempt_count,
     max_retries |-> endpoint[EndpointOf[e]].max_retries]

Load(w) ==
    /\ pc[w] = "started"
    /\ copy' = [copy EXCEPT ![w] = LoadedCopy(job[w])]
    /\ \/ /\ ~Exists(job[w]) \/ Settled(job[w])
          /\ Goto(w, "finishing")
       \/ /\ Exists(job[w]) /\ ~Settled(job[w])
          /\ ~endpoint[EndpointOf[job[w]]].is_active
          /\ Goto(w, "inactive")
       \/ /\ Exists(job[w]) /\ ~Settled(job[w])
          /\ endpoint[EndpointOf[job[w]]].is_active
          /\ Goto(w, "gate")
    /\ UNCHANGED <<rows, circuit, due, batch, ingest, job, reply, history,
                   faults, arqVars>>

(* The endpoint was inactive when loaded: no POST, straight to the DLQ. *)
DeadLetterInactive(w) ==
    /\ pc[w] = "inactive"
    /\ RowFree(job[w])
    /\ event' = [event EXCEPT ![job[w]].status = "dead_lettered"]
    /\ dlq' = [dlq EXCEPT ![job[w]] = Append(@, copy[w].attempt_count)]
    /\ due' = due \ {job[w]}
    /\ Goto(w, "finishing")
    /\ UNCHANGED <<attempts, endpoint, circuit, batch, ingest, job, copy, reply,
                   history, faults, arqVars>>

(* circuit_breaker.is_allowed, which may half-open the circuit. *)
Gate(w) ==
    LET p == EndpointOf[job[w]] IN
    /\ pc[w] = "gate"
    /\ circuit' = [circuit EXCEPT ![p] = Observed(@)]
    /\ Goto(w, IF IsAllowed(circuit[p]) THEN "claiming" ELSE "open")
    /\ UNCHANGED <<rows, due, batch, ingest, job, copy, reply, history, faults, arqVars>>

(* MUTANT of ScheduledRow: next_retry_at is not written. *)
ScheduledRowWithoutDate(row, loaded) == [row EXCEPT !.status = "failed"]

(* schedule_retry: an attribute that does not change is not written back, so *)
(* an event loaded as failed keeps whatever status its row has by now.       *)
ScheduledRow(row, loaded) ==
    [row EXCEPT !.status = IF loaded = "failed" THEN @ ELSE "failed",
                !.next_retry_at = "set"]

(* The circuit is open: put off, without an attempt. *)
RescheduleOpen(w) ==
    /\ pc[w] = "open"
    /\ RowFree(job[w])
    /\ event' = [event EXCEPT ![job[w]] = ScheduledRow(@, copy[w].status)]
    /\ due' = due \ {job[w]}
    /\ Goto(w, "finishing")
    /\ UNCHANGED <<attempts, dlq, endpoint, circuit, batch, ingest, job, copy,
                   reply, history, faults, arqVars>>

(* MUTANT of Post: mark_delivering commits. *)
PostAfterCommit(w) ==
    /\ pc[w] = "claiming"
    /\ RowFree(job[w])
    /\ event' = [event EXCEPT ![job[w]].status = "delivering",
                              ![job[w]].attempt_count = copy[w].attempt_count + 1]
    /\ posts' = [posts EXCEPT ![job[w]] = IF @ < PostCap THEN @ + 1 ELSE @]
    /\ Goto(w, "posting")
    /\ UNCHANGED <<attempts, dlq, endpoint, circuit, due, batch, ingest, job,
                   copy, reply, accepted, limits, faults, arqVars>>

(* mark_delivering takes the row lock (or waits for it), then the POST goes out. *)
Post(w) ==
    /\ pc[w] = "claiming"
    /\ RowFree(job[w])
    /\ posts' = [posts EXCEPT ![job[w]] = IF @ < PostCap THEN @ + 1 ELSE @]
    /\ Goto(w, "posting")
    /\ UNCHANGED <<rows, circuit, due, batch, ingest, job, copy, reply, accepted,
                   limits, faults, arqVars>>

(* The receiver answers, or httpx gives up on it. *)
Respond(w) ==
    /\ pc[w] = "posting"
    /\ \E code \in Replies :
        /\ reply' = [reply EXCEPT ![w] = code]
        /\ accepted' = IF code \in 200..299 THEN accepted \cup {job[w]} ELSE accepted
    /\ Goto(w, "responded")
    /\ UNCHANGED <<rows, circuit, due, batch, ingest, job, copy, posts, limits,
                   faults, arqVars>>

(* MUTANT of RecordOutcome: a success is recorded as a failure too. *)
RecordEveryReply(w) ==
    LET p == EndpointOf[job[w]] IN
    /\ pc[w] = "responded"
    /\ circuit' = [circuit EXCEPT ![p] = AfterFailure(@)]
    /\ Goto(w, "recorded")
    /\ UNCHANGED <<rows, due, batch, ingest, job, copy, reply, history, faults, arqVars>>

(* record_success or record_failure: in Redis, before the commit. *)
RecordOutcome(w) ==
    LET p == EndpointOf[job[w]] IN
    /\ pc[w] = "responded"
    /\ circuit' = [circuit EXCEPT ![p] =
                      IF Succeeded(reply[w]) THEN AfterSuccess(@) ELSE AfterFailure(@)]
    /\ Goto(w, "recorded")
    /\ UNCHANGED <<rows, due, batch, ingest, job, copy, reply, history, faults, arqVars>>

(* MUTANT of ThisAttempt: attempt_count is not incremented. *)
UncountedAttempt(w) == copy[w].attempt_count

(* The attempt that mark_delivering counted. *)
ThisAttempt(w) == copy[w].attempt_count + 1

LogAttempt(w) ==
    attempts' = [attempts EXCEPT ![job[w]] =
                    Append(@, [attempt_number |-> ThisAttempt(w),
                               success |-> Succeeded(reply[w])])]

ConcludeDelivered(w) ==
    /\ pc[w] = "recorded"
    /\ Succeeded(reply[w])
    /\ LogAttempt(w)
    /\ event' = [event EXCEPT ![job[w]].status = "delivered",
                              ![job[w]].attempt_count = ThisAttempt(w)]
    /\ due' = due \ {job[w]}
    /\ Goto(w, "finishing")
    /\ UNCHANGED <<dlq, endpoint, circuit, batch, ingest, job, copy, reply,
                   history, faults, arqVars>>

ConcludeRetry(w) ==
    /\ pc[w] = "recorded"
    /\ ~Succeeded(reply[w])
    /\ ShouldRetry(reply[w], ThisAttempt(w), copy[w].max_retries)
    /\ LogAttempt(w)
    /\ event' = [event EXCEPT ![job[w]] = [status |-> "failed",
                                           attempt_count |-> ThisAttempt(w),
                                           next_retry_at |-> "set"]]
    /\ due' = due \ {job[w]}
    /\ Goto(w, "finishing")
    /\ UNCHANGED <<dlq, endpoint, circuit, batch, ingest, job, copy, reply,
                   history, faults, arqVars>>

(* MUTANT of ConcludeDeadLetter: the DLQ entry counts the attempts loaded. *)
ConcludeDeadLetterStale(w) ==
    /\ pc[w] = "recorded"
    /\ ~Succeeded(reply[w])
    /\ ~ShouldRetry(reply[w], ThisAttempt(w), copy[w].max_retries)
    /\ LogAttempt(w)
    /\ event' = [event EXCEPT ![job[w]].status = "dead_lettered",
                              ![job[w]].attempt_count = ThisAttempt(w)]
    /\ dlq' = [dlq EXCEPT ![job[w]] = Append(@, copy[w].attempt_count)]
    /\ due' = due \ {job[w]}
    /\ Goto(w, "finishing")
    /\ UNCHANGED <<endpoint, circuit, batch, ingest, job, copy, reply, history,
                   faults, arqVars>>

(* The attempt is the last one; a 410 also deactivates the endpoint. *)
ConcludeDeadLetter(w) ==
    /\ pc[w] = "recorded"
    /\ ~Succeeded(reply[w])
    /\ ~ShouldRetry(reply[w], ThisAttempt(w), copy[w].max_retries)
    /\ LogAttempt(w)
    /\ event' = [event EXCEPT ![job[w]].status = "dead_lettered",
                              ![job[w]].attempt_count = ThisAttempt(w)]
    /\ dlq' = [dlq EXCEPT ![job[w]] = Append(@, ThisAttempt(w))]
    /\ endpoint' = [endpoint EXCEPT ![EndpointOf[job[w]]].is_active =
                       @ /\ reply[w] # 410]
    /\ due' = due \ {job[w]}
    /\ Goto(w, "finishing")
    /\ UNCHANGED <<circuit, batch, ingest, job, copy, reply, history, faults, arqVars>>

(* deliver() has returned or raised: arq deletes the job, keeps its result. *)
Finish(w) ==
    /\ pc[w] = "finishing"
    /\ FinishJob(job[w])
    /\ Vacate(w)
    /\ UNCHANGED <<rows, circuit, due, batch, ingest, history, faults>>

-----------------------------------------------------------------------------
(* What goes wrong *)

(* An exception (database, Redis, an overflowing Retry-After): the session *)
(* rolls back, and to arq the job has failed, which is a result too.       *)
Abort(w) ==
    /\ Busy(w)
    /\ pc[w] # "finishing"
    /\ SpendFault
    /\ Goto(w, "finishing")
    /\ UNCHANGED <<rows, circuit, due, batch, ingest, job, copy, reply, history, arqVars>>

(* job_timeout (60 s) cancels a POST: timeout_seconds may be up to 120 and *)
(* bounds each read, not the exchange.                                     *)
JobTimeout(w) ==
    /\ pc[w] = "posting"
    /\ IF HangingEndpoint THEN UNCHANGED faults ELSE SpendFault
    /\ Goto(w, "finishing")
    /\ UNCHANGED <<rows, circuit, due, batch, ingest, job, copy, reply, history, arqVars>>

(* SIGTERM: the task is cancelled, the transaction rolled back, the job requeued. *)
Shutdown(w) ==
    /\ Busy(w)
    /\ SpendFault
    /\ ReleaseJob(job[w])
    /\ Vacate(w)
    /\ UNCHANGED <<rows, circuit, due, batch, ingest, history>>

(* SIGKILL: PostgreSQL rolls back, the in-progress key stays until its TTL. *)
Crash(w) ==
    /\ Busy(w)
    /\ SpendFault
    /\ Vacate(w)
    /\ UNCHANGED <<rows, circuit, due, batch, ingest, history, arqVars>>

-----------------------------------------------------------------------------
(* The cron job poll_pending_retries *)

PollRead ==
    /\ batch = {}
    /\ \E failed \in Page(DueForRetry, RetryBatch),
          stale \in Page(StalePending, StaleBatch) : batch' = failed \cup stale
    /\ batch' # {}
    /\ UNCHANGED <<rows, circuit, due, ingest, local, history, faults, arqVars>>

(* What was read is enqueued whatever has happened to the event since. *)
PollEnqueue(e) ==
    /\ e \in batch
    /\ EnqueueJob(e)
    /\ batch' = batch \ {e}
    /\ UNCHANGED <<rows, circuit, due, ingest, local, history, faults>>

(* enqueue_job raised: logged, and the next event is tried. *)
PollEnqueueFails(e) ==
    /\ e \in batch
    /\ SpendFault
    /\ batch' = batch \ {e}
    /\ UNCHANGED <<rows, circuit, due, ingest, local, history, arqVars>>

(* The process that ran the cron job died. *)
PollLost ==
    /\ batch # {}
    /\ SpendFault
    /\ batch' = {}
    /\ UNCHANGED <<rows, circuit, due, ingest, local, history, arqVars>>

-----------------------------------------------------------------------------
(* Time *)

(* next_retry_at has passed, or a pending event is 120 s old. *)
TimerFires(e) ==
    /\ event[e].status \in {"pending", "failed"}
    /\ e \notin due
    /\ due' = due \cup {e}
    /\ UNCHANGED <<rows, circuit, batch, ingest, local, history, faults, arqVars>>

LeaseExpires(e) ==
    /\ ExpireLease(e)
    /\ IF \E w \in Workers : job[w] = e
          THEN LeaseMayLapse /\ SpendFault
          ELSE UNCHANGED faults
    /\ UNCHANGED <<rows, circuit, due, batch, ingest, local, history>>

ResultExpires(e) ==
    /\ ExpireResult(e)
    /\ UNCHANGED <<rows, circuit, due, batch, ingest, local, history, faults>>

CircuitAges(p) ==
    /\ circuit[p].state = "open" /\ ~circuit[p].aged
    /\ circuit' = [circuit EXCEPT ![p] = Aged(@)]
    /\ UNCHANGED <<rows, due, batch, ingest, local, history, faults, arqVars>>

FailureWindowLapses(p) ==
    /\ circuit[p].failures > 0
    /\ circuit' = [circuit EXCEPT ![p] = WindowLapsed(@)]
    /\ UNCHANGED <<rows, due, batch, ingest, local, history, faults, arqVars>>

-----------------------------------------------------------------------------
Deliver(w) ==
    \/ Load(w)
    \/ DeadLetterInactive(w)
    \/ Gate(w)
    \/ RescheduleOpen(w)
    \/ Post(w)
    \/ Respond(w)
    \/ RecordOutcome(w)
    \/ ConcludeDelivered(w)
    \/ ConcludeRetry(w)
    \/ ConcludeDeadLetter(w)
    \/ Finish(w)

Fail(w) == Abort(w) \/ JobTimeout(w) \/ Shutdown(w) \/ Crash(w)

Api(e) == ApiInsert(e) \/ ApiEnqueue(e) \/ ApiCommit(e) \/ ApiAbort(e)

Poll(e) == PollEnqueue(e) \/ PollEnqueueFails(e)

EventTimers(e) == TimerFires(e) \/ LeaseExpires(e) \/ ResultExpires(e)

Next ==
    \/ \E e \in Events : Api(e) \/ Drop(e) \/ Poll(e) \/ EventTimers(e)
    \/ \E w \in Workers : Deliver(w) \/ Fail(w) \/ \E e \in Events : Start(w, e)
    \/ \E p \in Endpoints : UpdateEndpoint(p) \/ CircuitAges(p) \/ FailureWindowLapses(p)
    \/ PollRead
    \/ PollLost

Spec == Init /\ [][Next]_vars

(* Workers run their tasks, arq offers queued jobs oldest first (so a job is *)
(* not passed over for ever), cron fires, TTLs and timers run out.  Nothing  *)
(* obliges a request to be made, a fault to happen or a failure to be        *)
(* forgotten.                                                                *)
Fairness ==
    /\ \A w \in Workers : WF_vars(Deliver(w))
    /\ \A e \in Events :
        /\ SF_vars(\E w \in Workers : Start(w, e))
        /\ WF_vars(Drop(e))
        /\ WF_vars(PollEnqueue(e))
        /\ WF_vars(TimerFires(e))
        /\ WF_vars(LeaseExpires(e))
        /\ WF_vars(ResultExpires(e))
    /\ \A p \in Endpoints : WF_vars(CircuitAges(p))
    /\ WF_vars(PollRead)

FairSpec == Spec /\ Fairness

-----------------------------------------------------------------------------
(* Invariants that the properties rest on *)

(* deliver() has passed its early return for a missing or settled event. *)
Working(w) ==
    pc[w] \in {"inactive", "gate", "open", "claiming", "posting",
              "responded", "recorded"}

(* A worker only ever works on a committed event, and a row never goes back *)
(* to pending: the rows stay consistent with what any worker has loaded,    *)
(* also when two workers run the same job.                                  *)
RowsConsistent ==
    /\ \A e \in Events :
        /\ ingest[e] # "closed" => event[e].status = "absent"
        /\ event[e].status \in {"absent", "pending"} => event[e].next_retry_at = "null"
        /\ event[e].status = "failed" => event[e].next_retry_at = "set"
    /\ \A w \in Workers : Working(w) =>
        /\ event[job[w]].status # "absent"
        /\ copy[w].status \in {"pending", "failed"}
        /\ copy[w].status = "failed" => event[job[w]].status # "pending"

(* While no lease lapses the job id is a lock: a running job is in the       *)
(* queue and in progress, no two workers run the same one, and what deliver() *)
(* read before it took the row lock is still true when it writes.            *)
JobsAreOwned ==
    /\ \A w \in Workers : Busy(w) => job[w] \in queued \cap inProgress
    /\ \A v, w \in Workers : v # w /\ Busy(v) /\ Busy(w) => job[v] # job[w]
    /\ \A w \in Workers : Working(w) =>
        /\ copy[w].status = event[job[w]].status
        /\ copy[w].attempt_count = event[job[w]].attempt_count
        /\ copy[w].max_retries \in RetryLimits

-----------------------------------------------------------------------------
(* Properties *)

(* README "events survive process restarts": whatever crashes, is cancelled *)
(* or rolls back, an event that is not settled keeps a row that one of the  *)
(* poller's two queries selects once its time has come.                     *)
NoEventStranded ==
    \A e \in Events : Exists(e) /\ ~Settled(e) =>
        \/ event[e].status = "pending" /\ event[e].next_retry_at = "null"
        \/ event[e].status = "failed" /\ event[e].next_retry_at = "set"

(* The job id, the in-progress key and the early return of deliver()       *)
(* together: once an event is delivered or dead-lettered no later run, by  *)
(* a stale batch or a requeued job, changes its row, logs or dead-letters. *)
SettledIsFinal ==
    [][\A e \in Events : event[e].status \in {"delivered", "dead_lettered"} =>
          UNCHANGED <<event[e], attempts[e], dlq[e]>>]_vars

(* Two runs of one event never have a POST open at the same time, even if  *)
(* the in-progress key expires early: the row lock of mark_delivering      *)
(* serialises them.                                                        *)
OnePostAtATime ==
    \A v, w \in Workers :
        v # w /\ HoldsRowLock(v) /\ HoldsRowLock(w) => job[v] # job[w]

(* The DLQ and the event rows tell the same story: one entry for each      *)
(* dead-lettered event, with its attempt count, and none for any other.    *)
DeadLetterLedger ==
    \A e \in Events :
        dlq[e] = IF event[e].status = "dead_lettered"
                 THEN <<event[e].attempt_count>> ELSE << >>

(* The audit log of an event is its attempts 1..attempt_count, once each   *)
(* and in order; only the last can be a success, and it is exactly when    *)
(* the event is delivered.                                                 *)
AuditLogMatchesEvent ==
    \A e \in Events :
        /\ Len(attempts[e]) = event[e].attempt_count
        /\ \A i \in 1..Len(attempts[e]) :
              attempts[e][i] =
                  [attempt_number |-> i,
                   success |-> /\ i = event[e].attempt_count
                               /\ event[e].status = "delivered"]

(* should_retry against max_retries, which may be patched mid-flight: no   *)
(* event is tried more often than a limit its endpoint had in the event's  *)
(* own time, and one that waits has a try left under such a limit.         *)
AttemptsBounded ==
    \A e \in Events : Exists(e) =>
        \E limit \in limits[e] :
            /\ event[e].attempt_count <= limit
            /\ ~Settled(e) => event[e].attempt_count < limit

InFlight(e) == \E w \in Workers : HoldsRowLock(w) /\ job[w] = e

(* At-least-once, and how much more than once: the POSTs the receiver sees *)
(* are the attempts in the books, the one in flight, and at most one for   *)
(* each crash, cancellation or error.                                      *)
DuplicatesNeedFaults ==
    \A e \in Events :
        posts[e] <= event[e].attempt_count + faults + (IF InFlight(e) THEN 1 ELSE 0)

(* The job is enqueued before the insert commits, and the commit may fail: *)
(* still nothing is ever sent for an event that is not in the database.    *)
NoPhantomDelivery ==
    \A e \in Events : posts[e] > 0 => event[e].status # "absent"

(* The final status is the receiver's word: delivered after a 2xx, and     *)
(* dead-lettered after a 2xx only if a fault lost that answer.             *)
OutcomeMatchesReceiver ==
    \A e \in Events :
        /\ event[e].status = "delivered" => e \in accepted
        /\ event[e].status = "dead_lettered" /\ e \in accepted => faults > 0

FailuresLogged(p) ==
    UNION {{<<e, i>> : i \in {n \in DOMAIN attempts[e] : ~attempts[e][n].success}} :
              e \in {d \in Events : EndpointOf[d] = p}}

(* Counted by the breaker, not yet committed. *)
FailuresRecorded(p) ==
    {w \in Workers :
        pc[w] = "recorded" /\ EndpointOf[job[w]] = p /\ ~Succeeded(reply[w])}

FailuresKnown(p) ==
    Cardinality(FailuresLogged(p)) + Cardinality(FailuresRecorded(p)) + faults

(* record_failure writes to Redis before the attempt is committed, and the *)
(* two stores never meet again: still the breaker counts no failure but    *)
(* those in the audit log, about to be there, or rolled back by a fault,   *)
(* and it has left the closed state on a threshold of them.                *)
BreakerMatchesLog ==
    \A p \in Endpoints :
        /\ circuit[p].failures <= FailuresKnown(p)
        /\ circuit[p].state # "closed" => FailureThreshold <= FailuresKnown(p)

(* README "at-least-once" and "all retries exhausted -> DLQ": an event in  *)
(* the database is delivered or dead-lettered in the end.                  *)
EventuallySettled == \A e \in Events : Exists(e) ~> Settled(e)

(* poll_pending_retries counts as enqueued every event it offers to arq:   *)
(* when it has, the event's job is in the queue.                           *)
DueEventIsEnqueued == [][\A e \in Events : PollEnqueue(e) => e \in queued']_vars

-----------------------------------------------------------------------------
(* Each event row lives the abstract life. *)
Phase(e) ==
    CASE event[e].status = "absent" -> "unborn"
      [] event[e].status \in {"pending", "failed"} -> "waiting"
      [] OTHER -> event[e].status

Abstract == INSTANCE EventLifecycle WITH
    phase <- [e \in Events |-> Phase(e)],
    tries <- [e \in Events |-> event[e].attempt_count]

(* Every step of the pipeline is a step of EventLifecycle or a stutter. *)
ImplementsLifecycle == Abstract!Lifecycle

=============================================================================
