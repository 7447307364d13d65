# WebhookRelay in TLA+

A formal model of WebhookRelay: an API that accepts webhook events, arq workers that
deliver them over HTTP with retries and a circuit breaker, a cron job that picks up what
is due, and a dead letter queue that operators replay from. The modules are translated
from the code under `src/src/webhook_relay/` (paths below are relative to it);
`PROJECT.json` maps every definition to the lines it stands for. TLC checks the models on
small instances, and TLAPS proves the theorems named below for every value of the
constants.

    tlc -workers 2 -config delivery_one_event.cfg MCDeliveryPipeline.tla
    tlapm DeliverySafetyProofs.tla

## 1. The system

| Component | Source | State | Operations |
|---|---|---|---|
| Event ingest | `api/v1/events.py`, `api/dependencies.py` | row of `webhook_events`, idempotency key | `create_event`: lookup, checks, insert, enqueue, answer, commit or rollback |
| Delivery | `services/delivery_service.py`, `repositories/` | rows of `webhook_events`, `delivery_attempts`, `dead_letter_events`, the row lock taken by `mark_delivering` | `deliver`: load, gate, claim, POST, record, conclude |
| Retry poller | `worker/tasks.py` | the pages it has read | `poll_pending_retries`: two queries, `enqueue_job` for each event |
| Job queue | `worker/arq_worker.py`, arq | job, in-progress and result keys, retry counter | enqueue, claim, finish, release, TTLs |
| Circuit breaker | `services/circuit_breaker.py` | `cb:<id>:state`, `:failures`, `:opened_at` in Redis | `get_state`, `is_allowed`, `record_success`, `record_failure`, `reset`, `get_open_circuits` |
| Retry strategy | `services/retry_service.py` | none | `should_retry`, `compute_delay`, `next_retry_at` |
| Dead letter queue | `services/replay_service.py`, `repositories/dead_letter_repo.py`, `api/v1/dlq.py` | `dead_letter_events` | `replay_single`, `replay_bulk`, discard, listing |
| Endpoint administration | `api/v1/endpoints.py`, `repositories/endpoint_repo.py` | `webhook_endpoints` | create, PATCH, DELETE, `rotate_secret` |
| HMAC | `services/hmac_service.py`, `api/v1/delivery.py` | none | sign, verify, `/inbound/verify` |
| Statistics and listings | `api/v1/delivery.py`, `api/v1/events.py`, `api/v1/endpoints.py`, `api/v1/dlq.py` | none of their own | `/stats`, endpoint stats, event detail, attempts, DLQ pages |
| Health, wiring, middleware, configuration | `main.py`, `middleware.py`, `config.py`, ... | none of their own | |

How they interact. Everything durable is in PostgreSQL; each request and each run of
`deliver` is one transaction, so its writes appear at its commit and the row it has
flushed is locked until then. The API, the poller and the workers meet only there and in
Redis, which holds the arq queue and the breaker. Redis takes part in no transaction:
what is written to it is not taken back by a rollback.

What is hard here:

* **Two stores.** The job of an event is enqueued before its insert is committed; the
  breaker learns of an outcome before the attempt row is committed; a rollback undoes one
  store only.
* **Answers before commits.** `get_db` is a dependency with `yield`: FastAPI sends the answer
  and then lets it commit. A 201 may name a row that is not there yet, or never will be.
* **Crashes anywhere.** `deliver` may be cancelled (SIGTERM, `job_timeout`), raise, or die
  between any two awaits. The row must remain one that the poller selects.
* **Job ids as locks.** arq refuses a job id that is queued or whose result is kept, and the
  in-progress key that keeps two workers apart has a TTL and names no owner.
* **Checks on stale data.** `deliver` tests status, attempts, limit and endpoint on copies
  loaded before it takes the row lock; the poller enqueues what it read earlier; the replay
  guard and the idempotency lookup read without a lock; `get_state` writes HALF_OPEN on a
  state it read before.
* **Time.** Backoff, `Retry-After`, the breaker's timeout, arq's result retention and the
  cron period together decide when an attempt is made; `deliver` itself does not look at
  `next_retry_at`. Signatures are valid for minutes, retries go on for hours.
* **Shared breakers.** Events of one endpoint put each other off.
* **Many locks in one transaction.** A bulk replay keeps the lock of every row it has
  written until its only commit.
* **Answers put together from several statements.** Each has its own snapshot.

What makes each component correct:

* Ingest and administration: requests with one idempotency key agree on the event; a refusal
  is explained by a request it overlapped; every committed event has had its job; a deleted
  endpoint takes no event sent after the DELETE; every request ends.
* Delivery: an accepted event ends delivered or dead-lettered, once and for good; the rows,
  the audit log, the DLQ, the breaker's count and the receiver agree; attempts are bounded by
  `max_retries` as the endpoint has had it; nothing is sent for an event that is not in the database; more POSTs than attempts need a
  fault.
* Queue and poller: while no lease lapses a job is run by one worker, whose copy is fresh; no
  unsettled event escapes the poller's queries, nor starves behind their limits.
* Schedule and signature: no attempt before the wait that was promised, none much later, each
  with a signature the receiver accepts.
* Breaker: it opens on failures since it last closed, is never open without the stamp that lets
  it half-open, and closes for good when failures stop. (That it stays open for its timeout is
  what the README says and two workers do not keep: `late_half_open`.)
* Replay: no lock cycle, no replay of a discarded entry, a counter that never denies a replay
  that was made, a guard that only overlapping replays get past, every committed replay served.
* Views: the numbers of one answer do not contradict each other; browsing misses nothing.

## 2. The modules

| Module | Models | Uses |
|---|---|---|
| `EventLifecycle` | what is promised of an event: accepted, tried a bounded number of times, delivered or given up, for good | |
| `ArqQueue` | arq's keys for one job id per event (external, as used by the code) | |
| `CircuitBreaker` | the breaker's methods as whole calls, pure operators | |
| `RetryStrategy` | `should_retry` and success of a status code | |
| `DeliveryPipeline` | API insert, queue, workers, poller, timers, endpoint changes, faults | the three above; implements `EventLifecycle` |
| `ApiRequests` | the requests that write events and endpoints, as concurrent transactions | |
| `CircuitBreakerRedis` | the breaker's methods one Redis command at a time, several clients | |
| `DeadLetterReplay` | replay, bulk replay and discard as concurrent transactions | |
| `Signature` | signing, verification and the answer of `/inbound/verify` | |
| `AttemptSchedule` | the attempts of one event against a clock | `RetryStrategy`, `Signature` |
| `OperatorViews` | the requests that read, statement by statement, while events and circuits move | `EventLifecycle` |
| `MC...` | the constants, functions and symmetry of the runs | |
| `DeliveryProofs`, `DeliverySafetyProofs`, `DeliveryLedgerProofs` | theorems about the pipeline, each module on the one before | `DeliveryPipeline` |
| `ApiRequestsProofs`, `CircuitBreakerProofs`, `DeadLetterReplayProofs`, `AttemptScheduleProofs`, `OperatorViewsProofs` | theorems | `ApiRequests`, `CircuitBreakerRedis`, `DeadLetterReplay`, `AttemptSchedule`, `OperatorViews` |

### DeliveryPipeline

A worker is one job slot of one worker process. `pc[w]` says where its `deliver` is:

| `pc` | in `delivery_service.py` | action that leaves it |
|---|---|---|
| `started` | `get_with_endpoint`, early returns | `Load` |
| `inactive` | endpoint inactive: DLQ entry, commit | `DeadLetterInactive` |
| `gate` | `is_allowed` | `Gate` |
| `open` | circuit open: `schedule_retry`, commit | `RescheduleOpen` |
| `claiming` | `mark_delivering` flushes and takes the row lock | `Post` |
| `posting` | the POST is out | `Respond`, `JobTimeout` |
| `responded` | `record_success` / `record_failure` | `RecordOutcome` |
| `recorded` | attempt row, outcome, commit | `ConcludeDelivered`, `ConcludeRetry`, `ConcludeDeadLetter` |
| `finishing` | arq writes the result | `Finish` |

`copy[w]` is what the session loaded; `event`, `attempts`, `dlq` and `endpoint` are committed
rows. A transaction's uncommitted writes are visible to nobody else, so they appear in the
action that commits, and only the lock (`HoldsRowLock`) is visible before. `delivering` is
therefore no committed status. SQLAlchemy writes only attributes that changed:
`ScheduledRow` says what that does to an event loaded as `failed`.

`due` abstracts time: an event enters it when `next_retry_at` has passed or a pending event
is 120 s old. `batch` is what `poll_pending_retries` has read: a page of the failed events that
are due and one of the stale pending ones, each with its limit (`RetryBatch`, `StaleBatch`) and
in no order that the model relies on; it is enqueued one event at a time while other processes
run. `Abort`, `JobTimeout`, `Shutdown` and `Crash` differ in what they leave in arq: a result, a
result, a requeued job, an in-progress key that must expire. `UpdateEndpoint` may change
`is_active` and `max_retries` at any moment; a 410 deactivates. `posts`, `accepted` and
`limits` are history variables: what the receiver has seen and said, and every `max_retries` that
the endpoint's row has held since the event was committed.

### ApiRequests

Each request is a handler with a session of its own: `pc`, what it was asked (`call`), the
endpoint it has loaded (`copy`), whether it has written what is not yet committed (`wrote`),
and its answer. `InsertEvent` is the flush: an event of an open transaction with the same key
makes it wait, one that is committed makes it fail with the constraint, which the handler does
not catch. The lookup is skipped for a falsy key, and the schema admits the empty one:
`EmptyKey` is not looked up, but inserted like any other. `FlushUpdate` and `Deactivate` take
the endpoint's row lock, which is held until the commit. `Respond` sends the answer, `Commit`
follows it. A PATCH writes only the attributes that differ from what was loaded (`Patched`);
one that changes something, like `rotate_secret`,
expires `updated_at`, and serializing the answer raises: see `undone_patch`. `committed`,
`before` and `broken` are history.

### CircuitBreakerRedis

`state`, `failures` with its TTL, and `opened_at` are the three keys; `pc`, `op`, `seen` and
`count` are where each client is in which method, and what it has read. Each action is one
round trip to Redis (a MULTI/EXEC pipeline is one). `opened_age` counts ticks and stops one
past the timeout; `failures` and `count` stop at the threshold, with which alone the code
compares them. `evidence` and `ages` are history: failures recorded since the circuit last
closed, and how old the last ones are; so are `leftover`, that a client died after writing CLOSED
and before deleting the count, and `misled`, the clients
whose count may hold failures from before a recovery, which their call has overlapped or which
were left over.

### DeadLetterReplay

`entry` holds committed rows; `copy` what a request's session loaded (the identity map:
`get_by_id` in the loop of a bulk replay returns the row the first query loaded); `marked`
the rows it has written and therefore locked. `born` holds the events that committed replays
created, named by request and entry. Entries are numbered by `dead_lettered_at`, which is
what `ORDER BY` sorts on. What happens to a new event is `DeliveryPipeline`'s matter; only
what a replay relies on is kept: `RunJob` finds nothing for an uncommitted event and leaves
one whose circuit is open, and `Poll` finds pending events.

### AttemptSchedule and Signature

One event, its job's keys in arq and a clock. A run of `deliver` is `Post` and `Conclude`, or
`PutOff` by an open circuit. `ComputeDelay` is the set of waits the jitter allows, `NextDelay`
adds `Retry-After` as the code reads it: on a 429 only, as a float, 0 taken for absent, a
number no `timedelta` holds raising after the POST. `promise` is history, computed by the
reference `Backoff`, which multiplies attempt by attempt: the documented wait. The code's
power (`Power`) is a recursive function, so that the two can be proved equal. The header is what
`verify_signature` parses of the text; the hash is symbolic.

### OperatorViews

A handler's statements are `step`, in the order `After` gives; each reads the committed state
of its own moment into `shown`. The events advance by `EventLifecycle`'s actions, so what is
checked here holds for everything the pipeline can do, which is proved to implement them.
`since` is history: what was so when the request came, and what has been removed or opened
meanwhile. Entries enter the DLQ anywhere in its order, since `dead_lettered_at` is the start
of a transaction that commits later. A listing is a set of rows with an order (`Listing`,
`Precedes`); `OFFSET` and `LIMIT` count how many rows precede one (`Before`, `PageOf`). A circuit
may go from any state to any other (`MoveCircuit`): its clients act on what they read before.
An average latency of 0 would be answered as none, since it is tested for truth; durations are
rounded to 0.01 ms, so the model takes an average that exists to be one that shows.

## 3. The runs

| Run | Instance | Shows |
|---|---|---|
| `delivery_one_event` | 1 event, 2 workers, 3 faults, `max_retries` 1 or 3 and patched in flight, answers 2xx, 3xx, 410, none | `TypeOK`, `DeadLetterLedger`, `JobsAreOwned`, `AuditLogMatchesEvent`, `AttemptsBounded`, `DuplicatesNeedFaults`, `NoPhantomDelivery`, `OutcomeMatchesReceiver`, `BreakerMatchesLog`, `SettledIsFinal`, and that each event lives the life of `EventLifecycle` |
| `delivery_shared_circuit` | 2 events of one endpoint, 1 worker, a circuit that opens on the first failure, poller pages of 1 | `EventuallySettled`: neither the other's failures nor the other's place on the page keeps an event waiting for ever |
| `delivery_lapsed_lease` | 1 event, 2 workers, 2 faults, one of which may be an in-progress key that expires early | two runs of one job: `OnePostAtATime`, `RowsConsistent`, `NoEventStranded` and `EventuallySettled` still hold |
| `api_requests` | 3 requests of any kind, an idempotency key and the empty one, a PATCH that activates, a fault | `IdempotentAnswers`, `RefusalsNeedOverlap`, `JobsHaveEvents`, `DeletedEndpointTakesNoEvents`, `EveryRequestEnds` |
| `breaker_concurrent` | 2 workers, 1 API request, threshold 2, a death | `TypeOK`, `OpenHasTimestamp`, `OpenIsTemporary`, `RecoversForGood`, `OpensOnEvidence` |
| `replay_concurrent` | 2 requests, 2 entries, a fault | `TypeOK`, `NoLockCycle`, `ReplayLedger`, `DiscardIsFinal`, `GuardYieldsOnlyToOverlap`, `EveryCallEnds`, `ReplaysAreServed` |
| `attempt_schedule` | 1 event, 3 attempts, every kind of `Retry-After`, a clock skewed by 1, a fault | `NotBeforePromised`, `NextAttemptIsTimely`, `SignatureHolds` |
| `operator_views` | 3 events of 2 endpoints, pages of 1 | `StatsAreCoherent`, `DetailIsCoherent`, `BrowsingMissesNothing`, `OpenCircuitsAreListed` |

Four runs end in a counterexample, each to a sentence of the repository:

| Run | Sentence | What the code does |
|---|---|---|
| `hanging_endpoint` | README "All retries exhausted" leads to the DLQ | an endpoint may have a timeout of 120 s, arq cancels after 60 s; the attempt is rolled back uncounted and made again for ever |
| `refused_requeue` | `worker/tasks.py` "Enqueued %d events for delivery" | `enqueue_job` returns `None` while the result of the last run is kept (an hour); the poller counts the event as enqueued, and a retry scheduled in 30 s waits |
| `late_half_open` | README "OPEN ──(300s timeout)──▶ HALF_OPEN", "State shared across all workers" | `get_state` reads state and stamp and writes HALF_OPEN in separate commands: a worker that has found the timeout over writes it after another's failure has opened the circuit anew |
| `undone_patch` | README "PATCH ... Update endpoint" | the flush leaves `updated_at` (`onupdate=func.now()`) expired, serializing the answer loads it outside the async session and raises: 500, rolled back. A PATCH that changes nothing, and DELETE (a Core update, no body), commit |

Every property of a passing run has a mutant in `PROJECT.json`: a plausible bug, written as
an operator marked `MUTANT of ...` in the modules, with which TLC finds the property violated.

**Bounds.** *Events*: properties of the pipeline are per event, and events meet only in a shared
breaker, a page and job slots, for which two suffice. *Workers*: two, the fewest that race for
a row. *Faults*: a crash followed by a crash of the recovery, and one more. `max_retries` of 1
is the first attempt being the last, 3 lets an event fail twice and be put off in between; two
values let PATCH raise and lower it. `MaxTries` 1 or 2 (arq: 5) reaches the dropped job.
`PostCap` bounds the history `posts`: where a property reads it, above any number the
instance reaches.
`RetryBatch` and `StaleBatch` of 1 (code: 500 and 100) make two events compete for a page.
`FailureThreshold` 1 and 2: at once, and after another's failure, with failures that may expire
in between. Ticks: one or two per window and timeout are enough for an expiry before,
between and after any two commands. *Replay*: two requests make every cycle of two, every
overlap of guard and commit; two entries make an order. *Requests*: three make a pair that
overlaps with one that was over before, or a DELETE, an event and the PATCH between them; one
key that is looked up and one that is not, because different keys do not meet. A PATCH that
activates an active endpoint changes nothing and commits, one that activates a deleted one is
undone: both kinds with one body (`undone_patch` has a second, of another column). *Schedule*: the clock is scaled so that each wait of
the code keeps its place in the order: initial delay 4, base 2, maximum 8 (reached at the
second attempt), stale age 6 and result retention 6 between one and two poller periods of 4,
recovery 9 beyond all of them, job timeout 3, tolerance 4 above timeout and skew. `Horizon`
50 leaves room for three attempts with the longest wait between them (a `Retry-After` of 15,
a poller period) and a put-off or a fault; longer courses are checked up to it. *Views*:
three events let one enter, one leave and one stay; two circuits let one move while the other
is read; `EventsOrCircuits` lets events or circuits move in one behaviour, not both, for they
share neither an action nor a property. `Replies` are one representative for each class that
the module treats differently.

**Deadlock** checking is off where the system really stops: every event settled, every request
done, the clock at its horizon. The breaker's clock always ticks, so it is on there.

**Fairness**, and what in the code justifies it:

* `Deliver(w)` weak: an asyncio task runs on, httpx and the database answer or raise.
  The faults are not fair: nothing obliges them to happen, or not to.
* `Start` strong, per event over all workers: arq serves its queue by score (enqueue time), so
  a job does not lose to newer ones for ever. Weak fairness would not do: with one busy slot
  the action is enabled again and again, not continuously.
* `Drop`, `TimerFires`, `LeaseExpires`, `ResultExpires`, `CircuitAges`: TTLs and clocks.
* `PollRead`, `PollEnqueue`: arq's cron runs every 30 s.
* In `ApiRequests`: a request that has arrived runs on; none need arrive.
* In `CircuitBreakerRedis`: calls end, the clock ticks, and workers keep asking (`Ask`), since an
  event put off comes back through the poller. Outcomes are not fair.
* In `DeadLetterReplay`: a request's steps, jobs, the poller and half-opening; not arrivals.
* `AttemptSchedule` and `OperatorViews` state safety only. The former *assumes* prompt workers
  and a cron that never misses its second, by the guard of `Tick`: it asks what the delays,
  keys and queries make of an event when nothing else is late.

## 4. What is proved

| Theorem | States | Assumes | Rests on |
|---|---|---|---|
| `DeliveryProofs!TypeCorrect` | `Spec => []TypeOK` | the constants' assumptions | `TypeInv`: `TypeOK` and that a slot has a job exactly when it is busy |
| `OnePostAtATimeHolds` | `Spec => []OnePostAtATime` | the same; leases may lapse | `TypeInv`; `OnePostAtATime` is inductive with it: the guard of `Post` is the row lock |
| `RowsStayConsistent` | `Spec => []RowsConsistent` | the same; leases may lapse | inductive with `TypeInv` |
| `NoEventStrandedHolds` | `Spec => []NoEventStranded` | the same; leases may lapse | `RowsConsistent`: a row that is loaded exists, a copy loaded as failed is of a row that never returns to pending |
| `JobsAreOwnedHolds` | `Spec => []JobsAreOwned` | `~LeaseMayLapse` | `OwnInv`: types, rows and ownership together |
| `SettledIsFinalHolds` | `Spec => SettledIsFinal` | `~LeaseMayLapse` | `OwnInv`: only a working slot writes rows, and its copy says the row is not settled |
| `DeadLetterLedgerHolds`, `AuditLogMatchesEventHolds` | `Spec => []...` | `~LeaseMayLapse` | `LedgerInv`: `OwnInv` and the books of every event; lemma `RowSteps` says all that a step can do to one event's rows |
| `AttemptsBoundedHolds` | `Spec => []AttemptsBounded` | `~LeaseMayLapse` | `LedgerInv`, and `LimitsKept` of `OwnInv`: the limit in a worker's copy is one the endpoint has held since the event was committed |
| `BreakerMatchesLogHolds` | `Spec => []BreakerMatchesLog` | the constants' assumptions; leases may lapse | `BreakerKnows`: the count is bounded by the failures logged, recorded and lost; those logged and recorded are finite in number, and a recorded one is logged by its commit or lost to a fault |
| `ImplementsLifecycleHolds` | `Spec => ImplementsLifecycle` | `~LeaseMayLapse` | `LedgerInv`, `RowSteps`, and that a commit writes one event (`OneRowAtATime`) |
| `NoPhantomDeliveryHolds` | `Spec => []NoPhantomDelivery` | the constants' assumptions; leases may lapse | `RowsConsistent`, and that no step removes a row |
| `DuplicatesNeedFaultsHolds` | `Spec => []DuplicatesNeedFaults` | `~LeaseMayLapse`, `~HangingEndpoint` | inductive with `OwnInv` |
| `OutcomeMatchesReceiverHolds` | `Spec => []OutcomeMatchesReceiver` | `~LeaseMayLapse` | `AnswerInv`: an accepted event is delivered, its answer is on the way, or a fault has lost it |
| `ApiRequestsProofs!TypeCorrect` | `Spec => []TypeOK` | the constants' assumptions | `ProgressInv`: types, and what each point of a handler has behind it |
| `IdempotentAnswersHold` | `Spec => []IdempotentAnswers` | the constants' assumptions | `ProgressInv`, `EventInv`: of the events that are committed or inserted by an open transaction no two have one key, and an answer names such an event, unless it was lost |
| `JobsHaveEventsHolds` | `Spec => []JobsHaveEvents` | the same | `JobInv`: which requests have enqueued, and which of those are still open |
| `RefusalsNeedOverlapHolds` | `Spec => []RefusalsNeedOverlap` | the same | `RefusalInv`: past its lookup, a request has the key of no event whose request was over when it was sent; an endpoint named in a call is one whose creation was sent |
| `DeletedEndpointTakesNoEventsHolds` | `Spec => []DeletedEndpointTakesNoEvents` | the same | `DeleteInv`: a committed DELETE leaves its endpoint inactive, and an insert past its check was sent before the DELETE was over. It uses that a PATCH which writes never commits (`undone_patch`): once that is mended, the theorem's exception is needed and its proof changes |
| `CircuitBreakerProofs!TypeCorrect` | `Spec => []TypeOK` | the same | inductive as it stands; the sequence `ages` is the hard part |
| `OpenHasTimestampHolds` | `Spec => []OpenHasTimestamp` | the same | `StampInv`: the property, and that `opened_age` is an age or no stamp |
| `CountedFailuresAreRecent` | `Spec => []ChainInv` | the same | `ChainInv`: the failures counted are a chain, each within a window of the one before, and the key's TTL tells the age of the newest |
| `OpensOnEvidenceHolds` | `Spec => OpensOnEvidence` | the same; any clients, deaths | `CountInv`: until something is left over, the key counts no more than has been recorded since the circuit closed; `CallInv`: what a call has been told still stands unless a recovery has overlapped it |
| `NotBeforePromisedHolds` | `Spec => NotBeforePromised` | the constants' assumptions | `DelayIsBackoff`: the delay computed is the documented backoff; `DateInv`: a row's date and a queued job are not before the promise |
| `NextAttemptIsTimelyHolds` | `Spec => []NextAttemptIsTimely` | the same | `DateInv`: a row's date is within the promise, and the poller has not turned since both the promise and arq's result were over |
| `SignatureHoldsAlways` | `Spec => []SignatureHolds` | the same | `SignInv`: the header was signed when the last attempt started, and a running attempt is no older than `job_timeout` |
| `StatsAreCoherentHolds` | `Spec => []StatsAreCoherent` | the same | `WorldInv`, `HandlerInv`, `StatsInv` |
| `DetailIsCoherentHolds` | `Spec => []DetailIsCoherent` | the same | `WorldInv`, `DetailInv` |
| `BrowsingMissesNothingHolds` | `Spec => []BrowsingMissesNothing` | the same | `WorldInv`, `BrowsingInv` |
| `OpenCircuitsAreListedHolds` | `Spec => []OpenCircuitsAreListed` | the same | `CircuitsInv`: a circuit open all the while is in the answer or its key still to be read, and one in the answer was open at some time |
| `NoLockCycleHolds` | `Spec => []NoLockCycle` | `Entries # {}` | `LockInv`: a bulk replay holds only rows older than the one it wants |
| `DiscardIsFinalHolds` | `Spec => DiscardIsFinal` | `Entries # {}` | `HeldInv`: locked rows are present and locked by one request |
| `ReplayLedgerHolds`, `DeadLetterReplayProofs!TypeCorrect` | `Spec => []ReplayLedger`, `Spec => []TypeOK` | `Entries # {}`, finitely many requests | `LedgerInv`: no session has loaded a count above the replays made, and a request commits its replays once |
| `GuardYieldsOnlyToOverlapHolds` | `Spec => GuardYieldsOnlyToOverlap` | the same | `GuardInv`: what is written was let through by the guard as it was loaded, and a recent replay is a counted one |

The invariants as stated are not inductive. `NoEventStranded` follows from the rows alone,
but a step writes them from a copy: what must be carried along is how an old copy may
differ from the row. If leases lapse, a second worker may have moved the row on; that it can
never be back at `pending` is enough, because SQLAlchemy leaves a `failed` it loaded as
`failed` unwritten. `SettledIsFinal` needs more: that the copy is not stale at all, which
only the exclusive job id gives, hence `~LeaseMayLapse`. `delivery_lapsed_lease` checks what
holds without that assumption. `NoLockCycle` is a statement about two requests and does not
mention order; its invariant is the order itself.

Everything about the books follows from one lemma, `RowSteps`: in a state where jobs are
owned, a step leaves the rows of an event alone, accepts it or puts it off, gives it up, or
logs attempt `attempt_count + 1` with its outcome. `SettledIsFinal`, the ledger, the audit log,
the bound on attempts and the refinement read it off. `DuplicatesNeedFaults` needs
`~HangingEndpoint` because a job that times out is otherwise neither counted as an attempt nor
as a fault: the counterexample of `hanging_endpoint` seen from another side.

`ReplayLedger` is about increments that get lost: `mark_replayed` adds 1 to what its session
loaded. Carrying along that no session loaded more than there were replays at the time, and
that replays only grow in number, bounds what any of them can write; that the sum is at least
1 is the other half. `IdempotentAnswers` rests on the unique column, not on the lookup: the
lookup only turns the second answer into the first one's event.

The stamp theorem holds because the code writes OPEN with `opened_at`, and removes it with
CLOSED, in one pipeline each; the invariant adds only that an age is a number, which keeps
`Tick` from turning a stamp into its absence.

`Entries # {}` is there because the initial `current` names some entry; finitely many requests,
because replays are counted by a cardinality.

`RefusalsNeedOverlap` is about an error the handler does not mean to give. Its invariant says
where everything that a request may run into comes from: whoever holds the key was not over
when the refused request was sent, or the lookup would have found its event.

`OpensOnEvidence` allows the two ways in which failures from before a recovery open a closed
circuit: a call that overlapped the recovery acts on a count or a state from before it, and a
client that dies between writing CLOSED and deleting the count leaves it to be counted on. Its
invariant says that there is no third way. It speaks of failures since the circuit closed, not
of 60 s: `CountedFailuresAreRecent` is what holds of their ages.

A failure in the audit log is an attempt row that is never removed, so what the breaker may have
counted (`BreakerMatchesLog`) only moves: from a slot that has recorded it to the log with the
commit, or to `faults` when a crash or a rollback takes the row away.

The waits of `AttemptSchedule` are powers. That the computed delay is the documented one for
every attempt (`DelayIsBackoff`) is an induction over the attempts; since the library's rule
for it takes an operator as a parameter, it is done with the least counterexample
(`LeastNumber`, from the well-foundedness of the naturals as a statement about sets). The rest
is bookkeeping of dates: the row's `next_retry_at`, arq's result and the poller's next turn, each
between the promise and what the periods add to it.

A view is coherent because of the *order* in which its handler reads. `StatsInv` says of each
number already read that what it counts has since only grown, or been moved to where a later
statement will find it, or been removed in plain sight: `/stats` counts statuses before DLQ
entries, and an entry comes with its event's status in one commit. The same holds of a detail:
the event first, its attempts after. Browsing by OFFSET needs an invariant that relates the row
numbers before and after a change: each row missing so far that stands before the offset has
been pushed there by a removal (`InsertKeepsOrder`, `RemoveKeepsOrder`), for an insertion only
pushes rows further back, where a later page finds them. None of it assumes that there are
finitely many rows: that those present are finite in number is part of `WorldInv`.

With these, every safety and step property that a passing run checks is a theorem. Only
model-checked is liveness (`EventuallySettled`, `OpenIsTemporary`, `RecoversForGood`,
`EveryCallEnds`, `ReplaysAreServed`, `EveryRequestEnds`): it rests on fairness, hence on
ENABLED, which is out of the prover's reach.

## 5. What the checks say about the code

Besides the four counterexamples, modelling met behaviour that the properties are worded
around, because no sentence of the repository denies it:

* "5 failures in 60s" (README) is not what opens a circuit: `record_failure` renews the failures
  key's TTL with every failure, so five failures, each within 60 s of the one before, open it
  though they lie up to four minutes apart. `CountedFailuresAreRecent` proves that chain and
  nothing shorter; no run repeats the disagreement.
* A client may open a closed circuit on failures from before a recovery that its call has
  overlapped, or that a client which died before deleting the count has left behind: the
  exceptions of `OpensOnEvidence`.
* An event may be posted with the empty idempotency key. It is stored but never looked up, so
  every later POST with it is answered with 500: the exception of `RefusalsNeedOverlap`.
* Two overlapping replays of an entry both get past the one-hour guard, and one increment of
  `replay_count` is lost. A bulk replay also takes entries that have been replayed: its query
  `get_unreplayed_by_filter` does not look at `replay_count`.
* A duplicate POST that overlaps the first one is answered with 500 instead of the event.
* `Retry-After` is read on a 429 only, is not capped, 0 counts as absent and a negative value
  schedules the retry in the past; the jitter is added after the cap.
* A job that a dead worker left behind runs without regard to `next_retry_at`, and an open
  circuit may then replace the date by an earlier one.
* Entries of equal `dead_lettered_at` have no order in the listing, `SCAN` may yield a circuit
  twice, `size=0` and a page below 1 are answered with 500, and
  `RETRY_POLL_INTERVAL_SECONDS` is read by nothing.

`UpdateEndpoint` in `DeliveryPipeline` lets a PATCH take effect, although one that changes
something is rolled back today (`undone_patch`): an over-approximation, so that the pipeline's
properties do not rest on that failure.

## 6. What is not modelled

Abstracted: payloads, headers, response bodies and latencies; in the pipeline the times
themselves (an event is due or it is not); lock cycles of more than two requests; rates and
averages of the statistics; the columns of an endpoint that no handler branches on (one number).

Left out, with the reason:

* `get_endpoint` and `list_endpoints`: one statement, and the two-statement listing whose
  hazards `OperatorViews` has for the other listings.
* Health: pings both stores and keeps nothing.
* `main.py`, `middleware.py`, logging, CORS, exception handlers: no state; what an exception
  does to a session is in the models (`RollBack`, `Abort`, `Fail`).
* The migration as a step, indexes and cascades: nothing deletes a parent row.
* The validation of requests and settings: the models' calls and constants range over what
  passes it.

What could come next: the pipeline over `CircuitBreakerRedis` instead of whole breaker calls,
and that the latter with one client implements `CircuitBreaker`; lock cycles of more than two
requests.
