-------------------------- MODULE AttemptSchedule --------------------------
(***************************************************************************)
(* When the attempts of one event are made, and what they are signed with: *)
(* deliver() with the delays of services/retry_service.py, the cron job    *)
(* poll_pending_retries and the keys arq keeps for the event's job, against *)
(* a clock.  DeliveryPipeline has the same steps without time; here a run  *)
(* of deliver() is its POST and its conclusion, and the workers are prompt: *)
(* a job that may start does so at once, and cron never misses its second. *)
(***************************************************************************)
EXTENDS RetryStrategy, Signature

CONSTANTS
    InitialDelay,   \* initial_delay_seconds
    Base,           \* retry_backoff_base of the endpoint
    MaxDelay,       \* retry_max_delay_seconds of the endpoint
    MaxRetries,     \* max_retries of the endpoint
    RecoveryTimeout,\* CB_RECOVERY_TIMEOUT_SECONDS
    PollPeriod,     \* cron runs the poller at the seconds 0 and 30
    StaleAge,       \* older_than_seconds of get_stale_pending
    KeepResult,     \* how long arq keeps the result of a job
    JobTimeout,     \* ARQ_JOB_TIMEOUT_SECONDS
    LeaseMargin,    \* what arq adds to it for the in-progress key
    Skew,           \* how far the receiver's clock may be off
    Replies,        \* what the receiver answers, with its Retry-After
    Horizon,        \* bound of the clock
    MaxFaults       \* bound on the workers that die

NoHeader == [kind |-> "none", seconds |-> 0]

(* Retry-After: absent, not a number, a number, one no timedelta can hold. *)
RetryAfters == [kind : {"none", "text", "number", "unusable"}, seconds : Int]

ASSUME ScheduleAssumption ==
    /\ {InitialDelay, Base, MaxDelay, MaxRetries, PollPeriod, JobTimeout} \subseteq Nat \ {0}
    /\ {RecoveryTimeout, StaleAge, KeepResult, LeaseMargin, Skew, Horizon, MaxFaults}
          \subseteq Nat
    /\ Replies \subseteq [code : Nat, retry_after : RetryAfters]

VARIABLES
    now,            \* the clock
    event,          \* its row: status, attempt_count, next_retry_at
    job,            \* its job in arq: none, queued, running
    lease_until,    \* until when the job's in-progress key lives
    result_until,   \* when the result key expires
    polled,         \* has cron run the poller at this tick?
    header,         \* the signature of the last POST
    started,        \* when that POST was made
    orphaned,       \* history: has a dead worker left the job behind since the
                    \* last attempt that was put down as failed?
    promise,        \* history: the times between which the next attempt is due
    faults

arq == <<job, lease_until, result_until, orphaned>>
post == <<header, started>>
vars == <<now, event, arq, polled, post, promise, faults>>

Secret == "secret"

Payload == "payload"

Least(a, b) == IF a < b THEN a ELSE b

Most(a, b) == IF a < b THEN b ELSE a

Unsent == [parsed |-> FALSE, t |-> 0, v1 |-> Hmac(Secret, 0, Payload)]

-----------------------------------------------------------------------------
(* services/retry_service.py *)

(* base ** n, for the exponents that occur. *)
Power[n \in 0..MaxRetries] == IF n = 0 THEN 1 ELSE Base * Power[n - 1]

(* MUTANT of RawDelay: the attempts are counted from 0. *)
RawDelayFromZero(attempt) ==
    Least(IF attempt < 2 THEN InitialDelay \div Base ELSE InitialDelay * Power[attempt - 2],
          MaxDelay)

RawDelay(attempt) == Least(InitialDelay * Power[attempt - 1], MaxDelay)

(* The jitter adds up to a quarter; it may exceed the maximum by that. *)
ComputeDelay(attempt) == RawDelay(attempt)..(RawDelay(attempt) + RawDelay(attempt) \div 4)

(* Retry-After counts for a 429 only, as a float; 0 is taken for none. *)
Overrides(reply) ==
    reply.code = 429 /\ reply.retry_after.kind = "number" /\ reply.retry_after.seconds # 0

(* timedelta overflows, or float gave NaN: next_retry_at raises. *)
Raises(reply) == reply.code = 429 /\ reply.retry_after.kind = "unusable"

NextDelay(attempt, reply) ==
    IF Overrides(reply) THEN {reply.retry_after.seconds} ELSE ComputeDelay(attempt)

(* The documented wait: exponential up to the maximum, doubled attempt by  *)
(* attempt, or what a positive Retry-After says.                           *)
Backoff[n \in 1..MaxRetries] ==
    IF n = 1 THEN Least(InitialDelay, MaxDelay) ELSE Least(Base * Backoff[n - 1], MaxDelay)

Promised(attempt, reply) ==
    IF Overrides(reply)
    THEN [from |-> now + reply.retry_after.seconds, to |-> now + reply.retry_after.seconds]
    ELSE [from |-> now + Backoff[attempt],
          to |-> now + Backoff[attempt] + Backoff[attempt] \div 4]

-----------------------------------------------------------------------------
CreatedAt == 1

(* The event is committed and its job enqueued. *)
Init ==
    /\ now = CreatedAt
    /\ event = [status |-> "pending", attempt_count |-> 0, next_retry_at |-> 0]
    /\ job = "queued"
    /\ lease_until = 0
    /\ result_until = 0
    /\ polled = FALSE
    /\ header = Unsent
    /\ started = 0
    /\ orphaned = FALSE
    /\ promise = [from |-> CreatedAt, to |-> CreatedAt + StaleAge + 1]
    /\ faults = 0

Settled == event.status \in {"delivered", "dead_lettered"}

ThisAttempt == event.attempt_count + 1

(* get_signature_headers reads the clock at every attempt. *)
SignedAt == now

SpendFault ==
    /\ faults < MaxFaults
    /\ faults' = faults + 1

(* arq starts a queued job when nobody holds its in-progress key. *)
Claim ==
    /\ job = "queued"
    /\ now >= lease_until
    /\ lease_until' = now + JobTimeout + LeaseMargin

(* deliver() up to its POST; nothing here asks whether the attempt is due. *)
Post ==
    /\ Claim
    /\ ~Settled
    /\ header' = SignPayload(Payload, Secret, SignedAt)
    /\ started' = now
    /\ job' = "running"
    /\ UNCHANGED <<now, event, result_until, polled, orphaned, promise, faults>>

(* The circuit is open: another time, without an attempt. *)
PutOff ==
    /\ Claim
    /\ ~Settled
    /\ event' = [event EXCEPT !.status = "failed", !.next_retry_at = now + RecoveryTimeout]
    /\ promise' = [promise EXCEPT !.to = now + RecoveryTimeout]
    /\ job' = "ending"
    /\ UNCHANGED <<now, result_until, polled, post, orphaned, faults>>

(* The early return for a settled event. *)
NothingToDo ==
    /\ Claim
    /\ Settled
    /\ job' = "ending"
    /\ UNCHANGED <<now, event, result_until, polled, post, orphaned, promise, faults>>

(* The receiver checks the signature, by its own clock, before it answers. *)
Answers ==
    {IF VerifySignature(Payload, header, Secret, now + skew) THEN reply
     ELSE [code |-> 401, retry_after |-> NoHeader] : skew \in -Skew..Skew, reply \in Replies}

Conclude(reply) ==
    /\ job = "running"
    /\ \/ /\ Succeeded(reply.code)
          /\ event' = [event EXCEPT !.status = "delivered", !.attempt_count = ThisAttempt]
          /\ UNCHANGED <<promise, orphaned>>
       \/ /\ ~Succeeded(reply.code)
          /\ ~ShouldRetry(reply.code, ThisAttempt, MaxRetries)
          /\ event' = [event EXCEPT !.status = "dead_lettered", !.attempt_count = ThisAttempt]
          /\ UNCHANGED <<promise, orphaned>>
       \/ /\ ~Succeeded(reply.code)
          /\ ShouldRetry(reply.code, ThisAttempt, MaxRetries)
          /\ ~Raises(reply)
          /\ \E delay \in NextDelay(ThisAttempt, reply) :
                event' = [status |-> "failed", attempt_count |-> ThisAttempt,
                          next_retry_at |-> now + delay]
          /\ promise' = Promised(ThisAttempt, reply)
          /\ orphaned' = FALSE
       \/ /\ ShouldRetry(reply.code, ThisAttempt, MaxRetries)
          /\ Raises(reply)
          /\ UNCHANGED <<event, promise, orphaned>>
    /\ job' = "ending"
    /\ UNCHANGED <<now, lease_until, result_until, polled, post, faults>>

(* job_timeout cancels the POST; the attempt is rolled back. *)
TimeOut ==
    /\ job = "running"
    /\ now = started + JobTimeout
    /\ SpendFault
    /\ job' = "ending"
    /\ UNCHANGED <<now, event, lease_until, result_until, polled, post, orphaned, promise>>

Finish ==
    /\ job = "ending"
    /\ job' = "none"
    /\ lease_until' = now
    /\ result_until' = now + KeepResult
    /\ UNCHANGED <<now, event, polled, post, orphaned, promise, faults>>

(* The worker dies, before its commit or between the commit and the result: *)
(* the job is still queued, and started again when its key has expired.     *)
Die ==
    /\ job \in {"running", "ending"}
    /\ SpendFault
    /\ job' = "queued"
    /\ orphaned' = TRUE
    /\ UNCHANGED <<now, event, lease_until, result_until, polled, post, promise>>

(* MUTANT of Due: get_stale_pending is not called. *)
DueFailedOnly == event.status = "failed" /\ event.next_retry_at <= now

(* get_due_for_retry and get_stale_pending *)
Due ==
    \/ event.status = "failed" /\ event.next_retry_at <= now
    \/ event.status = "pending" /\ now - CreatedAt > StaleAge

(* arq refuses the job while it is known or its result is kept. *)
Poll ==
    /\ now % PollPeriod = 0
    /\ ~polled
    /\ polled' = TRUE
    /\ job' = IF Due /\ job = "none" /\ now >= result_until THEN "queued" ELSE job
    /\ UNCHANGED <<now, event, lease_until, result_until, orphaned, post, promise, faults>>

(* Time passes when nothing is to be done at once. *)
Tick ==
    /\ now < Horizon
    /\ now % PollPeriod = 0 => polled
    /\ job = "queued" => now < lease_until
    /\ job = "running" => now < started + JobTimeout
    /\ job # "ending"
    /\ now' = now + 1
    /\ polled' = FALSE
    /\ UNCHANGED <<event, arq, post, promise, faults>>

Next ==
    \/ Post \/ PutOff \/ NothingToDo
    \/ \E reply \in Answers : Conclude(reply)
    \/ TimeOut \/ Finish \/ Die
    \/ Poll \/ Tick

Spec == Init /\ [][Next]_vars

-----------------------------------------------------------------------------
(* Properties *)

(* README "Exponential backoff, ... respects Retry-After": no attempt is    *)
(* made before the wait that the last failure promised is over, although    *)
(* deliver() does not look at next_retry_at; only a job that a dead worker  *)
(* has left behind is started again without regard to it, and may put the   *)
(* event off to an earlier date than the one it had.                        *)
NotBeforePromised ==
    [][job' = "running" /\ job = "queued" => now >= promise.from \/ orphaned]_vars

(* And none is late: at the latest one cron period after the promised time, *)
(* or after arq has forgotten the result of the previous run, the event of  *)
(* a failed, put off, cancelled or raising attempt has its job again.       *)
NextAttemptIsTimely ==
    ~Settled /\ job = "none" => now <= Most(promise.to, result_until) + PollPeriod

(* Every attempt is signed anew: however many retries and hours later, a    *)
(* receiver that checks as the README asks accepts the signature until the  *)
(* POST is over, and /inbound/verify does for as long as the tolerance      *)
(* lasts, for this body only, and tells how old it is.                      *)
SignatureHolds ==
    /\ job = "running" /\ JobTimeout + Skew <= Tolerance =>
          \A skew \in -Skew..Skew : VerifySignature(Payload, header, Secret, now + skew)
    /\ \A body \in {Payload, "another"} :
          LET inbound == InboundAnswer(body, header, Secret, now, now) IN
          /\ inbound.valid <=>
                started # 0 /\ body = Payload /\ now - started <= Tolerance
          /\ inbound.age = IF started = 0 THEN -1 ELSE now - started

=============================================================================
