------------------------------ MODULE ArqQueue ------------------------------
(***************************************************************************)
(* The arq job queue as WebhookRelay uses it: Redis keys that an API       *)
(* process and several workers share.  One job id "deliver:<event id>" per *)
(* event, so a job is named by its event.  This is a library, modelled     *)
(* from the calls of src/ (enqueue_job with _job_id in api/v1/events.py    *)
(* and worker/tasks.py, WorkerSettings in worker/arq_worker.py, which      *)
(* leaves keep_result and max_tries at arq's defaults).                    *)
(***************************************************************************)
EXTENDS Naturals

CONSTANTS
    Events,     \* the webhook events; each names the job that delivers it
    MaxTries    \* arq's max_tries: how often one enqueued job may be started

ASSUME MaxTriesAssumption == MaxTries \in Nat \ {0}

VARIABLES
    queued,      \* job key and queue entry present
    inProgress,  \* "in progress" key present; it names no owner and has a TTL
    results,     \* result key present (kept for keep_result = 3600 s)
    tries        \* retry counter of the job

arqVars == <<queued, inProgress, results, tries>>

ArqTypeOK ==
    /\ queued \subseteq Events
    /\ inProgress \subseteq Events
    /\ results \subseteq Events
    /\ tries \in [Events -> 0..MaxTries]

ArqInit ==
    /\ queued = {}
    /\ inProgress = {}
    /\ results = {}
    /\ tries = [j \in Events |-> 0]

(* enqueue_job: refused, without an error, while the job or its result is known. *)
EnqueueJob(j) ==
    /\ queued' = queued \cup ({j} \ results)
    /\ UNCHANGED <<inProgress, results, tries>>

(* MUTANT of StartJob: a job in progress may be claimed again. *)
StartJobUnclaimed(j) ==
    /\ j \in queued
    /\ tries[j] < MaxTries
    /\ inProgress' = inProgress \cup {j}
    /\ tries' = [tries EXCEPT ![j] = @ + 1]
    /\ UNCHANGED <<queued, results>>

(* A worker claims a queued job that no other worker has in progress. *)
StartJob(j) ==
    /\ j \in queued \ inProgress
    /\ tries[j] < MaxTries
    /\ inProgress' = inProgress \cup {j}
    /\ tries' = [tries EXCEPT ![j] = @ + 1]
    /\ UNCHANGED <<queued, results>>

(* One MULTI/EXEC: every key of the job goes and its result is written. *)
FinishJob(j) ==
    /\ queued' = queued \ {j}
    /\ inProgress' = inProgress \ {j}
    /\ results' = results \cup {j}
    /\ tries' = [tries EXCEPT ![j] = 0]

(* A job started max_tries times already is failed without running again. *)
DropJob(j) ==
    /\ j \in queued \ inProgress
    /\ tries[j] = MaxTries
    /\ FinishJob(j)

(* A cancelled job (worker shutdown) goes back to the queue. *)
ReleaseJob(j) ==
    /\ inProgress' = inProgress \ {j}
    /\ UNCHANGED <<queued, results, tries>>

(* TTL of the in-progress key. *)
ExpireLease(j) ==
    /\ j \in inProgress
    /\ inProgress' = inProgress \ {j}
    /\ UNCHANGED <<queued, results, tries>>

(* TTL of the result key. *)
ExpireResult(j) ==
    /\ j \in results
    /\ results' = results \ {j}
    /\ UNCHANGED <<queued, inProgress, tries>>

=============================================================================
