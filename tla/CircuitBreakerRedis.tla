------------------------ MODULE CircuitBreakerRedis ------------------------
(***************************************************************************)
(* services/circuit_breaker.py one Redis command (or one MULTI/EXEC        *)
(* pipeline) at a time, for the breaker of one endpoint.  The clients are  *)
(* job slots of the workers, which ask is_allowed, POST and record the     *)
(* outcome, and API requests that read the state for the statistics or     *)
(* reset it for a replay.  Between any two commands of a client the        *)
(* others may run, time may pass, and the client may die.                  *)
(***************************************************************************)
EXTENDS Integers, Sequences

CONSTANTS
    Workers,            \* job slots that gate, POST and record
    Requests,           \* API requests: statistics, replays
    Outcomes,           \* how a POST may end: subset of {"success", "failure"}
    FailureThreshold,   \* CB_FAILURE_THRESHOLD
    FailureWindow,      \* CB_FAILURE_WINDOW_SECONDS, in ticks
    RecoveryTimeout,    \* CB_RECOVERY_TIMEOUT_SECONDS, in ticks
    MaxCrashes          \* bound on the clients that die in a call

ASSUME BreakerAssumption ==
    /\ Outcomes \subseteq {"success", "failure"}
    /\ FailureThreshold \in Nat \ {0}
    /\ FailureWindow \in Nat \ {0}
    /\ RecoveryTimeout \in Nat
    /\ MaxCrashes \in Nat

Clients == Workers \cup Requests

VARIABLES
    state,        \* cb:<id>:state, or "none"
    failures,     \* cb:<id>:failures, 0 when there is no key; only compared
                  \* with the threshold, so it stops there
    failures_ttl, \* ticks the failures key has left
    opened_age,   \* ticks since the time in cb:<id>:opened_at, or NoStamp
    pc, op,       \* per client: the next command, and in which method
    seen,         \* per client: what get_state has read
    count,        \* per client: the reply to its INCR
    evidence,     \* history: failures recorded since the circuit last closed
    ages,         \* history: ages of the last failures, the newest first
    leftover,     \* history: a client died before it had cleared the failures
    misled,       \* history: clients whose count may hold failures from
                  \* before a recovery, which their call has overlapped
    crashes

redis == <<state, failures, failures_ttl, opened_age>>
client == <<pc, op, seen, count>>
past == <<evidence, ages, leftover>>
vars == <<redis, client, past, misled, crashes>>

NoStamp == -1

CircuitStates == {"closed", "open", "half_open"}

UpTo(limit, n) == IF n < limit THEN n ELSE limit

(* Bound of the history ages: a chain of failures that may add up is younger. *)
AgeCap == (FailureThreshold - 1) * FailureWindow + 1

(* Every key holds what the code puts there, every client is in a method. *)
TypeOK ==
    /\ state \in CircuitStates \cup {"none"}
    /\ failures \in 0..FailureThreshold
    /\ failures_ttl \in 0..FailureWindow
    /\ opened_age \in NoStamp..(RecoveryTimeout + 1)
    /\ pc \in [Clients -> {"idle", "get_state", "get_opened_at", "half_open",
                           "decide", "posting", "clear"}]
    /\ op \in [Clients -> {"none", "gate", "stats", "success", "failure"}]
    /\ seen \in [Clients -> CircuitStates]
    /\ count \in [Clients -> 0..FailureThreshold]
    /\ evidence \in 0..FailureThreshold
    /\ ages \in Seq(0..AgeCap)
    /\ leftover \in BOOLEAN
    /\ misled \subseteq Clients
    /\ crashes \in 0..MaxCrashes

Init ==
    /\ state = "none"
    /\ failures = 0
    /\ failures_ttl = 0
    /\ opened_age = NoStamp
    /\ pc = [c \in Clients |-> "idle"]
    /\ op = [c \in Clients |-> "none"]
    /\ seen = [c \in Clients |-> "closed"]
    /\ count = [c \in Clients |-> 0]
    /\ evidence = 0
    /\ ages = << >>
    /\ leftover = FALSE
    /\ misled = {}
    /\ crashes = 0

Goto(c, step) == pc' = [pc EXCEPT ![c] = step]

(* The method returns; what it knew is forgotten. *)
Return(c) ==
    /\ pc' = [pc EXCEPT ![c] = "idle"]
    /\ op' = [op EXCEPT ![c] = "none"]
    /\ seen' = [seen EXCEPT ![c] = "closed"]
    /\ count' = [count EXCEPT ![c] = 0]
    /\ misled' = misled \ {c}

(* The circuit is closed again: what is being recorded belongs to the past. *)
Recovered ==
    /\ evidence' = 0
    /\ misled' = misled \cup {c \in Clients : op[c] = "failure"}

-----------------------------------------------------------------------------
(* get_state *)

(* MUTANT of GetState: no state key is not read as CLOSED. *)
GetStateRaw(c) ==
    /\ pc[c] = "get_state"
    /\ seen' = [seen EXCEPT ![c] = state]
    /\ Goto(c, IF state = "open" THEN "get_opened_at" ELSE "decide")
    /\ UNCHANGED <<redis, op, count, past, misled, crashes>>

GetState(c) ==
    /\ pc[c] = "get_state"
    /\ seen' = [seen EXCEPT ![c] = IF state = "none" THEN "closed" ELSE state]
    /\ Goto(c, IF state = "open" THEN "get_opened_at" ELSE "decide")
    /\ UNCHANGED <<redis, op, count, past, misled, crashes>>

TimedOut == opened_age # NoStamp /\ opened_age > RecoveryTimeout

GetOpenedAt(c) ==
    /\ pc[c] = "get_opened_at"
    /\ Goto(c, IF TimedOut THEN "half_open" ELSE "decide")
    /\ UNCHANGED <<redis, op, seen, count, past, misled, crashes>>

(* MUTANT of SetHalfOpen: get_state reports HALF_OPEN without storing it. *)
ReportHalfOpen(c) ==
    /\ pc[c] = "half_open"
    /\ seen' = [seen EXCEPT ![c] = "half_open"]
    /\ Goto(c, "decide")
    /\ UNCHANGED <<redis, op, count, past, misled, crashes>>

(* _transition_to(HALF_OPEN): the key is written, whatever it holds by now. *)
SetHalfOpen(c) ==
    /\ pc[c] = "half_open"
    /\ state' = "half_open"
    /\ seen' = [seen EXCEPT ![c] = "half_open"]
    /\ Goto(c, "decide")
    /\ UNCHANGED <<failures, failures_ttl, opened_age, op, count, past, misled, crashes>>

-----------------------------------------------------------------------------
(* is_allowed by a worker, get_state by the statistics endpoint *)

Ask(c) ==
    /\ pc[c] = "idle"
    /\ op' = [op EXCEPT ![c] = IF c \in Workers THEN "gate" ELSE "stats"]
    /\ Goto(c, "get_state")
    /\ UNCHANGED <<redis, seen, count, past, misled, crashes>>

Allowed(c) ==
    /\ pc[c] = "decide" /\ op[c] = "gate"
    /\ seen[c] # "open"
    /\ Goto(c, "posting")
    /\ UNCHANGED <<redis, op, seen, count, past, misled, crashes>>

Answered(c) ==
    /\ pc[c] = "decide"
    /\ \/ op[c] = "stats"
       \/ op[c] = "gate" /\ seen[c] = "open"
    /\ Return(c)
    /\ UNCHANGED <<redis, past, crashes>>

-----------------------------------------------------------------------------
(* record_success *)

RecordSuccess(c) ==
    /\ pc[c] = "posting"
    /\ "success" \in Outcomes
    /\ op' = [op EXCEPT ![c] = "success"]
    /\ Goto(c, "get_state")
    /\ UNCHANGED <<redis, seen, count, past, misled, crashes>>

(* MUTANT of Close: opened_at goes, the state stays. *)
CloseWithoutState(c) ==
    /\ pc[c] = "decide" /\ op[c] = "success"
    /\ seen[c] = "half_open"
    /\ opened_age' = NoStamp
    /\ Recovered
    /\ Goto(c, "clear")
    /\ UNCHANGED <<state, failures, failures_ttl, op, seen, count, ages, leftover,
                   crashes>>

(* _transition_to(CLOSED): state and opened_at in one MULTI/EXEC ... *)
Close(c) ==
    /\ pc[c] = "decide" /\ op[c] = "success"
    /\ seen[c] = "half_open"
    /\ state' = "closed"
    /\ opened_age' = NoStamp
    /\ Recovered
    /\ Goto(c, "clear")
    /\ UNCHANGED <<failures, failures_ttl, op, seen, count, ages, leftover,
                   crashes>>

(* MUTANT of ClearFailures: the failures key is left. *)
KeepFailures(c) ==
    /\ pc[c] = "clear"
    /\ Return(c)
    /\ UNCHANGED <<redis, past, crashes>>

(* ... and the failures key in a command of its own. *)
ClearFailures(c) ==
    /\ pc[c] = "clear"
    /\ failures' = 0
    /\ failures_ttl' = 0
    /\ Return(c)
    /\ leftover' = FALSE
    /\ UNCHANGED <<state, opened_age, evidence, ages, crashes>>

-----------------------------------------------------------------------------
(* record_failure *)

(* The count it will be given may hold failures from before a recovery. *)
CountsThePast == leftover \/ \E c \in Clients : pc[c] = "clear"

(* INCR and EXPIRE in one MULTI/EXEC: each failure renews the whole window. *)
RecordFailure(c) ==
    /\ pc[c] = "posting"
    /\ "failure" \in Outcomes
    /\ failures' = UpTo(FailureThreshold, failures + 1)
    /\ failures_ttl' = FailureWindow
    /\ count' = [count EXCEPT ![c] = failures']
    /\ op' = [op EXCEPT ![c] = "failure"]
    /\ Goto(c, "get_state")
    /\ evidence' = UpTo(FailureThreshold, evidence + 1)
    /\ ages' = SubSeq(<<0>> \o ages, 1, UpTo(FailureThreshold, Len(ages) + 1))
    /\ misled' = IF CountsThePast THEN misled \cup {c} ELSE misled
    /\ UNCHANGED <<state, opened_age, seen, leftover, crashes>>

Trips(c) ==
    \/ seen[c] = "closed" /\ count[c] = FailureThreshold
    \/ seen[c] = "half_open"

(* MUTANT of Open: opened_at is not written. *)
OpenWithoutStamp(c) ==
    /\ pc[c] = "decide" /\ op[c] = "failure"
    /\ Trips(c)
    /\ state' = "open"
    /\ Return(c)
    /\ UNCHANGED <<failures, failures_ttl, opened_age, past, crashes>>

(* _transition_to(OPEN): state and opened_at in one MULTI/EXEC. *)
Open(c) ==
    /\ pc[c] = "decide" /\ op[c] = "failure"
    /\ Trips(c)
    /\ state' = "open"
    /\ opened_age' = 0
    /\ Return(c)
    /\ UNCHANGED <<failures, failures_ttl, past, crashes>>

(* record_success or record_failure finds nothing to change. *)
Recorded(c) ==
    /\ pc[c] = "decide"
    /\ \/ op[c] = "success" /\ seen[c] # "half_open"
       \/ op[c] = "failure" /\ ~Trips(c)
    /\ Return(c)
    /\ UNCHANGED <<redis, past, crashes>>

-----------------------------------------------------------------------------
(* reset, by a replay: the three keys in one MULTI/EXEC *)
Reset(r) ==
    /\ pc[r] = "idle"
    /\ state' = "none"
    /\ failures' = 0
    /\ failures_ttl' = 0
    /\ opened_age' = NoStamp
    /\ Recovered
    /\ leftover' = FALSE
    /\ UNCHANGED <<client, ages, crashes>>

(* A client dies, or its connection does, between two commands. *)
Die(c) ==
    /\ pc[c] # "idle"
    /\ crashes < MaxCrashes
    /\ crashes' = crashes + 1
    /\ Return(c)
    /\ leftover' = (leftover \/ (pc[c] = "clear" /\ failures > 0))
    /\ UNCHANGED <<redis, evidence, ages>>

Tick ==
    /\ opened_age' = IF opened_age = NoStamp THEN NoStamp
                     ELSE UpTo(RecoveryTimeout + 1, opened_age + 1)
    /\ failures_ttl' = IF failures_ttl = 0 THEN 0 ELSE failures_ttl - 1
    /\ failures' = IF failures_ttl' = 0 THEN 0 ELSE failures
    /\ ages' = [i \in 1..Len(ages) |-> UpTo(AgeCap, ages[i] + 1)]
    /\ leftover' = (leftover /\ failures' > 0)
    /\ UNCHANGED <<state, client, evidence, misled, crashes>>

Step(c) ==
    \/ GetState(c) \/ GetOpenedAt(c) \/ SetHalfOpen(c)
    \/ Allowed(c) \/ Answered(c)
    \/ RecordSuccess(c) \/ Close(c) \/ ClearFailures(c)
    \/ RecordFailure(c) \/ Open(c) \/ Recorded(c)

Next ==
    \/ \E c \in Clients : Ask(c) \/ Step(c) \/ Die(c)
    \/ \E r \in Requests : Reset(r)
    \/ Tick

Spec == Init /\ [][Next]_vars

(* Calls end, time passes, and there is always another delivery to gate: an *)
(* event put off by an open circuit comes back through the poller.          *)
Fairness ==
    /\ \A c \in Clients : WF_vars(Step(c))
    /\ \A c \in Workers : WF_vars(Ask(c))
    /\ WF_vars(Tick)

FairSpec == Spec /\ Fairness

-----------------------------------------------------------------------------
(* Properties *)

Closed == state \in {"none", "closed"}

(* get_state returns OPEN for ever when opened_at is missing: no            *)
(* interleaving of the pipelines, and no death between them, leaves the     *)
(* circuit open without the time at which it opened.                        *)
OpenHasTimestamp == state = "open" => opened_age # NoStamp

(* An open circuit lets traffic through again in the end, although nothing  *)
(* but a later call of get_state ever half-opens it.                        *)
OpenIsTemporary == (state = "open") ~> (state # "open")

(* Once failures have stopped the circuit closes and stays closed: a        *)
(* HALF_OPEN written late by a slow reader does not keep it from settling.  *)
RecoversForGood ==
    \/ []<><<\E c \in Workers : RecordFailure(c)>>_vars
    \/ <>[]Closed

(* README "OPEN --(300s timeout)--> HALF_OPEN": not before the timeout of   *)
(* the opening it ends.                                                     *)
OpenHoldsForTimeout ==
    [][state = "open" /\ state' = "half_open" => opened_age > RecoveryTimeout]_vars

(* README "CLOSED --(5 failures ...)--> OPEN": a closed circuit opens on a   *)
(* threshold of failures recorded since it closed.  INCR, get_state and the *)
(* two commands of a recovery interleave: old failures can open it only     *)
(* through a call that overlapped the recovery, or if the client that closed *)
(* it died before it had deleted the count, for as long as that is renewed. *)
(* The README's "in 60s" is not claimed: record_failure renews the window    *)
(* each time, and five failures may be up to four windows apart.            *)
OpensOnEvidence ==
    [][\A c \in Workers : Open(c) /\ Closed =>
          evidence = FailureThreshold \/ c \in misled]_vars

=============================================================================
