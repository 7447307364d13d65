--------------------------- MODULE OperatorViews ---------------------------
(***************************************************************************)
(* The requests that read: GET /stats, /endpoints/{id}/stats, /dlq page by *)
(* page, /events/{id} and its attempts page by page.  None of them is one  *)
(* statement, and READ COMMITTED gives every statement a snapshot of its   *)
(* own, so what an operator sees is put together from several moments.     *)
(*                                                                         *)
(* Meanwhile the events advance by the steps of EventLifecycle, which      *)
(* DeliveryPipeline is shown to implement; what is read besides is next to *)
(* it: the `failed' status, the queue's order, the circuits' states.       *)
(***************************************************************************)
EXTENDS EventLifecycle, FiniteSets, SequencesExt

CONSTANTS
    Endpoints,
    EndpointOf,   \* an event's endpoint
    PageSize,     \* the parameter `size' of the listings
    None          \* no filter, no event

ASSUME ViewsAssumption ==
    /\ EndpointOf \in [Events -> Endpoints]
    /\ RetryLimits \subseteq Nat \ {0}
    /\ PageSize \in Nat \ {0}
    /\ None \notin Events \cup Endpoints

VARIABLES
    failed,    \* waiting events with status `failed'; the others are `pending'
    dlq,       \* dead_letter_events, newest dead_lettered_at first
    circuit,   \* cb:{endpoint}:state, "none" without the key
    asked,     \* what the operator asks for
    step,      \* the next statement of the handler; "idle", or "done": answered
    page,      \* the page asked for
    shown,     \* what has been read for the answer
    since      \* history: what was so when it was asked, and what changed

world == <<phase, tries, failed, dlq, circuit>>
vars == <<world, asked, step, page, shown, since>>

-----------------------------------------------------------------------------
Statuses == {"pending", "failed", "delivered", "dead_lettered"}

(* The status column.  "delivering" is flushed, but never committed. *)
Status(e) ==
    CASE phase[e] = "waiting" -> IF e \in failed THEN "failed" ELSE "pending"
      [] OTHER -> phase[e]

Rows == {e \in Events : phase[e] # "unborn"}

EventsOf(p) == {e \in Rows : p \in {None, EndpointOf[e]}}

Entries(p) == {e \in ToSet(dlq) : p \in {None, EndpointOf[e]}}

(* The attempts of an event, by their numbers; the last may have succeeded. *)
Attempts(e) == 1..tries[e]

Succeeded(e) == IF phase[e] = "delivered" THEN {tries[e]} ELSE {}

OpenCircuits == {p \in Endpoints : circuit[p] = "open"}

Keyed == {p \in Endpoints : circuit[p] # "none"}

Requests ==
    [kind : {"stats"}, endpoint : {None}, event : {None}]
    \cup [kind : {"endpoint_stats"}, endpoint : Endpoints, event : {None}]
    \cup [kind : {"dlq"}, endpoint : Endpoints \cup {None}, event : {None}]
    \cup [kind : {"event", "attempts"}, endpoint : {None}, event : Events]

NoRequest == [kind |-> "none", endpoint |-> None, event |-> None]

Nothing ==
    [counts |-> [s \in Statuses |-> 0], entries |-> 0, latency |-> FALSE,
     items |-> {}, status |-> "none", attempts |-> 0, successes |-> {}]

(* What is there of what is listed page by page. *)
Listing(a) ==
    CASE a.kind = "dlq" -> Entries(a.endpoint)
      [] a.kind = "attempts" -> Attempts(a.event)
      [] OTHER -> {}

(* In which order: ORDER BY dead_lettered_at DESC, ORDER BY attempt_number. *)
Precedes(a, x, y) ==
    IF a.kind = "dlq"
    THEN \E i, j \in DOMAIN dlq : i < j /\ dlq[i] = x /\ dlq[j] = y
    ELSE x < y

Counts(a) == a.kind \in {"stats", "endpoint_stats"}

Now(a) ==
    [events |-> IF Counts(a) THEN EventsOf(a.endpoint) ELSE {},
     listed |-> Listing(a),
     removed |-> 0,
     keyed |-> IF a.kind = "stats" THEN Keyed ELSE {},
     opened |-> IF a.kind = "stats" THEN OpenCircuits ELSE {},
     steady |-> IF a.kind = "stats" THEN OpenCircuits ELSE {}]

Init ==
    /\ LifecycleInit
    /\ failed = {}
    /\ dlq = << >>
    /\ circuit = [p \in Endpoints |-> "none"]
    /\ asked = NoRequest
    /\ step = "idle"
    /\ page = 1
    /\ shown = Nothing
    /\ since = Now(NoRequest)

-----------------------------------------------------------------------------
(* What goes on meanwhile *)

(* dead_lettered_at is the start of the delivery's transaction, which may be *)
(* before that of others which have committed: any place in the order.      *)
Enter(e) == \E i \in 1..Len(dlq) + 1 : dlq' = InsertAt(dlq, i, e)

Advance(e) ==
    /\ \/ Accept(e) /\ UNCHANGED <<failed, dlq>>
       \/ Retry(e) /\ failed' = failed \cup {e} /\ UNCHANGED dlq
       \/ Succeed(e) /\ failed' = failed \ {e} /\ UNCHANGED dlq
       \/ GiveUp(e) /\ failed' = failed \ {e} /\ Enter(e)
    /\ UNCHANGED <<circuit, asked, step, page, shown, since>>

(* The circuit is open: a later date, without an attempt. *)
PutOff(e) ==
    /\ phase[e] = "waiting"
    /\ failed' = failed \cup {e}
    /\ UNCHANGED <<phase, tries, dlq, circuit, asked, step, page, shown, since>>

Discard(e) ==
    /\ \E i \in DOMAIN dlq : dlq[i] = e /\ dlq' = RemoveAt(dlq, i)
    /\ since' = [since EXCEPT !.removed =
                    IF asked.kind = "dlq" /\ e \in Listing(asked) THEN @ + 1 ELSE @]
    /\ UNCHANGED <<phase, tries, failed, circuit, asked, step, page, shown>>

(* Workers and POST .../circuit/reset set the circuit of an endpoint. *)
SetCircuit(p, state) ==
    /\ circuit' = [circuit EXCEPT ![p] = state]
    /\ since' = [since EXCEPT
        !.keyed = IF state = "none" THEN @ \ {p} ELSE @,
        !.opened = IF state = "open" /\ asked.kind = "stats" THEN @ \cup {p} ELSE @,
        !.steady = IF state = "open" THEN @ ELSE @ \ {p}]

(* Any state may follow any other: the pipelines of a circuit's clients are *)
(* acted on after others have moved it (CircuitBreakerRedis).               *)
MoveCircuit(p) ==
    /\ \E state \in {"none", "closed", "open", "half_open"} :
        /\ state # circuit[p]
        /\ SetCircuit(p, state)
    /\ UNCHANGED <<phase, tries, failed, dlq, asked, step, page, shown>>

-----------------------------------------------------------------------------
(* MUTANT of After: the two statistics are read in the opposite order. *)
AfterEntriesFirst(kind, s) ==
    CASE s = "ask" -> CASE kind = "stats" -> "entries"
                        [] kind = "endpoint_stats" -> "statuses"
                        [] kind = "event" -> "row"
                        [] OTHER -> "page"
      [] s = "statuses" -> IF kind = "stats" THEN "circuits" ELSE "latency"
      [] s = "entries" -> "statuses"
      [] s = "latency" -> "state"
      [] s = "row" -> "attempts"
      [] OTHER -> "done"

(* MUTANT of After: the attempts are read before the event's row. *)
AfterAttemptsFirst(kind, s) ==
    CASE s = "ask" -> CASE kind \in {"stats", "endpoint_stats"} -> "statuses"
                        [] kind = "event" -> "attempts"
                        [] OTHER -> "page"
      [] s = "statuses" -> IF kind = "stats" THEN "entries" ELSE "latency"
      [] s = "entries" -> "circuits"
      [] s = "latency" -> "state"
      [] s = "attempts" -> "row"
      [] OTHER -> "done"

(* The order of a handler's statements. *)
After(kind, s) ==
    CASE s = "ask" -> CASE kind \in {"stats", "endpoint_stats"} -> "statuses"
                        [] kind = "event" -> "row"
                        [] OTHER -> "page"
      [] s = "statuses" -> IF kind = "stats" THEN "entries" ELSE "latency"
      [] s = "entries" -> "circuits"
      [] s = "latency" -> "state"
      [] s = "row" -> "attempts"
      [] OTHER -> "done"

Proceed == step' = After(asked.kind, step)

(* An unknown event is a 404. *)
Ask(a) ==
    /\ step = "idle"
    /\ a.event \in Rows \cup {None}
    /\ asked' = a
    /\ step' = After(a.kind, "ask")
    /\ since' = Now(a)
    /\ UNCHANGED <<world, page, shown>>

(* The answer has been read, and what it was put together from is dropped. *)
Leave ==
    /\ step = "done"
    /\ asked' = NoRequest
    /\ step' = "idle"
    /\ page' = 1
    /\ shown' = Nothing
    /\ since' = Now(NoRequest)
    /\ UNCHANGED world

(* count_by_status: one statement, grouped by status. *)
CountStatuses ==
    /\ step = "statuses"
    /\ shown' = [shown EXCEPT !.counts =
        [s \in Statuses |-> Cardinality({e \in EventsOf(asked.endpoint) : Status(e) = s})]]
    /\ Proceed
    /\ UNCHANGED <<world, asked, page, since>>

CountEntries ==
    /\ step = "entries"
    /\ shown' = [shown EXCEPT !.entries = Len(dlq)]
    /\ Proceed
    /\ UNCHANGED <<world, asked, page, since>>

(* MUTANT of IsListed: whatever is not closed. *)
NotClosed(state) == state # "closed"

IsListed(state) == state = "open"

(* get_open_circuits: SCAN yields keys, in some order and perhaps twice; each *)
(* is read when it is yielded.                                               *)
ReadCircuit(p) ==
    /\ step = "circuits"
    /\ p \in Keyed
    /\ since' = [since EXCEPT !.keyed = @ \ {p}]
    /\ shown' = [shown EXCEPT !.items = IF IsListed(circuit[p]) THEN @ \cup {p} ELSE @]
    /\ UNCHANGED <<world, asked, step, page>>

(* SCAN ends: it has yielded the keys that were there all the time. *)
EndScan ==
    /\ step = "circuits"
    /\ since.keyed = {}
    /\ Proceed
    /\ UNCHANGED <<world, asked, page, shown, since>>

(* avg_duration_by_endpoint: over the attempts that have succeeded.  (An     *)
(* average of 0 would be answered as none: durations are rounded to 0.01 ms, *)
(* and no POST is over in half of that.)                                     *)
ReadLatency ==
    /\ step = "latency"
    /\ shown' = [shown EXCEPT !.latency =
        \E e \in EventsOf(asked.endpoint) : Succeeded(e) # {}]
    /\ Proceed
    /\ UNCHANGED <<world, asked, page, since>>

(* get_state: to read a circuit whose timeout is over is to half open it. *)
ReadState ==
    LET p == asked.endpoint IN
    /\ step = "state"
    /\ \/ /\ shown' = [shown EXCEPT !.status = circuit[p]]
          /\ UNCHANGED <<circuit, since>>
       \/ /\ circuit[p] = "open"
          /\ shown' = [shown EXCEPT !.status = "half_open"]
          /\ SetCircuit(p, "half_open")
    /\ Proceed
    /\ UNCHANGED <<phase, tries, failed, dlq, asked, page>>

-----------------------------------------------------------------------------
(* get_with_attempts: selectinload reads the attempts in a second statement. *)
ReadRow ==
    /\ step = "row"
    /\ shown' = [shown EXCEPT !.status = Status(asked.event), !.entries = tries[asked.event]]
    /\ Proceed
    /\ UNCHANGED <<world, asked, page, since>>

ReadAttempts ==
    /\ step = "attempts"
    /\ shown' = [shown EXCEPT !.attempts = tries[asked.event],
                              !.successes = Succeeded(asked.event)]
    /\ Proceed
    /\ UNCHANGED <<world, asked, page, since>>

-----------------------------------------------------------------------------
(* Listings: the page, then how many there are; the client goes on to the   *)
(* next page as long as `pages' says that there is one.                     *)

Before(a, x) == {y \in Listing(a) : Precedes(a, y, x)}

(* OFFSET (page - 1) * size LIMIT size. *)
PageOf(a) ==
    {x \in Listing(a) :
        Cardinality(Before(a, x)) \in (page - 1) * PageSize..page * PageSize - 1}

Pages(total) == (total + PageSize - 1) \div PageSize

ReadPage ==
    /\ step = "page"
    /\ shown' = [shown EXCEPT !.items = @ \cup PageOf(asked)]
    /\ step' = "total"
    /\ UNCHANGED <<world, asked, page, since>>

(* MUTANT of ReadTotal: the total is that of the first page's moment. *)
ReadTotalEarly ==
    /\ step = "total"
    /\ \/ /\ page < Pages(Cardinality(since.listed))
          /\ page' = page + 1
          /\ step' = "page"
       \/ /\ page >= Pages(Cardinality(since.listed))
          /\ step' = "done"
          /\ UNCHANGED page
    /\ UNCHANGED <<world, asked, shown, since>>

ReadTotal ==
    /\ step = "total"
    /\ \/ /\ page < Pages(Cardinality(Listing(asked)))
          /\ page' = page + 1
          /\ step' = "page"
       \/ /\ page >= Pages(Cardinality(Listing(asked)))
          /\ step' = "done"
          /\ UNCHANGED page
    /\ UNCHANGED <<world, asked, shown, since>>

Read ==
    \/ CountStatuses \/ CountEntries \/ EndScan \/ ReadLatency \/ ReadState
    \/ ReadRow \/ ReadAttempts \/ ReadPage \/ ReadTotal
    \/ \E p \in Endpoints : ReadCircuit(p)

(* An answer is looked at when it is given: nothing moves between. *)
Meanwhile ==
    /\ step # "done"
    /\ \/ \E e \in Events : Advance(e) \/ PutOff(e) \/ Discard(e)
       \/ \E p \in Endpoints : MoveCircuit(p)

Next == Meanwhile \/ (\E a \in Requests : Ask(a)) \/ Read \/ Leave

Spec == Init /\ [][Next]_vars

-----------------------------------------------------------------------------
(* Properties *)

Answered(kind) == step = "done" /\ asked.kind = kind

Total == shown.counts["pending"] + shown.counts["failed"]
         + shown.counts["delivered"] + shown.counts["dead_lettered"]

Discarded == {e \in Rows : phase[e] = "dead_lettered"} \ ToSet(dlq)

(* The numbers of /stats are taken at different moments, in an order that   *)
(* keeps them coherent: no event accepted before the request is left out,   *)
(* every event counted as dead lettered has its entry counted, unless that  *)
(* was discarded, and an endpoint that has delivered shows a latency.       *)
StatsAreCoherent ==
    /\ Answered("stats") \/ Answered("endpoint_stats") =>
          Cardinality(since.events) <= Total
    /\ Answered("stats") =>
          shown.counts["dead_lettered"] <= shown.entries + Cardinality(Discarded)
    /\ Answered("endpoint_stats") /\ shown.counts["delivered"] > 0 => shown.latency

(* open_circuits of /stats, put together key by key: a circuit that was open *)
(* all the time is there, and one that was open at no time is not.           *)
OpenCircuitsAreListed ==
    Answered("stats") =>
        /\ since.steady \subseteq shown.items
        /\ shown.items \subseteq since.opened

(* Going through a listing page by page, OFFSET by OFFSET, while entries are *)
(* added anywhere in its order, an operator misses none of those there when  *)
(* he began, but for at most one per entry that was discarded meanwhile.     *)
BrowsingMissesNothing ==
    Answered("dlq") \/ Answered("attempts") =>
        Cardinality((since.listed \cap Listing(asked)) \ shown.items)
            <= since.removed

(* GET /events/{id} reads the event and then its attempts: there are as many *)
(* attempts as attempt_count says, or more, and a delivered event shows the  *)
(* one that succeeded.                                                       *)
DetailIsCoherent ==
    Answered("event") =>
        /\ shown.entries <= shown.attempts
        /\ shown.status = "delivered" => shown.successes # {}

=============================================================================
