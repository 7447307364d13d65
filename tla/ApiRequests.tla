---------------------------- MODULE ApiRequests ----------------------------
(***************************************************************************)
(* The requests of api/v1/events.py and api/v1/endpoints.py that write:    *)
(* POST /events, POST, PATCH and DELETE /endpoints, rotate-secret.  Each   *)
(* runs in a transaction of its own (get_db), cut at the awaits others can *)
(* observe: the reads, the flush, the enqueue, the answer, the commit.     *)
(* get_db commits when the answer has been sent; an exception before that, *)
(* also one raised while the answer is serialized, rolls back.             *)
(*                                                                         *)
(* A request is named by its place in the order of arrival, an event or an *)
(* endpoint by the request that created it; endpoint 0 is older than all   *)
(* of them.  Bodies are reduced to what the handlers branch on.            *)
(***************************************************************************)
EXTENDS Naturals, FiniteSets

CONSTANTS
    RequestCount,  \* how many requests arrive
    Keys,          \* idempotency keys
    EmptyKey,      \* the key "", which the schema admits
    NoKey,         \* the request has none
    Bodies,        \* what a PATCH may set: is_active and the other columns
    Null,          \* a column the PATCH leaves out, or sets to null
    MaxFaults      \* bound on the requests that meet a fault

Requests == 1..RequestCount

Endpoints == 0..RequestCount

ASSUME ApiAssumption ==
    /\ RequestCount \in Nat
    /\ NoKey \notin Keys /\ EmptyKey \in Keys
    /\ Null \notin BOOLEAN \cup Nat
    /\ Bodies \subseteq [is_active : BOOLEAN \cup {Null}, settings : Nat \cup {Null}]
    /\ MaxFaults \in Nat

VARIABLES
    endpoint,   \* webhook_endpoints: the committed rows
    events,     \* webhook_events: the committed events
    jobs,       \* events for which a job has been enqueued
    pc, call,   \* per request: where its handler is, and what it was asked
    copy,       \* per request: the endpoint as it has loaded it
    wrote,      \* per request: has it written what is not yet committed?
    answer,     \* per request: the status code (0: none yet), and the event in it
    committed,  \* history: requests whose transaction has committed
    before,     \* history: requests that were over when this one was sent
    broken      \* history: requests that met a fault

tables == <<endpoint, events>>
handler == <<pc, call, copy, wrote, answer>>
vars == <<tables, jobs, handler, committed, before, broken>>

-----------------------------------------------------------------------------
EndpointRows ==
    [present : BOOLEAN, is_active : BOOLEAN, settings : Nat, secret : Endpoints]

NewEndpoint(secret) ==
    [present |-> TRUE, is_active |-> TRUE, settings |-> 0, secret |-> secret]

NoEndpoint == [present |-> FALSE, is_active |-> FALSE, settings |-> 0, secret |-> 0]

Operations == {"create_event", "create_endpoint", "patch", "delete", "rotate"}

NoBody == [is_active |-> Null, settings |-> Null]

(* listed: the endpoint's filter is empty or has the event's type. *)
Calls ==
    [op : Operations \cup {"none"}, endpoint : Endpoints, key : Keys \cup {NoKey},
     listed : BOOLEAN, body : Bodies \cup {NoBody}]

NoCall ==
    [op |-> "none", endpoint |-> 0, key |-> NoKey, listed |-> TRUE, body |-> NoBody]

Steps == {"new", "lookup", "check", "insert", "enqueue", "load", "write",
          "respond", "commit", "done"}

(* Rows, handlers and answers have their types. *)
TypeOK ==
    /\ endpoint \in [Endpoints -> EndpointRows]
    /\ events \subseteq Requests
    /\ jobs \subseteq Requests
    /\ pc \in [Requests -> Steps]
    /\ call \in [Requests -> Calls]
    /\ copy \in [Requests -> EndpointRows]
    /\ wrote \in [Requests -> BOOLEAN]
    /\ answer \in [Requests -> [code : {0, 200, 201, 204, 404, 422, 500},
                                event : Endpoints]]
    /\ committed \subseteq Requests
    /\ before \in [Requests -> SUBSET Requests]
    /\ broken \subseteq Requests

Init ==
    /\ endpoint = [p \in Endpoints |-> IF p = 0 THEN NewEndpoint(0) ELSE NoEndpoint]
    /\ events = {}
    /\ jobs = {}
    /\ pc = [r \in Requests |-> "new"]
    /\ call = [r \in Requests |-> NoCall]
    /\ copy = [r \in Requests |-> NoEndpoint]
    /\ wrote = [r \in Requests |-> FALSE]
    /\ answer = [r \in Requests |-> [code |-> 0, event |-> 0]]
    /\ committed = {}
    /\ before = [r \in Requests |-> {}]
    /\ broken = {}

Goto(r, step) == pc' = [pc EXCEPT ![r] = step]

Does(r, op) == call[r].op = op

(* MUTANT of RollBack: the session is left open, with its locks. *)
RollBackNothing(r, code) ==
    /\ answer' = [answer EXCEPT ![r].code = code]
    /\ Goto(r, "done")
    /\ UNCHANGED wrote

(* An exception leaves the handler: get_db rolls back, then it is answered. *)
RollBack(r, code) ==
    /\ answer' = [answer EXCEPT ![r].code = code]
    /\ wrote' = [wrote EXCEPT ![r] = FALSE]
    /\ Goto(r, "done")

(* Another transaction has updated the endpoint's row and not ended. *)
RowLocked(r) ==
    \E s \in Requests \ {r} :
        /\ wrote[s]
        /\ call[s].op \in {"patch", "delete", "rotate"}
        /\ call[s].endpoint = call[r].endpoint

SameKey(r, s) ==
    /\ Does(r, "create_event") /\ Does(s, "create_event")
    /\ call[r].key = call[s].key
    /\ call[r].key # NoKey

(* MUTANT of Claimants: the column is not unique. *)
NoClaimants(r) == {}

(* Uncommitted inserts with the same idempotency_key, which is unique. *)
Claimants(r) == {s \in Requests \ {r} : wrote[s] /\ SameKey(r, s)}

-----------------------------------------------------------------------------
(* A client knows endpoint 0, and the endpoints whose creation was answered. *)
Known == {0} \cup {s \in Requests : Does(s, "create_endpoint") /\ answer[s].code = 201}

(* `if data.idempotency_key:` is false of the empty key too: it is not looked *)
(* up, but it goes into the unique column like any other.                    *)
FirstStep(c) ==
    CASE c.op = "create_event" -> IF c.key \in {NoKey, EmptyKey} THEN "check" ELSE "lookup"
      [] c.op \in {"create_endpoint", "delete"} -> "write"
      [] OTHER -> "load"

CallsOf(op) ==
    {c \in Calls :
        /\ c.op = op
        /\ c.endpoint \in Known
        /\ op # "create_event" => c.key = NoKey /\ c.listed
        /\ op = "patch" \/ c.body = NoBody}

Arrive(r) ==
    /\ pc[r] = "new"
    /\ \A s \in Requests : s < r => pc[s] # "new"
    /\ \E op \in Operations : \E c \in CallsOf(op) :
        /\ call' = [call EXCEPT ![r] = c]
        /\ Goto(r, FirstStep(c))
    /\ before' = [before EXCEPT ![r] = {s \in Requests : pc[s] = "done"}]
    /\ UNCHANGED <<tables, jobs, copy, wrote, answer, committed, broken>>

-----------------------------------------------------------------------------
(* POST /events *)

(* MUTANT of WithSameKey: the lookup finds nothing. *)
WithSameKeyNever(r) == {}

WithSameKey(r) == {s \in events : SameKey(r, s)}

(* get_by_idempotency_key: an event that is there already is the answer. *)
FindExisting(r) ==
    /\ pc[r] = "lookup"
    /\ \/ \E s \in WithSameKey(r) :
            /\ answer' = [answer EXCEPT ![r].event = s]
            /\ Goto(r, "respond")
       \/ /\ WithSameKey(r) = {}
          /\ Goto(r, "check")
          /\ UNCHANGED answer
    /\ UNCHANGED <<tables, jobs, call, copy, wrote, committed, before, broken>>

(* MUTANT of CheckEndpoint: is_active is not looked at. *)
CheckPresence(r) ==
    LET row == endpoint[call[r].endpoint] IN
    /\ pc[r] = "check"
    /\ \/ ~row.present /\ RollBack(r, 404)
       \/ row.present /\ ~call[r].listed /\ RollBack(r, 422)
       \/ /\ row.present /\ call[r].listed
          /\ Goto(r, "insert")
          /\ UNCHANGED <<wrote, answer>>
    /\ UNCHANGED <<tables, jobs, call, copy, committed, before, broken>>

CheckEndpoint(r) ==
    LET row == endpoint[call[r].endpoint] IN
    /\ pc[r] = "check"
    /\ \/ ~row.present /\ RollBack(r, 404)
       \/ row.present /\ ~(row.is_active /\ call[r].listed) /\ RollBack(r, 422)
       \/ /\ row.present /\ row.is_active /\ call[r].listed
          /\ Goto(r, "insert")
          /\ UNCHANGED <<wrote, answer>>
    /\ UNCHANGED <<tables, jobs, call, copy, committed, before, broken>>

(* MUTANT of InsertEvent: the job is enqueued before the flush. *)
InsertEnqueued(r) ==
    /\ pc[r] = "insert"
    /\ Claimants(r) = {}
    /\ jobs' = jobs \cup {r}
    /\ \/ \E s \in events : SameKey(r, s) /\ RollBack(r, 500)
       \/ /\ \A s \in events : ~SameKey(r, s)
          /\ wrote' = [wrote EXCEPT ![r] = TRUE]
          /\ answer' = [answer EXCEPT ![r].event = r]
          /\ Goto(r, "enqueue")
    /\ UNCHANGED <<tables, call, copy, committed, before, broken>>

(* The flush of the INSERT waits for a transaction that has inserted the key; *)
(* a committed one makes it fail, with an error the handler does not catch.   *)
InsertEvent(r) ==
    /\ pc[r] = "insert"
    /\ Claimants(r) = {}
    /\ \/ \E s \in events : SameKey(r, s) /\ RollBack(r, 500)
       \/ /\ \A s \in events : ~SameKey(r, s)
          /\ wrote' = [wrote EXCEPT ![r] = TRUE]
          /\ answer' = [answer EXCEPT ![r].event = r]
          /\ Goto(r, "enqueue")
    /\ UNCHANGED <<tables, jobs, call, copy, committed, before, broken>>

EnqueueJob(r) ==
    /\ pc[r] = "enqueue"
    /\ jobs' = jobs \cup {r}
    /\ Goto(r, "respond")
    /\ UNCHANGED <<tables, call, copy, wrote, answer, committed, before, broken>>

-----------------------------------------------------------------------------
(* POST, PATCH and DELETE /endpoints, rotate-secret *)

(* get_by_id, for a PATCH and for rotate-secret. *)
LoadEndpoint(r) ==
    LET row == endpoint[call[r].endpoint] IN
    /\ pc[r] = "load"
    /\ copy' = [copy EXCEPT ![r] = row]
    /\ \/ ~row.present /\ RollBack(r, 404)
       \/ row.present /\ Goto(r, "write") /\ UNCHANGED <<wrote, answer>>
    /\ UNCHANGED <<tables, jobs, call, committed, before, broken>>

(* Columns that are left out, null, or as loaded are not written. *)
Patched(row, loaded, body) ==
    [row EXCEPT
        !.is_active = IF body.is_active \in {Null, loaded.is_active} THEN @
                      ELSE body.is_active,
        !.settings = IF body.settings \in {Null, loaded.settings} THEN @
                     ELSE body.settings]

(* The row as the request's UPDATE leaves it. *)
Updated(row, r) ==
    CASE Does(r, "patch") -> Patched(row, copy[r], call[r].body)
      [] Does(r, "rotate") -> [row EXCEPT !.secret = r]
      [] Does(r, "delete") -> [row EXCEPT !.is_active = FALSE]

CreateEndpoint(r) ==
    /\ pc[r] = "write"
    /\ Does(r, "create_endpoint")
    /\ wrote' = [wrote EXCEPT ![r] = TRUE]
    /\ Goto(r, "respond")
    /\ UNCHANGED <<tables, jobs, call, copy, answer, committed, before, broken>>

(* The flush of a PATCH or of a new secret takes the row lock, if there is *)
(* anything to write.                                                      *)
FlushUpdate(r) ==
    LET changes == Updated(copy[r], r) # copy[r] IN
    /\ pc[r] = "write"
    /\ call[r].op \in {"patch", "rotate"}
    /\ changes => ~RowLocked(r)
    /\ wrote' = [wrote EXCEPT ![r] = changes]
    /\ Goto(r, "respond")
    /\ UNCHANGED <<tables, jobs, call, copy, answer, committed, before, broken>>

(* DELETE is one UPDATE by id: 404 if it has matched no row. *)
Deactivate(r) ==
    /\ pc[r] = "write"
    /\ Does(r, "delete")
    /\ ~RowLocked(r)
    /\ \/ /\ endpoint[call[r].endpoint].present
          /\ wrote' = [wrote EXCEPT ![r] = TRUE]
          /\ Goto(r, "respond")
          /\ UNCHANGED answer
       \/ ~endpoint[call[r].endpoint].present /\ RollBack(r, 404)
    /\ UNCHANGED <<tables, jobs, call, copy, committed, before, broken>>

-----------------------------------------------------------------------------
(* Answers and commits *)

SuccessCode(r) ==
    CASE Does(r, "delete") -> 204
      [] call[r].op \in {"patch", "rotate"} -> 200
      [] OTHER -> 201

(* The UPDATE of an ORM flush leaves updated_at (onupdate) expired, and the *)
(* response has that field: to load it again takes an await which pydantic  *)
(* cannot make, so serializing raises.                                      *)
Unserializable(r) == wrote[r] /\ call[r].op \in {"patch", "rotate"}

Respond(r) ==
    /\ pc[r] = "respond"
    /\ \/ Unserializable(r) /\ RollBack(r, 500)
       \/ /\ ~Unserializable(r)
          /\ answer' = [answer EXCEPT ![r].code = SuccessCode(r)]
          /\ Goto(r, "commit")
          /\ UNCHANGED wrote
    /\ UNCHANGED <<tables, jobs, call, copy, committed, before, broken>>

(* webhook_endpoints after the commit. *)
NewRow(r) ==
    CASE Does(r, "create_endpoint") -> [endpoint EXCEPT ![r] = NewEndpoint(r)]
      [] call[r].op \in {"patch", "rotate", "delete"} ->
            [endpoint EXCEPT ![call[r].endpoint] = Updated(@, r)]
      [] OTHER -> endpoint

Commit(r) ==
    /\ pc[r] = "commit"
    /\ endpoint' = IF wrote[r] THEN NewRow(r) ELSE endpoint
    /\ events' = IF wrote[r] /\ Does(r, "create_event") THEN events \cup {r} ELSE events
    /\ committed' = committed \cup {r}
    /\ wrote' = [wrote EXCEPT ![r] = FALSE]
    /\ Goto(r, "done")
    /\ UNCHANGED <<jobs, call, copy, answer, before, broken>>

(* PostgreSQL or Redis fails, the commit does, or the process dies. *)
Fail(r) ==
    /\ pc[r] \notin {"new", "done"}
    /\ Cardinality(broken) < MaxFaults
    /\ broken' = broken \cup {r}
    /\ RollBack(r, IF pc[r] = "commit" THEN answer[r].code ELSE 500)
    /\ UNCHANGED <<tables, jobs, call, copy, committed, before>>

-----------------------------------------------------------------------------
Step(r) ==
    \/ FindExisting(r)
    \/ CheckEndpoint(r)
    \/ InsertEvent(r)
    \/ EnqueueJob(r)
    \/ LoadEndpoint(r)
    \/ CreateEndpoint(r)
    \/ FlushUpdate(r)
    \/ Deactivate(r)
    \/ Respond(r)
    \/ Commit(r)

Next == \E r \in Requests : Arrive(r) \/ Step(r) \/ Fail(r)

Spec == Init /\ [][Next]_vars

(* A request that has arrived is served; none need arrive. *)
Fairness == \A r \in Requests : WF_vars(Step(r))

FairSpec == Spec /\ Fairness

-----------------------------------------------------------------------------
(* Properties *)

Over(r) == pc[r] = "done"

(* It has ended without a commit: nothing of it is in the database. *)
Lost(r) == Over(r) /\ r \notin committed

Created(r) == Does(r, "create_event") /\ answer[r].code = 201

(* Lookup, unique column and commit together: requests with one idempotency *)
(* key that are answered with an event are answered with the same one,      *)
(* however they overlap, unless an answered event was lost with its commit. *)
IdempotentAnswers ==
    \A r, s \in Requests :
        Created(r) /\ Created(s) /\ SameKey(r, s) =>
            \/ answer[r].event = answer[s].event
            \/ Lost(answer[r].event)
            \/ Lost(answer[s].event)

(* The handler answers a racing duplicate with an error instead of the      *)
(* event, and answers before it commits.  Both are windows of overlap: a     *)
(* repeated POST sent when the first one was over is not refused, nor is an *)
(* endpoint unknown whose creation was over.  The empty key is the          *)
(* exception: never looked up, it is refused for good once an event has it. *)
RefusalsNeedOverlap ==
    \A r \in Requests \ broken :
        /\ Does(r, "create_event") /\ answer[r].code = 500 =>
              \E s \in events :
                  SameKey(r, s) /\ (s \notin before[r] \/ call[r].key = EmptyKey)
        /\ answer[r].code = 404 =>
              \/ call[r].endpoint \notin before[r]
              \/ Lost(call[r].endpoint)

(* The job is enqueued inside the transaction, after the flush: every       *)
(* committed event has had its job, and a job without an event is that of a *)
(* transaction which is open or was broken by a fault.                      *)
JobsHaveEvents ==
    /\ events \subseteq jobs
    /\ \A r \in jobs \ events : ~Over(r) \/ r \in broken

Reactivates(t) == Does(t, "patch") /\ call[t].body.is_active = TRUE

(* DELETE deactivates: no request sent after a DELETE was over creates an   *)
(* event for the endpoint, unless a PATCH has activated it again.           *)
DeletedEndpointTakesNoEvents ==
    \A r \in events : \A s \in before[r] \cap committed :
        Does(s, "delete") /\ call[s].endpoint = call[r].endpoint =>
            \E t \in committed : Reactivates(t) /\ call[t].endpoint = call[r].endpoint

(* Row locks and the unique column make requests wait for each other: each  *)
(* of them ends.                                                            *)
EveryRequestEnds == \A r \in Requests : (pc[r] # "new") ~> Over(r)

(* README "PATCH /api/v1/endpoints/{id} Update endpoint": a PATCH that has   *)
(* met no fault leaves the endpoint as it says.                             *)
UpdatesTakeEffect ==
    \A r \in Requests \ broken :
        Does(r, "patch") /\ Over(r) /\ answer[r].code # 404 => r \in committed

=============================================================================
