------------------------- MODULE ApiRequestsProofs -------------------------
(***************************************************************************)
(* ApiRequests for any number of requests, keys, bodies and faults.        *)
(***************************************************************************)
EXTENDS ApiRequests, TLAPS

(* What a request has written is open between the flush and the commit, and *)
(* it is answered and committed once.                                       *)
Progress(r) ==
    /\ wrote[r] => pc[r] \in {"enqueue", "respond", "commit"}
    /\ pc[r] = "enqueue" => wrote[r]
    /\ pc[r] \notin {"commit", "done"} => answer[r].code = 0
    /\ r \in committed => pc[r] = "done"
    /\ pc[r] \in {"lookup", "check", "insert", "enqueue"} => Does(r, "create_event")
    /\ pc[r] = "load" => call[r].op \in {"patch", "rotate"}
    /\ pc[r] = "write" => ~Does(r, "create_event")
    /\ pc[r] = "new" => before[r] = {}
    /\ \A s \in before[r] : pc[s] = "done"

ProgressInv == TypeOK /\ \A r \in Requests : Progress(r)

(* In the table, or inserted by a transaction that is still open. *)
Kept(r) == r \in events \/ wrote[r]

(* An event that has been answered, or is about to be, is the request's own *)
(* or a committed one with its key.                                         *)
Answering(r) ==
    Does(r, "create_event") /\ (pc[r] \in {"respond", "commit"} \/ answer[r].code = 201)

AnswersOwn(r) == answer[r].event = r /\ (Kept(r) \/ Lost(r))

AnswersExisting(r) ==
    answer[r].event \in events \ {r} /\ SameKey(r, answer[r].event)

EventInv ==
    /\ \A r \in events : r \in committed /\ Does(r, "create_event")
    /\ \A r \in Requests :
          /\ wrote[r] /\ Does(r, "create_event") => answer[r].event = r
          /\ Answering(r) => AnswersOwn(r) \/ AnswersExisting(r)
    /\ \A r, s \in Requests : r # s /\ Kept(r) /\ Kept(s) => ~SameKey(r, s)

(* The job is enqueued between the flush and the answer. *)
JobInv ==
    /\ \A r \in Requests :
          r \in events \/ (wrote[r] /\ Does(r, "create_event") /\ pc[r] # "enqueue")
              => r \in jobs
    /\ \A r \in jobs :
          /\ Does(r, "create_event")
          /\ \/ r \in events
             \/ pc[r] \in {"respond", "commit"} /\ wrote[r]
             \/ pc[r] = "done" /\ r \in broken

(* A DELETE that has matched a row deactivates it for good: nothing that    *)
(* would activate it again is ever committed.                               *)
Deletes(s, p) == s \in committed /\ Does(s, "delete") /\ call[s].endpoint = p

DeleteInv ==
    /\ \A p \in Requests : endpoint[p].present => p \in committed
    /\ \A r \in Requests :
          /\ Does(r, "delete") /\ pc[r] \in {"respond", "commit"} =>
                wrote[r] /\ endpoint[call[r].endpoint].present
          /\ call[r].op \in {"patch", "rotate"} /\ pc[r] = "commit" => ~wrote[r]
    /\ \A r \in Requests, p \in Endpoints :
          Deletes(r, p) => endpoint[p].present /\ ~endpoint[p].is_active
    /\ \A r \in Requests :
          Does(r, "create_event") /\ (pc[r] \in {"insert", "enqueue"} \/ Kept(r)) =>
              \A s \in before[r] : ~Deletes(s, call[r].endpoint)

-----------------------------------------------------------------------------
(* The row a commit leaves has its type. *)
LEMMA UpdatedType ==
  ASSUME TypeOK, NEW r \in Requests, NEW row \in EndpointRows,
         call[r].op \in {"patch", "rotate", "delete"}
  PROVE  Updated(row, r) \in EndpointRows
<1>1. call[r].body \in [is_active : BOOLEAN \cup {Null}, settings : Nat \cup {Null}]
  BY ApiAssumption DEF TypeOK, Calls, NoBody
<1>2. Patched(row, copy[r], call[r].body) \in EndpointRows
  <2> DEFINE active == IF call[r].body.is_active \in {Null, copy[r].is_active}
                       THEN row.is_active ELSE call[r].body.is_active
             settings == IF call[r].body.settings \in {Null, copy[r].settings}
                         THEN row.settings ELSE call[r].body.settings
  <2>1. active \in BOOLEAN /\ settings \in Nat
    BY <1>1 DEF EndpointRows
  <2>2. Patched(row, copy[r], call[r].body)
            = [row EXCEPT !.is_active = active, !.settings = settings]
    BY DEF Patched
  <2> HIDE DEF active, settings
  <2> QED BY <2>1, <2>2 DEF EndpointRows
<1>3. r \in Endpoints
  BY ApiAssumption DEF Requests, Endpoints
<1> QED BY <1>2, <1>3 DEF Updated, Does, EndpointRows

LEMMA NewRowType ==
  ASSUME TypeOK, NEW r \in Requests
  PROVE  NewRow(r) \in [Endpoints -> EndpointRows]
<1>1. r \in Endpoints /\ call[r].endpoint \in Endpoints
  BY ApiAssumption DEF Requests, Endpoints, TypeOK, Calls
<1>2. NewEndpoint(r) \in EndpointRows
  BY <1>1 DEF NewEndpoint, EndpointRows
<1>3. CASE call[r].op \in {"patch", "rotate", "delete"}
  <2>1. Updated(endpoint[call[r].endpoint], r) \in EndpointRows
    BY <1>1, <1>3, UpdatedType DEF TypeOK
  <2>2. NewRow(r) = [endpoint EXCEPT ![call[r].endpoint] =
                        Updated(endpoint[call[r].endpoint], r)]
    BY <1>1, <1>3 DEF NewRow, Does, TypeOK
  <2>3. endpoint \in [Endpoints -> EndpointRows]
    BY DEF TypeOK
  <2> QED BY <1>1, <2>1, <2>2, <2>3
<1>4. CASE call[r].op \notin {"patch", "rotate", "delete"}
  BY <1>1, <1>2, <1>4 DEF NewRow, Does, TypeOK
<1> QED BY <1>3, <1>4

-----------------------------------------------------------------------------
(* Types, and the course of one request *)

LEMMA InitProgress == Init => ProgressInv
<1> SUFFICES ASSUME Init PROVE ProgressInv
  OBVIOUS
<1>1. NewEndpoint(0) \in EndpointRows /\ NoEndpoint \in EndpointRows /\ 0 \in Endpoints
  BY ApiAssumption DEF NewEndpoint, NoEndpoint, EndpointRows, Endpoints
<1>2. NoCall \in Calls
  BY <1>1 DEF NoCall, Calls, Operations
<1>3. TypeOK
  BY <1>1, <1>2 DEF Init, TypeOK, Steps
<1>4. \A r \in Requests : Progress(r)
  BY DEF Init, Progress, Does, NoCall
<1> QED BY <1>3, <1>4 DEF ProgressInv

(* Requests are in Endpoints: an event or endpoint is named by its request. *)
LEMMA RequestsAreEndpoints == Requests \subseteq Endpoints /\ 0 \in Endpoints
  BY ApiAssumption DEF Requests, Endpoints

(* Status codes; 0 before the answer. *)
Codes == {0, 200, 201, 204, 404, 422, 500}

Answers == [code : Codes, event : Endpoints]

(* An answer leaves the event in it alone. *)
LEMMA AnswerType ==
  ASSUME TypeOK, NEW r \in Requests, NEW code \in Codes
  PROVE  [answer EXCEPT ![r].code = code] \in [Requests -> Answers]
<1>1. [answer EXCEPT ![r].code = code]
        = [answer EXCEPT ![r] = [answer[r] EXCEPT !.code = code]]
  OBVIOUS
<1>2. [answer[r] EXCEPT !.code = code] \in Answers
  BY DEF TypeOK, Answers, Codes
<1>3. answer \in [Requests -> Answers]
  BY DEF TypeOK, Answers, Codes
<1> QED BY <1>1, <1>2, <1>3

LEMMA RollBackType ==
  ASSUME TypeOK, NEW r \in Requests, NEW code \in Codes, RollBack(r, code),
         UNCHANGED <<endpoint, events, jobs, call, committed, before>>,
         copy' \in [Requests -> EndpointRows], broken' \subseteq Requests
  PROVE  TypeOK'
<1>1. answer' \in [Requests -> Answers]
  BY AnswerType DEF RollBack
<1> QED BY <1>1 DEF TypeOK, RollBack, Goto, Steps, Answers, Codes

LEMMA StepProgress == ProgressInv /\ [Next]_vars => ProgressInv'
<1> SUFFICES ASSUME ProgressInv, [Next]_vars
             PROVE  ProgressInv'
  OBVIOUS
<1> USE RequestsAreEndpoints DEF ProgressInv
<1>1. ASSUME UNCHANGED vars PROVE ProgressInv'
  BY <1>1 DEF vars, tables, handler, TypeOK, Progress, Does
<1>2. ASSUME NEW r \in Requests, Arrive(r) PROVE ProgressInv'
  <2>1. PICK c \in Calls :
            /\ c.op \in Operations
            /\ call' = [call EXCEPT ![r] = c]
            /\ pc' = [pc EXCEPT ![r] = FirstStep(c)]
    BY <1>2 DEF Arrive, Goto, CallsOf
  <2>2. /\ pc[r] = "new"
        /\ before' = [before EXCEPT ![r] = {s \in Requests : pc[s] = "done"}]
        /\ UNCHANGED <<tables, jobs, copy, wrote, answer, committed, broken>>
    BY <1>2 DEF Arrive
  <2>3. /\ c.op = "create_event" => FirstStep(c) \in {"lookup", "check"}
        /\ c.op \in {"create_endpoint", "delete"} => FirstStep(c) = "write"
        /\ c.op \in {"patch", "rotate"} => FirstStep(c) = "load"
    BY <2>1 DEF FirstStep
  <2>4. TypeOK'
    BY <2>1, <2>2, <2>3 DEF TypeOK, tables, Steps, Operations
  <2>5. \A q \in Requests : Progress(q)'
    BY <2>1, <2>2, <2>3 DEF TypeOK, Progress, Does, Operations
  <2> QED BY <2>4, <2>5
<1>3. ASSUME NEW r \in Requests, FindExisting(r) PROVE ProgressInv'
  <2>1. TypeOK'
    BY <1>3, SMTT(30) DEF FindExisting, Goto, WithSameKey, TypeOK, tables, Steps
  <2>2. \A q \in Requests : Progress(q)'
    BY <1>3 DEF FindExisting, Goto, WithSameKey, TypeOK, Progress, Does
  <2> QED BY <2>1, <2>2
<1>4. ASSUME NEW r \in Requests, CheckEndpoint(r) PROVE ProgressInv'
  <2>1. TypeOK'
    <3>1. CASE RollBack(r, 404) \/ RollBack(r, 422)
      BY <1>4, <3>1, RollBackType DEF CheckEndpoint, TypeOK, tables, Codes
    <3>2. CASE Goto(r, "insert") /\ UNCHANGED <<wrote, answer>>
      BY <1>4, <3>2 DEF CheckEndpoint, Goto, TypeOK, tables, Steps
    <3> QED BY <1>4, <3>1, <3>2 DEF CheckEndpoint
  <2>2. \A q \in Requests : Progress(q)'
    <3>1. /\ pc[r] = "check"
          /\ UNCHANGED <<call, committed, before>>
          /\ \/ /\ wrote' = [wrote EXCEPT ![r] = FALSE]
                /\ pc' = [pc EXCEPT ![r] = "done"]
                /\ \E code \in Codes : answer' = [answer EXCEPT ![r].code = code]
             \/ /\ pc' = [pc EXCEPT ![r] = "insert"]
                /\ UNCHANGED <<wrote, answer>>
      BY <1>4 DEF CheckEndpoint, Goto, RollBack, Codes
    <3> QED BY <3>1 DEF TypeOK, Progress, Does
  <2> QED BY <2>1, <2>2
<1>5. ASSUME NEW r \in Requests, InsertEvent(r) PROVE ProgressInv'
  <2>1. TypeOK'
    <3>1. CASE RollBack(r, 500)
      BY <1>5, <3>1, RollBackType DEF InsertEvent, TypeOK, tables, Codes
    <3>2. CASE /\ wrote' = [wrote EXCEPT ![r] = TRUE]
               /\ answer' = [answer EXCEPT ![r].event = r]
               /\ Goto(r, "enqueue")
      BY <1>5, <3>2 DEF InsertEvent, Goto, TypeOK, tables, Steps
    <3> QED BY <1>5, <3>1, <3>2 DEF InsertEvent
  <2>2. \A q \in Requests : Progress(q)'
    BY <1>5 DEF InsertEvent, Goto, RollBack, TypeOK, Progress, Does
  <2> QED BY <2>1, <2>2
<1>6. ASSUME NEW r \in Requests, EnqueueJob(r) PROVE ProgressInv'
  <2>1. TypeOK'
    BY <1>6 DEF EnqueueJob, Goto, TypeOK, tables, Steps
  <2>2. \A q \in Requests : Progress(q)'
    BY <1>6 DEF EnqueueJob, Goto, TypeOK, Progress, Does
  <2> QED BY <2>1, <2>2
<1>7. ASSUME NEW r \in Requests, LoadEndpoint(r) PROVE ProgressInv'
  <2>1. TypeOK'
    <3>1. copy' \in [Requests -> EndpointRows]
      BY <1>7 DEF LoadEndpoint, TypeOK, Calls
    <3>2. CASE RollBack(r, 404)
      BY <1>7, <3>1, <3>2, RollBackType DEF LoadEndpoint, TypeOK, tables, Codes
    <3>3. CASE Goto(r, "write") /\ UNCHANGED <<wrote, answer>>
      BY <1>7, <3>1, <3>3 DEF LoadEndpoint, Goto, TypeOK, tables, Steps
    <3> QED BY <1>7, <3>2, <3>3 DEF LoadEndpoint
  <2>2. \A q \in Requests : Progress(q)'
    BY <1>7 DEF LoadEndpoint, Goto, RollBack, TypeOK, Progress, Does
  <2> QED BY <2>1, <2>2
<1>8. ASSUME NEW r \in Requests, CreateEndpoint(r) PROVE ProgressInv'
  <2>1. TypeOK'
    BY <1>8 DEF CreateEndpoint, Goto, TypeOK, tables, Steps
  <2>2. \A q \in Requests : Progress(q)'
    BY <1>8 DEF CreateEndpoint, Goto, TypeOK, Progress, Does
  <2> QED BY <2>1, <2>2
<1>9. ASSUME NEW r \in Requests, FlushUpdate(r) PROVE ProgressInv'
  <2>1. TypeOK'
    BY <1>9 DEF FlushUpdate, Goto, TypeOK, tables, Steps
  <2>2. \A q \in Requests : Progress(q)'
    BY <1>9 DEF FlushUpdate, Goto, TypeOK, Progress, Does
  <2> QED BY <2>1, <2>2
<1>10. ASSUME NEW r \in Requests, Deactivate(r) PROVE ProgressInv'
  <2>1. TypeOK'
    <3>1. CASE RollBack(r, 404)
      BY <1>10, <3>1, RollBackType DEF Deactivate, TypeOK, tables, Codes
    <3>2. CASE ~RollBack(r, 404)
      <4>1. /\ wrote' = [wrote EXCEPT ![r] = TRUE]
            /\ pc' = [pc EXCEPT ![r] = "respond"]
            /\ UNCHANGED <<answer, endpoint, events, jobs, call, copy, committed, before, broken>>
        BY <1>10, <3>2 DEF Deactivate, Goto, tables
      <4> QED BY <4>1 DEF TypeOK, Steps
    <3> QED BY <3>1, <3>2
  <2>2. \A q \in Requests : Progress(q)'
    BY <1>10 DEF Deactivate, Goto, RollBack, TypeOK, Progress, Does
  <2> QED BY <2>1, <2>2
<1>11. ASSUME NEW r \in Requests, Respond(r) PROVE ProgressInv'
  <2>1. TypeOK'
    <3>1. CASE RollBack(r, 500)
      BY <1>11, <3>1, RollBackType DEF Respond, TypeOK, tables, Codes
    <3>2. CASE ~RollBack(r, 500)
      <4>1. SuccessCode(r) \in {200, 201, 204}
        BY DEF SuccessCode
      <4>2. answer' = [answer EXCEPT ![r].code = SuccessCode(r)]
        BY <1>11, <3>2 DEF Respond
      <4>3. answer' \in [Requests -> Answers]
        <5>1. SuccessCode(r) \in Codes
          BY <4>1 DEF Codes
        <5>2. [answer EXCEPT ![r].code = SuccessCode(r)] \in [Requests -> Answers]
          BY <5>1, AnswerType
        <5> QED BY <4>2, <5>2
      <4>4. Goto(r, "commit") /\ UNCHANGED wrote
        BY <1>11, <3>2 DEF Respond
      <4> QED BY <1>11, <4>3, <4>4 DEF Respond, Goto, TypeOK, tables, Steps, Answers, Codes
    <3> QED BY <3>1, <3>2
  <2>2. \A q \in Requests : Progress(q)'
    BY <1>11 DEF Respond, Goto, RollBack, SuccessCode, Unserializable, TypeOK, Progress, Does
  <2> QED BY <2>1, <2>2
<1>12. ASSUME NEW r \in Requests, Commit(r) PROVE ProgressInv'
  <2>1. endpoint' \in [Endpoints -> EndpointRows]
    BY <1>12, NewRowType DEF Commit, TypeOK
  <2>2. TypeOK'
    BY <1>12, <2>1 DEF Commit, Goto, TypeOK, Steps
  <2>3. \A q \in Requests : Progress(q)'
    BY <1>12 DEF Commit, Goto, TypeOK, Progress, Does
  <2> QED BY <2>2, <2>3
<1>13. ASSUME NEW r \in Requests, Fail(r) PROVE ProgressInv'
  <2>1. TypeOK'
    <3>1. PICK code \in Codes : RollBack(r, code)
      <4>1. answer[r].code \in Codes /\ 500 \in Codes
        BY DEF TypeOK, Codes
      <4> QED BY <1>13, <4>1 DEF Fail
    <3>2. broken' \subseteq Requests
      BY <1>13 DEF Fail, TypeOK
    <3> QED BY <1>13, <3>1, <3>2, RollBackType DEF Fail, TypeOK, tables
  <2>2. \A q \in Requests : Progress(q)'
    BY <1>13 DEF Fail, RollBack, Goto, TypeOK, Progress, Does
  <2> QED BY <2>1, <2>2
<1> QED BY <1>1, <1>2, <1>3, <1>4, <1>5, <1>6, <1>7, <1>8, <1>9, <1>10, <1>11, <1>12, <1>13 DEF Next, Step

(* Rows, handlers and answers keep their types, whatever the requests do. *)
THEOREM TypeCorrect == Spec => []TypeOK
<1>1. Spec => []ProgressInv
  BY InitProgress, StepProgress, PTL DEF Spec
<1>2. ProgressInv => TypeOK
  BY DEF ProgressInv
<1> QED BY <1>1, <1>2, PTL

-----------------------------------------------------------------------------
(* Events and their keys *)

LEMMA InitEvents == Init => EventInv
  BY DEF Init, EventInv, Kept, Answering, Does, NoCall

LEMMA StepEvents == ProgressInv /\ EventInv /\ [Next]_vars => EventInv'
<1> SUFFICES ASSUME ProgressInv, EventInv, [Next]_vars
             PROVE  EventInv'
  OBVIOUS
<1> USE RequestsAreEndpoints DEF ProgressInv, Kept, Answering, AnswersOwn, AnswersExisting, Lost, Over
<1>1. ASSUME UNCHANGED vars PROVE EventInv'
  BY <1>1 DEF vars, tables, handler, EventInv, Does, SameKey
<1>2. ASSUME NEW r \in Requests, Arrive(r) PROVE EventInv'
  <2>1. PICK c \in Calls :
            /\ c.op \in Operations
            /\ call' = [call EXCEPT ![r] = c]
            /\ pc' = [pc EXCEPT ![r] = FirstStep(c)]
    BY <1>2 DEF Arrive, Goto, CallsOf
  <2>2. pc[r] = "new" /\ UNCHANGED <<events, wrote, answer, committed>>
    BY <1>2 DEF Arrive, tables
  <2>3. FirstStep(c) \in {"lookup", "check", "write", "load"}
    BY DEF FirstStep
  <2>4. r \notin events /\ ~wrote[r] /\ answer[r].code = 0 /\ r \notin committed
    BY <2>2 DEF Progress, EventInv
  <2>5. \A q \in Requests \ {r} : call'[q] = call[q] /\ pc'[q] = pc[q]
    BY <2>1 DEF TypeOK
  <2>6. \A q \in Requests, s \in Requests :
            q # r /\ s # r => (SameKey(q, s) <=> SameKey(q, s)')
    BY <2>5 DEF SameKey, Does
  <2> QED BY <2>1, <2>2, <2>3, <2>4, <2>5, <2>6 DEF EventInv, Does, TypeOK
<1>3. ASSUME NEW r \in Requests, UNCHANGED <<events, call, committed>>,
             \A q \in Requests \ {r} :
                 pc'[q] = pc[q] /\ wrote'[q] = wrote[q] /\ answer'[q] = answer[q],
             wrote'[r] /\ Does(r, "create_event") => wrote[r] /\ answer'[r].event = r,
             Answering(r)' => AnswersOwn(r)' \/ AnswersExisting(r)'
      PROVE  EventInv'
  <2>1. \A q, s \in Requests : SameKey(q, s)' <=> SameKey(q, s)
    BY <1>3 DEF SameKey, Does
  <2>2. \A q \in Requests : Does(q, "create_event")' <=> Does(q, "create_event")
    BY <1>3 DEF Does
  <2>3. \A q \in Requests : Kept(q)' => Kept(q) \/ ~Does(q, "create_event")
    BY <1>3
  <2>4. \A q, s \in Requests : q # s /\ Kept(q)' /\ Kept(s)' => ~SameKey(q, s)
    BY <2>3 DEF EventInv, SameKey
  <2>5. ASSUME NEW q \in Requests
        PROVE  /\ wrote'[q] /\ Does(q, "create_event") => answer'[q].event = q
               /\ Answering(q)' => AnswersOwn(q)' \/ AnswersExisting(q)'
    <3>1. CASE q = r
      BY <1>3, <3>1
    <3>2. CASE q # r
      <4>1. pc'[q] = pc[q] /\ wrote'[q] = wrote[q] /\ answer'[q] = answer[q]
        BY <1>3, <3>2
      <4>2. Answering(q) => AnswersOwn(q) \/ AnswersExisting(q)
        BY DEF EventInv
      <4>3. wrote[q] /\ Does(q, "create_event") => answer[q].event = q
        BY DEF EventInv
      <4>4. UNCHANGED <<events, call, committed>>
        BY <1>3
      <4> QED BY <4>1, <4>2, <4>3, <4>4 DEF SameKey, Does
    <3> QED BY <3>1, <3>2
  <2>6. \A q \in events' : q \in committed' /\ Does(q, "create_event")'
    BY <1>3 DEF EventInv, Does
  <2>7. \A q, s \in Requests : q # s /\ Kept(q)' /\ Kept(s)' => ~SameKey(q, s)'
    BY <2>1, <2>4
  <2>8. \A q \in Requests :
            /\ wrote'[q] /\ Does(q, "create_event")' => answer'[q].event = q
            /\ Answering(q)' => AnswersOwn(q)' \/ AnswersExisting(q)'
    BY <2>2, <2>5
  <2> QED BY <2>6, <2>7, <2>8 DEF EventInv
<1>4. ASSUME NEW r \in Requests, NEW code \in {404, 422, 500}, RollBack(r, code),
             UNCHANGED <<events, call, committed>>
      PROVE  EventInv'
  <2>1. answer'[r].code = code /\ ~wrote'[r] /\ pc'[r] = "done"
    BY <1>4 DEF RollBack, Goto, TypeOK
  <2>2. \A q \in Requests \ {r} :
            pc'[q] = pc[q] /\ wrote'[q] = wrote[q] /\ answer'[q] = answer[q]
    BY <1>4 DEF RollBack, Goto, TypeOK
  <2>3. ~Answering(r)'
    BY <2>1
  <2> QED BY <1>3, <1>4, <2>1, <2>2, <2>3
<1>5. ASSUME NEW r \in Requests, FindExisting(r) PROVE EventInv'
  BY <1>5 DEF FindExisting, Goto, WithSameKey, TypeOK, tables, Progress, EventInv, Does, SameKey
<1>6. ASSUME NEW r \in Requests, CheckEndpoint(r) PROVE EventInv'
  <2>1. pc[r] = "check" /\ UNCHANGED <<events, call, committed>>
    BY <1>6 DEF CheckEndpoint, tables
  <2>2. CASE RollBack(r, 404) \/ RollBack(r, 422)
    BY <1>4, <2>1, <2>2
  <2>3. CASE pc' = [pc EXCEPT ![r] = "insert"] /\ UNCHANGED <<wrote, answer>>
    BY <1>3, <2>1, <2>3 DEF TypeOK, Progress
  <2> QED BY <1>6, <2>2, <2>3 DEF CheckEndpoint, Goto
<1>7. ASSUME NEW r \in Requests, InsertEvent(r) PROVE EventInv'
  <2>1. /\ pc[r] = "insert"
        /\ UNCHANGED <<events, call, committed>>
        /\ \A s \in Requests \ {r} : wrote[s] => ~SameKey(r, s)
    BY <1>7 DEF InsertEvent, Claimants, tables
  <2>2. CASE RollBack(r, 500)
    BY <1>4, <2>1, <2>2
  <2>3. CASE /\ \A s \in events : ~SameKey(r, s)
             /\ wrote' = [wrote EXCEPT ![r] = TRUE]
             /\ answer' = [answer EXCEPT ![r].event = r]
             /\ pc' = [pc EXCEPT ![r] = "enqueue"]
    <3>1. \A q, s \in Requests : SameKey(q, s)' <=> SameKey(q, s)
      BY <2>1 DEF SameKey, Does
    <3>2. \A s \in Requests \ {r} : Kept(s) => ~SameKey(r, s) /\ ~SameKey(s, r)
      BY <2>1, <2>3 DEF SameKey
    <3>3. \A q, s \in Requests : q # s /\ Kept(q)' /\ Kept(s)' => ~SameKey(q, s)
      BY <2>1, <2>3, <3>2 DEF TypeOK, EventInv
    <3>4. answer'[r].event = r /\ answer'[r].code = answer[r].code /\ answer[r].code = 0
      BY <2>1, <2>3 DEF TypeOK, Progress
    <3>5. \A q \in Requests \ {r} :
              pc'[q] = pc[q] /\ wrote'[q] = wrote[q] /\ answer'[q] = answer[q]
      BY <2>3 DEF TypeOK
    <3>6. ASSUME NEW q \in Requests
          PROVE  /\ wrote'[q] /\ Does(q, "create_event") => answer'[q].event = q
                 /\ Answering(q)' => AnswersOwn(q)' \/ AnswersExisting(q)'
      <4>1. CASE q = r
        BY <2>1, <2>3, <3>4, <4>1 DEF TypeOK
      <4>2. CASE q # r
        <5>1. pc'[q] = pc[q] /\ wrote'[q] = wrote[q] /\ answer'[q] = answer[q]
          BY <3>5, <4>2
        <5>2. UNCHANGED <<events, call, committed>>
          BY <2>1
        <5>3. /\ wrote[q] /\ Does(q, "create_event") => answer[q].event = q
              /\ Answering(q) => AnswersOwn(q) \/ AnswersExisting(q)
          BY DEF EventInv
        <5> QED BY <5>1, <5>2, <5>3 DEF SameKey, Does
      <4> QED BY <4>1, <4>2
    <3> QED BY <2>1, <3>1, <3>3, <3>6 DEF EventInv, Does
  <2> QED BY <1>7, <2>2, <2>3 DEF InsertEvent, Goto
<1>8. ASSUME NEW r \in Requests, EnqueueJob(r) PROVE EventInv'
  <2>1. /\ pc[r] = "enqueue"
        /\ pc' = [pc EXCEPT ![r] = "respond"]
        /\ UNCHANGED <<events, call, wrote, answer, committed>>
    BY <1>8 DEF EnqueueJob, Goto, tables
  <2>2. wrote[r] /\ answer[r].event = r
    BY <2>1 DEF Progress, EventInv
  <2> QED BY <1>3, <2>1, <2>2 DEF TypeOK
<1>9. ASSUME NEW r \in Requests, LoadEndpoint(r) PROVE EventInv'
  <2>1. pc[r] = "load" /\ UNCHANGED <<events, call, committed>>
    BY <1>9 DEF LoadEndpoint, tables
  <2>2. CASE RollBack(r, 404)
    BY <1>4, <2>1, <2>2
  <2>3. CASE pc' = [pc EXCEPT ![r] = "write"] /\ UNCHANGED <<wrote, answer>>
    BY <1>3, <2>1, <2>3 DEF TypeOK, Progress
  <2> QED BY <1>9, <2>2, <2>3 DEF LoadEndpoint, Goto
<1>10. ASSUME NEW r \in Requests, CreateEndpoint(r) \/ FlushUpdate(r) \/ Deactivate(r)
       PROVE EventInv'
  <2>1. pc[r] = "write" /\ UNCHANGED <<events, call, committed>>
    BY <1>10 DEF CreateEndpoint, FlushUpdate, Deactivate, tables
  <2>2. ~Does(r, "create_event") /\ ~Does(r, "create_event")'
    BY <2>1 DEF Progress, Does
  <2>3. CASE RollBack(r, 404)
    BY <1>4, <2>1, <2>3
  <2>4. CASE ~RollBack(r, 404)
    <3>1. /\ \E w \in BOOLEAN : wrote' = [wrote EXCEPT ![r] = w]
          /\ pc' = [pc EXCEPT ![r] = "respond"]
          /\ UNCHANGED answer
      BY <1>10, <2>4 DEF CreateEndpoint, FlushUpdate, Deactivate, Goto
    <3> QED BY <1>3, <2>1, <2>2, <3>1 DEF TypeOK
  <2> QED BY <2>3, <2>4
<1>11. ASSUME NEW r \in Requests, Respond(r) PROVE EventInv'
  <2>1. pc[r] = "respond" /\ UNCHANGED <<events, call, committed>>
    BY <1>11 DEF Respond, tables
  <2>2. CASE RollBack(r, 500)
    BY <1>4, <2>1, <2>2
  <2>3. CASE ~RollBack(r, 500)
    <3>1. /\ answer' = [answer EXCEPT ![r].code = SuccessCode(r)]
          /\ pc' = [pc EXCEPT ![r] = "commit"]
          /\ UNCHANGED wrote
      BY <1>11, <2>3 DEF Respond, Goto
    <3>2. /\ answer'[r].event = answer[r].event
          /\ pc'[r] = "commit"
          /\ \A q \in Requests \ {r} : pc'[q] = pc[q] /\ answer'[q] = answer[q]
      BY <3>1 DEF TypeOK
    <3>3. Does(r, "create_event")' <=> Does(r, "create_event")
      BY <2>1 DEF Does
    <3>4. Does(r, "create_event") => AnswersOwn(r) \/ AnswersExisting(r)
      BY <2>1 DEF EventInv
    <3>5. Does(r, "create_event")' => AnswersOwn(r)' \/ AnswersExisting(r)'
      BY <2>1, <3>1, <3>2, <3>3, <3>4 DEF SameKey, Does
    <3>6. wrote'[r] /\ Does(r, "create_event") => wrote[r] /\ answer'[r].event = r
      BY <3>1, <3>2 DEF EventInv
    <3> QED BY <1>3, <2>1, <3>1, <3>2, <3>5, <3>6
  <2> QED BY <2>2, <2>3
<1>12. ASSUME NEW r \in Requests, Commit(r) PROVE EventInv'
  BY <1>12 DEF Commit, Goto, TypeOK, Progress, EventInv, Does, SameKey
<1>13. ASSUME NEW r \in Requests, Fail(r) PROVE EventInv'
  BY <1>13 DEF Fail, RollBack, Goto, TypeOK, tables, Progress, EventInv, Does, SameKey
<1> QED BY <1>1, <1>2, <1>5, <1>6, <1>7, <1>8, <1>9, <1>10, <1>11, <1>12, <1>13 DEF Next, Step

(* An answered event is kept, or lost with its commit, and has the key. *)
LEMMA AnswersAreKept ==
  ASSUME ProgressInv, EventInv, NEW r \in Requests, Created(r), ~Lost(answer[r].event),
         NEW q \in Requests, SameKey(r, q)
  PROVE  /\ answer[r].event \in Requests
         /\ Kept(answer[r].event)
         /\ answer[r].event = r \/ SameKey(r, answer[r].event)
  BY DEF ProgressInv, TypeOK, EventInv, Answering, AnswersOwn, AnswersExisting, Kept, Created

LEMMA EventsGiveIdempotence == ProgressInv /\ EventInv => IdempotentAnswers
<1> SUFFICES ASSUME ProgressInv, EventInv, NEW r \in Requests, NEW s \in Requests,
                    Created(r), Created(s), SameKey(r, s),
                    ~Lost(answer[r].event), ~Lost(answer[s].event)
             PROVE  answer[r].event = answer[s].event
  BY DEF IdempotentAnswers
<1>1. SameKey(s, r)
  BY DEF SameKey
<1>2. /\ answer[r].event \in Requests /\ Kept(answer[r].event)
      /\ answer[r].event = r \/ SameKey(r, answer[r].event)
  BY AnswersAreKept
<1>3. /\ answer[s].event \in Requests /\ Kept(answer[s].event)
      /\ answer[s].event = s \/ SameKey(s, answer[s].event)
  BY <1>1, AnswersAreKept
<1>4. SameKey(answer[r].event, answer[s].event)
  BY <1>2, <1>3 DEF SameKey, Does
<1> QED BY <1>2, <1>3, <1>4 DEF EventInv

(* Lookup, unique column and commit give all requests with one key one event. *)
THEOREM IdempotentAnswersHold == Spec => []IdempotentAnswers
<1>1. ProgressInv /\ EventInv => IdempotentAnswers
  BY EventsGiveIdempotence
<1>2. Spec => [](ProgressInv /\ EventInv)
  BY InitProgress, StepProgress, InitEvents, StepEvents, PTL DEF Spec
<1> QED BY <1>1, <1>2, PTL

LEMMA RollBackEffect ==
  ASSUME NEW r \in Requests, NEW code, RollBack(r, code)
  PROVE  /\ pc' = [pc EXCEPT ![r] = "done"]
         /\ wrote' = [wrote EXCEPT ![r] = FALSE]
  BY DEF RollBack, Goto

-----------------------------------------------------------------------------
(* Events and their jobs *)

LEMMA InitJobs == Init => JobInv
  BY DEF Init, JobInv, Does, NoCall

LEMMA StepJobs == ProgressInv /\ EventInv /\ JobInv /\ [Next]_vars => JobInv'
<1> SUFFICES ASSUME ProgressInv, EventInv, JobInv, [Next]_vars
             PROVE  JobInv'
  OBVIOUS
<1> USE RequestsAreEndpoints DEF ProgressInv
<1>1. ASSUME UNCHANGED vars PROVE JobInv'
  BY <1>1 DEF vars, tables, handler, JobInv, Does
<1>2. ASSUME NEW r \in Requests, Arrive(r) PROVE JobInv'
  <2>1. PICK c \in Calls :
            /\ call' = [call EXCEPT ![r] = c]
            /\ pc' = [pc EXCEPT ![r] = FirstStep(c)]
    BY <1>2 DEF Arrive, Goto, CallsOf
  <2>2. pc[r] = "new" /\ UNCHANGED <<events, jobs, wrote, broken>>
    BY <1>2 DEF Arrive, tables
  <2>3. r \notin events /\ ~wrote[r] /\ r \notin jobs
    BY <2>2 DEF Progress, EventInv, JobInv
  <2>4. \A q \in Requests \ {r} : call'[q] = call[q] /\ pc'[q] = pc[q]
    BY <2>1 DEF TypeOK
  <2> QED BY <2>2, <2>3, <2>4 DEF JobInv, Does, TypeOK
<1>14. ASSUME NEW r \in Requests, NEW code, RollBack(r, code), r \notin jobs,
              UNCHANGED <<events, jobs, call, broken>>
       PROVE  JobInv'
  <2>1. /\ pc' = [pc EXCEPT ![r] = "done"]
        /\ wrote' = [wrote EXCEPT ![r] = FALSE]
    BY <1>14, RollBackEffect
  <2> QED BY <1>14, <2>1 DEF TypeOK, JobInv, Does
<1>3. ASSUME NEW r \in Requests, FindExisting(r) PROVE JobInv'
  BY <1>3 DEF FindExisting, Goto, WithSameKey, TypeOK, tables, Progress, EventInv, JobInv, Does
<1>4. ASSUME NEW r \in Requests, CheckEndpoint(r) PROVE JobInv'
  <2>1. /\ pc[r] = "check"
        /\ UNCHANGED <<events, jobs, call, broken>>
    BY <1>4 DEF CheckEndpoint, tables
  <2>2. r \notin jobs
    BY <2>1 DEF JobInv, EventInv, Progress
  <2>3. CASE RollBack(r, 404) \/ RollBack(r, 422)
    BY <1>14, <2>1, <2>2, <2>3
  <2>4. CASE pc' = [pc EXCEPT ![r] = "insert"] /\ UNCHANGED wrote
    BY <2>1, <2>2, <2>4 DEF TypeOK, JobInv, Does, Progress
  <2> QED BY <1>4, <2>3, <2>4 DEF CheckEndpoint, Goto
<1>5. ASSUME NEW r \in Requests, InsertEvent(r) PROVE JobInv'
  <2>1. /\ pc[r] = "insert"
        /\ UNCHANGED <<events, jobs, call, broken>>
    BY <1>5 DEF InsertEvent, tables
  <2>2. r \notin jobs
    BY <2>1 DEF JobInv, EventInv, Progress
  <2>3. CASE RollBack(r, 500)
    BY <1>14, <2>1, <2>2, <2>3
  <2>4. CASE /\ pc' = [pc EXCEPT ![r] = "enqueue"]
             /\ wrote' = [wrote EXCEPT ![r] = TRUE]
    BY <2>1, <2>2, <2>4 DEF TypeOK, JobInv, Does
  <2> QED BY <1>5, <2>3, <2>4 DEF InsertEvent, Goto
<1>6. ASSUME NEW r \in Requests, EnqueueJob(r) PROVE JobInv'
  BY <1>6 DEF EnqueueJob, Goto, TypeOK, tables, Progress, EventInv, JobInv, Does
<1>7. ASSUME NEW r \in Requests, LoadEndpoint(r) PROVE JobInv'
  <2>1. /\ pc[r] = "load"
        /\ UNCHANGED <<events, jobs, call, broken>>
    BY <1>7 DEF LoadEndpoint, tables
  <2>2. r \notin jobs
    BY <2>1 DEF JobInv, EventInv, Progress
  <2>3. CASE RollBack(r, 404)
    BY <1>14, <2>1, <2>2, <2>3
  <2>4. CASE pc' = [pc EXCEPT ![r] = "write"] /\ UNCHANGED wrote
    BY <2>1, <2>2, <2>4 DEF TypeOK, JobInv, Does, Progress
  <2> QED BY <1>7, <2>3, <2>4 DEF LoadEndpoint, Goto
<1>8. ASSUME NEW r \in Requests, CreateEndpoint(r) PROVE JobInv'
  BY <1>8 DEF CreateEndpoint, Goto, TypeOK, tables, Progress, EventInv, JobInv, Does
<1>9. ASSUME NEW r \in Requests, FlushUpdate(r) PROVE JobInv'
  BY <1>9 DEF FlushUpdate, Goto, TypeOK, tables, Progress, EventInv, JobInv, Does
<1>10. ASSUME NEW r \in Requests, Deactivate(r) PROVE JobInv'
  <2>1. /\ pc[r] = "write" /\ Does(r, "delete")
        /\ UNCHANGED <<events, jobs, call, broken>>
    BY <1>10 DEF Deactivate, tables
  <2>2. r \notin jobs
    BY <2>1 DEF JobInv, EventInv, Progress
  <2>3. CASE RollBack(r, 404)
    BY <1>14, <2>1, <2>2, <2>3
  <2>4. CASE /\ pc' = [pc EXCEPT ![r] = "respond"]
             /\ wrote' = [wrote EXCEPT ![r] = TRUE]
    BY <2>1, <2>2, <2>4 DEF TypeOK, JobInv, Does
  <2> QED BY <1>10, <2>3, <2>4 DEF Deactivate, Goto
<1>11. ASSUME NEW r \in Requests, Respond(r) PROVE JobInv'
  <2>1. /\ pc[r] = "respond"
        /\ UNCHANGED <<events, jobs, call, broken>>
    BY <1>11 DEF Respond, tables
  <2>2. CASE Unserializable(r) /\ RollBack(r, 500)
    <3>1. r \notin jobs
      BY <2>2 DEF Unserializable, JobInv, Does
    <3> QED BY <1>14, <2>1, <2>2, <3>1
  <2>3. CASE pc' = [pc EXCEPT ![r] = "commit"] /\ UNCHANGED wrote
    BY <2>1, <2>3 DEF TypeOK, JobInv, Does
  <2> QED BY <1>11, <2>2, <2>3 DEF Respond, Goto
<1>12. ASSUME NEW r \in Requests, Commit(r) PROVE JobInv'
  BY <1>12 DEF Commit, Goto, TypeOK, tables, Progress, EventInv, JobInv, Does
<1>13. ASSUME NEW r \in Requests, Fail(r) PROVE JobInv'
  BY <1>13, RollBackEffect DEF Fail, Goto, TypeOK, tables, Progress, EventInv, JobInv, Does
<1> QED BY <1>1, <1>2, <1>3, <1>4, <1>5, <1>6, <1>7, <1>8, <1>9, <1>10, <1>11, <1>12, <1>13 DEF Next, Step

(* No event is committed without a job, and only a fault leaves a job        *)
(* without its event.                                                       *)
THEOREM JobsHaveEventsHolds == Spec => []JobsHaveEvents
<1>1. ProgressInv /\ JobInv => JobsHaveEvents
  BY DEF ProgressInv, TypeOK, JobInv, JobsHaveEvents, Over, Does
<1>2. Spec => [](ProgressInv /\ EventInv /\ JobInv)
  BY InitProgress, StepProgress, InitEvents, StepEvents, InitJobs, StepJobs, PTL DEF Spec
<1> QED BY <1>1, <1>2, PTL

-----------------------------------------------------------------------------
(* Endpoints and their DELETE *)

LEMMA InitDeletes == Init => DeleteInv
  BY RequestsAreEndpoints, ApiAssumption
     DEF Init, DeleteInv, Deletes, Kept, Does, NoCall, NoEndpoint, NewEndpoint, Requests

LEMMA StepDeletes == ProgressInv /\ EventInv /\ DeleteInv /\ [Next]_vars => DeleteInv'
<1> SUFFICES ASSUME ProgressInv, EventInv, DeleteInv, [Next]_vars
             PROVE  DeleteInv'
  OBVIOUS
<1> USE RequestsAreEndpoints DEF ProgressInv, Kept, Deletes
<1>1. ASSUME UNCHANGED vars PROVE DeleteInv'
  BY <1>1 DEF vars, tables, handler, DeleteInv, Does
<1>2. ASSUME NEW r \in Requests, Arrive(r) PROVE DeleteInv'
  <2>1. PICK c \in Calls :
            /\ call' = [call EXCEPT ![r] = c]
            /\ pc' = [pc EXCEPT ![r] = FirstStep(c)]
    BY <1>2 DEF Arrive, Goto, CallsOf
  <2>2. /\ pc[r] = "new"
        /\ before' = [before EXCEPT ![r] = {s \in Requests : pc[s] = "done"}]
        /\ UNCHANGED <<endpoint, events, wrote, committed>>
    BY <1>2 DEF Arrive, tables
  <2>3. FirstStep(c) \in {"lookup", "check", "write", "load"}
    BY DEF FirstStep
  <2>4. r \notin events /\ ~wrote[r] /\ r \notin committed
    BY <2>2 DEF Progress, EventInv
  <2>5. \A q \in Requests \ {r} :
            /\ call'[q] = call[q] /\ pc'[q] = pc[q]
            /\ before'[q] = before[q] /\ r \notin before[q]
    BY <2>1, <2>2 DEF TypeOK, Progress
  <2>6. ~Kept(r)' /\ pc'[r] \notin {"insert", "enqueue", "respond", "commit"}
    BY <2>1, <2>2, <2>3, <2>4 DEF TypeOK
  <2>7. \A s \in Requests, p \in Endpoints : Deletes(s, p)' => Deletes(s, p)
    BY <2>2, <2>4, <2>5 DEF Does
  <2>8. \A q \in Requests :
            /\ Does(q, "delete")' /\ pc'[q] \in {"respond", "commit"} =>
                  wrote'[q] /\ endpoint'[call'[q].endpoint].present
            /\ call'[q].op \in {"patch", "rotate"} /\ pc'[q] = "commit" => ~wrote'[q]
    BY <2>2, <2>5, <2>6 DEF DeleteInv, Does
  <2>9. ASSUME NEW q \in Requests,
               Does(q, "create_event")', pc'[q] \in {"insert", "enqueue"} \/ Kept(q)',
               NEW s \in before'[q]
        PROVE  ~Deletes(s, call[q].endpoint)'
    <3>1. q # r
      BY <2>6, <2>9
    <3>2. s \in Requests /\ s # r /\ s \in before[q]
      BY <2>5, <2>9, <3>1 DEF TypeOK
    <3>3. ~Deletes(s, call[q].endpoint)
      BY <2>2, <2>5, <2>9, <3>1, <3>2 DEF DeleteInv, Does
    <3> QED BY <2>2, <2>5, <3>1, <3>2, <3>3 DEF Does
  <2>10. \A p \in Requests : endpoint'[p].present => p \in committed'
    BY <2>2 DEF DeleteInv
  <2>11. \A s \in Requests, p \in Endpoints :
            Deletes(s, p)' => endpoint'[p].present /\ ~endpoint'[p].is_active
    BY <2>2, <2>7 DEF DeleteInv
  <2> QED BY <2>8, <2>9, <2>10, <2>11 DEF DeleteInv
<1>3. ASSUME NEW r \in Requests, FindExisting(r) PROVE DeleteInv'
  BY <1>3 DEF FindExisting, Goto, WithSameKey, TypeOK, tables, Progress, EventInv, DeleteInv, Does
<1>4. ASSUME NEW r \in Requests, CheckEndpoint(r) PROVE DeleteInv'
  <2>1. pc[r] = "check" /\ UNCHANGED <<endpoint, events, call, committed, before>>
    BY <1>4 DEF CheckEndpoint, tables
  <2>2. CASE RollBack(r, 404) \/ RollBack(r, 422)
    <3>1. /\ pc' = [pc EXCEPT ![r] = "done"]
          /\ wrote' = [wrote EXCEPT ![r] = FALSE]
      BY <2>2, RollBackEffect
    <3> QED BY <2>1, <3>1 DEF TypeOK, DeleteInv, Does
  <2>3. CASE endpoint[call[r].endpoint].is_active /\ Goto(r, "insert") /\ UNCHANGED wrote
    <3>1. \A s \in before[r] : ~Deletes(s, call[r].endpoint)
      BY <2>3 DEF TypeOK, Calls, DeleteInv
    <3> QED BY <2>1, <2>3, <3>1 DEF TypeOK, DeleteInv, Does, Goto
  <2> QED BY <1>4, <2>2, <2>3 DEF CheckEndpoint
<1>5. ASSUME NEW r \in Requests, InsertEvent(r) PROVE DeleteInv'
  BY <1>5, RollBackEffect DEF InsertEvent, Goto, TypeOK, tables, Progress, EventInv, DeleteInv, Does
<1>6. ASSUME NEW r \in Requests, EnqueueJob(r) PROVE DeleteInv'
  BY <1>6 DEF EnqueueJob, Goto, TypeOK, tables, Progress, EventInv, DeleteInv, Does
<1>7. ASSUME NEW r \in Requests, LoadEndpoint(r) PROVE DeleteInv'
  BY <1>7, RollBackEffect DEF LoadEndpoint, Goto, TypeOK, tables, Progress, EventInv, DeleteInv, Does
<1>8. ASSUME NEW r \in Requests, CreateEndpoint(r) PROVE DeleteInv'
  BY <1>8 DEF CreateEndpoint, Goto, TypeOK, tables, Progress, EventInv, DeleteInv, Does
<1>9. ASSUME NEW r \in Requests, FlushUpdate(r) PROVE DeleteInv'
  BY <1>9 DEF FlushUpdate, Goto, TypeOK, tables, Progress, EventInv, DeleteInv, Does
<1>10. ASSUME NEW r \in Requests, Deactivate(r) PROVE DeleteInv'
  BY <1>10, RollBackEffect DEF Deactivate, Goto, TypeOK, tables, Progress, EventInv, DeleteInv, Does
<1>11. ASSUME NEW r \in Requests, Respond(r) PROVE DeleteInv'
  BY <1>11, RollBackEffect DEF Respond, Goto, Unserializable, TypeOK, tables, Progress, EventInv, DeleteInv, Does
<1>12. ASSUME NEW r \in Requests, Commit(r) PROVE DeleteInv'
  <2>1. /\ pc[r] = "commit"
        /\ pc' = [pc EXCEPT ![r] = "done"]
        /\ committed' = committed \cup {r}
        /\ wrote' = [wrote EXCEPT ![r] = FALSE]
        /\ events' = IF wrote[r] /\ Does(r, "create_event") THEN events \cup {r} ELSE events
        /\ UNCHANGED <<call, before>>
    BY <1>12 DEF Commit, Goto
  <2>2. r \notin committed /\ \A q \in Requests : r \notin before[q]
    BY <2>1 DEF TypeOK, Progress
  <2>3. \A s \in Requests, p \in Endpoints :
            Deletes(s, p)' =>
                Deletes(s, p) \/ (s = r /\ Does(r, "delete") /\ call[r].endpoint = p)
    BY <2>1 DEF Does
  <2>4. call[r].endpoint \in Endpoints /\ r \in Endpoints
    BY DEF TypeOK, Calls
  <2>5. \/ /\ Does(r, "create_endpoint") /\ ~endpoint[r].present
           /\ endpoint' = [endpoint EXCEPT ![r] = NewEndpoint(r)]
        \/ /\ Does(r, "delete") /\ endpoint[call[r].endpoint].present
           /\ endpoint' = [endpoint EXCEPT ![call[r].endpoint] = [@ EXCEPT !.is_active = FALSE]]
        \/ ~Does(r, "delete") /\ UNCHANGED endpoint
    <3>1. CASE ~wrote[r]
      BY <1>12, <2>1, <3>1 DEF Commit, DeleteInv
    <3>2. CASE wrote[r] /\ call[r].op \in {"patch", "rotate"}
      BY <2>1, <3>2 DEF DeleteInv
    <3>3. CASE wrote[r] /\ Does(r, "create_endpoint")
      BY <1>12, <2>2, <3>3 DEF Commit, NewRow, DeleteInv, Does
    <3>4. CASE wrote[r] /\ Does(r, "delete")
      BY <1>12, <2>1, <3>4 DEF Commit, NewRow, Updated, DeleteInv, Does
    <3>5. CASE wrote[r] /\ call[r].op \notin {"patch", "rotate", "create_endpoint", "delete"}
      BY <1>12, <3>5 DEF Commit, NewRow, Does
    <3> QED BY <3>1, <3>2, <3>3, <3>4, <3>5 DEF Does
  <2>6. /\ \A p \in Endpoints : endpoint[p].present => endpoint'[p].present
        /\ \A p \in Endpoints :
              endpoint'[p].present => endpoint[p].present \/ p = r
        /\ \A p \in Endpoints :
              endpoint[p].present /\ ~endpoint[p].is_active => ~endpoint'[p].is_active
        /\ Does(r, "delete") => LET p == call[r].endpoint IN
              endpoint'[p].present /\ ~endpoint'[p].is_active
    <3>1. CASE /\ Does(r, "create_endpoint") /\ ~endpoint[r].present
               /\ endpoint' = [endpoint EXCEPT ![r] = NewEndpoint(r)]
      BY <2>4, <3>1 DEF TypeOK, NewEndpoint, Does
    <3>2. CASE /\ Does(r, "delete") /\ endpoint[call[r].endpoint].present
               /\ endpoint' = [endpoint EXCEPT ![call[r].endpoint] = [@ EXCEPT !.is_active = FALSE]]
      BY <2>4, <3>2 DEF TypeOK, EndpointRows
    <3>3. CASE ~Does(r, "delete") /\ UNCHANGED endpoint
      BY <3>3
    <3> QED BY <2>5, <3>1, <3>2, <3>3
  <2>7. \A p \in Requests : endpoint'[p].present => p \in committed'
    BY <2>1, <2>6 DEF DeleteInv
  <2>8. \A s \in Requests, p \in Endpoints :
            Deletes(s, p)' => endpoint'[p].present /\ ~endpoint'[p].is_active
    BY <2>3, <2>6 DEF DeleteInv
  <2>9. \A q \in Requests :
            /\ Does(q, "delete")' /\ pc'[q] \in {"respond", "commit"} =>
                  wrote'[q] /\ endpoint'[call'[q].endpoint].present
            /\ call'[q].op \in {"patch", "rotate"} /\ pc'[q] = "commit" => ~wrote'[q]
    <3>1. \A q \in Requests : call[q].endpoint \in Endpoints
      BY DEF TypeOK, Calls
    <3> QED BY <2>1, <2>6, <3>1 DEF TypeOK, DeleteInv, Does
  <2>10. ASSUME NEW q \in Requests,
                Does(q, "create_event")', pc'[q] \in {"insert", "enqueue"} \/ Kept(q)',
                NEW s \in before'[q]
         PROVE  ~Deletes(s, call[q].endpoint)'
    <3>1. Does(q, "create_event") /\ (pc[q] \in {"insert", "enqueue"} \/ Kept(q))
      BY <2>1, <2>10 DEF TypeOK, Does
    <3>2. s \in before[q] /\ s # r
      BY <2>1, <2>2, <2>10
    <3>3. ~Deletes(s, call[q].endpoint)
      BY <3>1, <3>2 DEF DeleteInv
    <3> QED BY <2>1, <3>2, <3>3 DEF Does
  <2> QED BY <2>7, <2>8, <2>9, <2>10 DEF DeleteInv
<1>13. ASSUME NEW r \in Requests, Fail(r) PROVE DeleteInv'
  BY <1>13, RollBackEffect DEF Fail, Goto, TypeOK, tables, Progress, EventInv, DeleteInv, Does
<1> QED BY <1>1, <1>2, <1>3, <1>4, <1>5, <1>6, <1>7, <1>8, <1>9, <1>10, <1>11, <1>12, <1>13 DEF Next, Step

(* No event is accepted for an endpoint whose DELETE was over before. *)
THEOREM DeletedEndpointTakesNoEventsHolds == Spec => []DeletedEndpointTakesNoEvents
<1>1. ProgressInv /\ EventInv /\ DeleteInv => DeletedEndpointTakesNoEvents
  BY DEF ProgressInv, TypeOK, EventInv, DeleteInv, DeletedEndpointTakesNoEvents, Deletes, Kept
<1>2. Spec => [](ProgressInv /\ EventInv /\ DeleteInv)
  BY InitProgress, StepProgress, InitEvents, StepEvents, InitDeletes, StepDeletes, PTL DEF Spec
<1> QED BY <1>1, <1>2, PTL

-----------------------------------------------------------------------------
(* Refusals *)

(* What a refusal rests on: no event with its key was there when the request *)
(* came, for it would have been found, unless its key was the empty one; the *)
(* endpoint it names was created by a request that had been answered, and a  *)
(* commit leaves it present.                                                 *)
RefusalInv ==
    /\ \A r \in Requests :
          /\ pc[r] \in {"check", "insert"} =>
                \A s \in events \cap before[r] : call[r].key = EmptyKey \/ ~SameKey(r, s)
          /\ pc[r] # "new" /\ call[r].endpoint # 0 =>
                Does(call[r].endpoint, "create_endpoint") /\ pc[call[r].endpoint] # "new"
          /\ Does(r, "create_endpoint") =>
                /\ pc[r] \in {"respond", "commit"} => wrote[r]
                /\ r \in committed => endpoint[r].present
    /\ RefusalsNeedOverlap

(* No row is ever removed. *)
LEMMA RowsArePresent ==
  ASSUME TypeOK, NEW r \in Requests, NEW p \in Endpoints, endpoint[p].present
  PROVE  NewRow(r)[p].present
<1> USE RequestsAreEndpoints
<1> DEFINE q == call[r].endpoint
<1>1. q \in Endpoints
  BY DEF TypeOK, Calls
<1>2. CASE call[r].op \in {"patch", "rotate", "delete"}
  <2>1. endpoint[q] \in EndpointRows
    BY <1>1 DEF TypeOK
  <2>2. Updated(endpoint[q], r).present = endpoint[q].present
    BY <1>2, <2>1 DEF Updated, Patched, Does, EndpointRows
  <2>3. NewRow(r) = [endpoint EXCEPT ![q] = Updated(endpoint[q], r)]
    BY <1>1, <1>2 DEF NewRow, Does, TypeOK
  <2> QED BY <1>1, <2>2, <2>3 DEF TypeOK
<1>3. CASE call[r].op \notin {"patch", "rotate", "delete"}
  BY <1>3 DEF NewRow, Does, NewEndpoint, TypeOK
<1> QED BY <1>2, <1>3

(* All that a request can do to the others, and to what is committed. *)
Alone(r) ==
    /\ pc[r] # "done"
    /\ \A q \in Requests \ {r} :
          /\ pc'[q] = pc[q] /\ call'[q] = call[q] /\ wrote'[q] = wrote[q]
          /\ answer'[q] = answer[q] /\ before'[q] = before[q]
    /\ pc'[r] # "new"
    /\ pc[r] # "new" => UNCHANGED <<call, before>>
    /\ events \subseteq events' /\ events' \subseteq events \cup {r}
    /\ committed \subseteq committed' /\ committed' \subseteq committed \cup {r}
    /\ pc[r] # "commit" => UNCHANGED <<events, committed>>
    /\ broken \subseteq broken'
    /\ \A p \in Endpoints : endpoint[p].present => endpoint'[p].present

LEMMA RequestsAreAlone ==
  ASSUME ProgressInv, NEW r \in Requests, Arrive(r) \/ Step(r) \/ Fail(r)
  PROVE  Alone(r)
<1> USE DEF ProgressInv, TypeOK, tables, Goto
<1>1. ASSUME Arrive(r) PROVE Alone(r)
  <2>1. PICK c \in Calls :
            /\ call' = [call EXCEPT ![r] = c]
            /\ pc' = [pc EXCEPT ![r] = FirstStep(c)]
    BY <1>1 DEF Arrive, CallsOf
  <2>2. FirstStep(c) # "new"
    BY DEF FirstStep
  <2> QED BY <1>1, <2>1, <2>2 DEF Arrive, Alone
<1>2. ASSUME FindExisting(r) PROVE Alone(r)
  BY <1>2 DEF FindExisting, Alone
<1>3. ASSUME CheckEndpoint(r) PROVE Alone(r)
  BY <1>3 DEF CheckEndpoint, RollBack, Alone
<1>4. ASSUME InsertEvent(r) PROVE Alone(r)
  BY <1>4 DEF InsertEvent, RollBack, Alone
<1>5. ASSUME EnqueueJob(r) PROVE Alone(r)
  BY <1>5 DEF EnqueueJob, Alone
<1>6. ASSUME LoadEndpoint(r) PROVE Alone(r)
  BY <1>6 DEF LoadEndpoint, RollBack, Alone
<1>7. ASSUME CreateEndpoint(r) PROVE Alone(r)
  BY <1>7 DEF CreateEndpoint, Alone
<1>8. ASSUME FlushUpdate(r) PROVE Alone(r)
  BY <1>8 DEF FlushUpdate, Alone
<1>9. ASSUME Deactivate(r) PROVE Alone(r)
  BY <1>9 DEF Deactivate, RollBack, Alone
<1>10. ASSUME Respond(r) PROVE Alone(r)
  BY <1>10 DEF Respond, RollBack, Alone
<1>11. ASSUME Commit(r) PROVE Alone(r)
  <2>1. \A p \in Endpoints : endpoint[p].present => endpoint'[p].present
    BY <1>11, RowsArePresent DEF Commit
  <2> QED BY <1>11, <2>1 DEF Commit, Alone
<1>12. ASSUME Fail(r) PROVE Alone(r)
  BY <1>12 DEF Fail, RollBack, Alone
<1> QED BY <1>1, <1>2, <1>3, <1>4, <1>5, <1>6, <1>7, <1>8, <1>9, <1>10, <1>11, <1>12 DEF Step

(* An event that was over when a request came is not added later. *)
LEMMA NoLateEvents ==
  ASSUME ProgressInv, NEW r \in Requests, Alone(r), NEW q \in Requests \ {r}
  PROVE  events' \cap before'[q] = events \cap before[q]
BY DEF ProgressInv, TypeOK, Progress, Alone

LEMMA InitRefusals == Init => RefusalInv
BY RequestsAreEndpoints
   DEF Init, RefusalInv, RefusalsNeedOverlap, Does, NoCall

(* The others keep what they have. *)
LEMMA OthersKeepRefusals ==
  ASSUME ProgressInv, EventInv, RefusalInv,
         NEW r \in Requests, Alone(r), NEW q \in Requests \ {r}
  PROVE  /\ pc'[q] \in {"check", "insert"} =>
                \A s \in events' \cap before'[q] : call'[q].key = EmptyKey \/ ~SameKey(q, s)'
         /\ pc'[q] # "new" /\ call'[q].endpoint # 0 =>
                Does(call[q].endpoint, "create_endpoint")' /\ pc'[call'[q].endpoint] # "new"
         /\ Does(q, "create_endpoint")' =>
                /\ pc'[q] \in {"respond", "commit"} => wrote'[q]
                /\ q \in committed' => endpoint'[q].present
<1> USE RequestsAreEndpoints DEF ProgressInv
<1>1. ASSUME pc'[q] \in {"check", "insert"}, NEW s \in events' \cap before'[q]
      PROVE  call'[q].key = EmptyKey \/ ~SameKey(q, s)'
  <2>1. s \in events /\ s \in before[q] /\ s \in Requests
    BY <1>1, NoLateEvents DEF TypeOK
  <2>2. pc[q] \in {"check", "insert"} /\ (call[q].key = EmptyKey \/ ~SameKey(q, s))
    BY <1>1, <2>1 DEF Alone, RefusalInv
  <2>3. pc[s] # "new"
    BY <2>1 DEF Progress
  <2>4. call'[q] = call[q] /\ call'[s] = call[s]
    BY <2>1, <2>3 DEF Alone
  <2> QED BY <2>2, <2>4 DEF SameKey, Does
<1>2. ASSUME pc'[q] # "new", call'[q].endpoint # 0
      PROVE  Does(call[q].endpoint, "create_endpoint")' /\ pc'[call'[q].endpoint] # "new"
  <2> DEFINE p == call[q].endpoint
  <2>1. pc[q] # "new" /\ call'[q] = call[q]
    BY <1>2 DEF Alone, TypeOK
  <2>2. Does(p, "create_endpoint") /\ pc[p] # "new" /\ p \in Requests
    BY <1>2, <2>1 DEF RefusalInv, TypeOK, Calls, Endpoints, Requests
  <2>3. call'[p] = call[p] /\ pc'[p] # "new"
    BY <2>2 DEF Alone
  <2> QED BY <2>1, <2>2, <2>3 DEF Does
<1>3. ASSUME Does(q, "create_endpoint")'
      PROVE  /\ pc'[q] \in {"respond", "commit"} => wrote'[q]
             /\ q \in committed' => endpoint'[q].present
  BY <1>3 DEF Alone, RefusalInv, Does
<1> QED BY <1>1, <1>2, <1>3

(* A refusal stays explained. *)
LEMMA RefusalsStand ==
  ASSUME ProgressInv, EventInv, RefusalInv,
         NEW r \in Requests, Alone(r), NEW q \in Requests \ broken',
         answer'[q].code = answer[q].code, call'[q] = call[q], before'[q] = before[q]
  PROVE  /\ Does(q, "create_event")' /\ answer'[q].code = 500 =>
                \E s \in events' :
                    SameKey(q, s)' /\ (s \notin before'[q] \/ call'[q].key = EmptyKey)
         /\ answer'[q].code = 404 =>
                call'[q].endpoint \notin before'[q] \/ Lost(call[q].endpoint)'
<1> USE RequestsAreEndpoints DEF ProgressInv
<1>1. q \in Requests \ broken
  BY DEF Alone
<1>2. ASSUME Does(q, "create_event")', answer'[q].code = 500
      PROVE  \E s \in events' :
                    SameKey(q, s)' /\ (s \notin before'[q] \/ call'[q].key = EmptyKey)
  <2>0. Does(q, "create_event") /\ answer[q].code = 500
    BY <1>2 DEF Does
  <2>1. PICK s \in events : SameKey(q, s) /\ (s \notin before[q] \/ call[q].key = EmptyKey)
    BY <1>1, <2>0 DEF RefusalInv, RefusalsNeedOverlap
  <2>2. s \in Requests /\ pc[s] = "done"
    BY DEF EventInv, Progress, TypeOK
  <2>3. s \in events' /\ call'[s] = call[s]
    BY <2>2 DEF Alone
  <2> QED BY <2>1, <2>3 DEF SameKey, Does
<1>3. ASSUME answer'[q].code = 404, call'[q].endpoint \in before'[q]
      PROVE  Lost(call[q].endpoint)'
  <2> DEFINE p == call[q].endpoint
  <2>0. answer[q].code = 404 /\ p \in before[q]
    BY <1>3
  <2>1. Lost(p) /\ p \in Requests
    BY <1>1, <2>0 DEF RefusalInv, RefusalsNeedOverlap, TypeOK
  <2>2. pc'[p] = "done" /\ p \notin committed'
    BY <2>1 DEF Lost, Over, Alone
  <2>3. call'[q].endpoint = p
    OBVIOUS
  <2> QED BY <2>2 DEF Lost, Over
<1> QED BY <1>2, <1>3

(* A 404 is answered where no row is: a creation that was over has been lost. *)
LEMMA UnknownIsLost ==
  ASSUME ProgressInv, RefusalInv, NEW r \in Requests, Alone(r),
         pc[r] # "new", ~endpoint[call[r].endpoint].present,
         call[r].endpoint \in before[r], UNCHANGED <<call, committed>>
  PROVE  Lost(call[r].endpoint)'
<1> USE DEF ProgressInv
<1> DEFINE p == call[r].endpoint
<1>1. p \in Requests /\ pc[p] = "done"
  BY DEF TypeOK, Progress
<1>2. Does(p, "create_endpoint")
  BY <1>1, ApiAssumption DEF RefusalInv, Requests
<1>3. p \notin committed
  BY <1>1, <1>2 DEF RefusalInv
<1>4. pc'[p] = "done"
  BY <1>1 DEF Alone
<1> QED BY <1>3, <1>4 DEF Lost, Over

(* What the request that moves must keep: the parts of RefusalInv about r. *)
Refused(r) ==
    /\ pc[r] \in {"check", "insert"} =>
                \A s \in events \cap before[r] : call[r].key = EmptyKey \/ ~SameKey(r, s)
    /\ pc[r] # "new" /\ call[r].endpoint # 0 =>
          Does(call[r].endpoint, "create_endpoint") /\ pc[call[r].endpoint] # "new"
    /\ Does(r, "create_endpoint") =>
          /\ pc[r] \in {"respond", "commit"} => wrote[r]
          /\ r \in committed => endpoint[r].present
    /\ r \notin broken =>
          /\ Does(r, "create_event") /\ answer[r].code = 500 =>
                \E s \in events :
                    SameKey(r, s) /\ (s \notin before[r] \/ call[r].key = EmptyKey)
          /\ answer[r].code = 404 =>
                call[r].endpoint \notin before[r] \/ Lost(call[r].endpoint)

(* A step of r that asks nothing anew, and how a refusal may come about. *)
LEMMA MovingStep ==
  ASSUME ProgressInv, EventInv, RefusalInv, NEW r \in Requests, Alone(r), pc[r] # "new",
         pc'[r] \in {"check", "insert"} =>
            UNCHANGED events /\ (pc[r] = "check" \/ WithSameKey(r) = {}),
         Does(r, "create_endpoint") =>
            /\ pc'[r] \in {"respond", "commit"} => wrote'[r]
            /\ r \in committed' => endpoint'[r].present,
         \/ r \in broken'
         \/ answer'[r].code = answer[r].code
         \/ answer'[r].code \in {200, 201, 204, 422}
         \/ /\ answer'[r].code = 404
            /\ ~endpoint[call[r].endpoint].present
            /\ UNCHANGED committed
         \/ /\ answer'[r].code = 500
            /\ Does(r, "create_event") =>
                  pc[r] = "insert" /\ \E s \in events : SameKey(r, s)
  PROVE  Refused(r)'
<1> USE DEF ProgressInv
<1>0. UNCHANGED <<call, before>>
  BY DEF Alone
<1>1. pc'[call[r].endpoint] # "new" \/ call[r].endpoint = 0
  <2> SUFFICES ASSUME call[r].endpoint # 0 PROVE pc'[call[r].endpoint] # "new"
    OBVIOUS
  <2> DEFINE p == call[r].endpoint
  <2>1. Does(p, "create_endpoint") /\ pc[p] # "new"
    BY DEF RefusalInv
  <2>2. p \in Requests
    BY ApiAssumption DEF TypeOK, Calls, Endpoints, Requests
  <2>3. CASE p = r
    BY <2>3 DEF Alone
  <2>4. CASE p # r
    BY <2>1, <2>2, <2>4 DEF Alone
  <2> QED BY <2>3, <2>4
<1>2. call[r].endpoint # 0 => Does(call[r].endpoint, "create_endpoint")'
  BY <1>0 DEF RefusalInv, Does
<1>3. r \notin broken' =>
          /\ Does(r, "create_event")' /\ answer'[r].code = 500 =>
                \E s \in events' :
                    SameKey(r, s)' /\ (s \notin before'[r] \/ call'[r].key = EmptyKey)
          /\ answer'[r].code = 404 =>
                call'[r].endpoint \notin before'[r] \/ Lost(call[r].endpoint)'
  <2>1. CASE answer'[r].code = answer[r].code
    BY <1>0, <2>1, RefusalsStand
  <2>2. CASE answer'[r].code \in {200, 201, 204, 422}
    BY <2>2
  <2>3. CASE /\ answer'[r].code = 404
             /\ ~endpoint[call[r].endpoint].present
             /\ UNCHANGED committed
    BY <1>0, <2>3, UnknownIsLost
  <2>4. CASE /\ answer'[r].code = 500
             /\ Does(r, "create_event") =>
                   pc[r] = "insert" /\ \E s \in events : SameKey(r, s)
    <3>1. ASSUME Does(r, "create_event") PROVE \E s \in events :
                    SameKey(r, s) /\ (s \notin before[r] \/ call[r].key = EmptyKey)
      BY <2>4, <3>1 DEF RefusalInv
    <3>2. events \subseteq events'
      BY DEF Alone
    <3> QED BY <1>0, <2>4, <3>1, <3>2 DEF SameKey, Does
  <2> QED BY <2>1, <2>2, <2>3, <2>4
<1>4. pc'[r] \in {"check", "insert"} =>
                \A s \in events' \cap before'[r] : call'[r].key = EmptyKey \/ ~SameKey(r, s)'
  <2>1. pc'[r] \in {"check", "insert"} =>
                \A s \in events \cap before[r] : call[r].key = EmptyKey \/ ~SameKey(r, s)
    BY DEF RefusalInv, WithSameKey
  <2> QED BY <1>0, <2>1 DEF SameKey, Does
<1> QED BY <1>0, <1>1, <1>2, <1>3, <1>4 DEF Refused, Does

LEMMA StepRefusals == ProgressInv /\ EventInv /\ RefusalInv /\ [Next]_vars => RefusalInv'
<1> SUFFICES ASSUME ProgressInv, EventInv, RefusalInv, [Next]_vars
             PROVE  RefusalInv'
  OBVIOUS
<1> USE RequestsAreEndpoints DEF ProgressInv
<1>1. ASSUME UNCHANGED vars PROVE RefusalInv'
  BY <1>1 DEF vars, tables, handler, RefusalInv, RefusalsNeedOverlap, SameKey, Does, Lost, Over
<1>2. ASSUME NEW r \in Requests, Arrive(r) PROVE Refused(r)'
  <2>1. PICK c \in Calls :
            /\ c.endpoint \in Known
            /\ c.op # "create_event" => c.key = NoKey
            /\ call' = [call EXCEPT ![r] = c]
            /\ pc' = [pc EXCEPT ![r] = FirstStep(c)]
    BY <1>2 DEF Arrive, Goto, CallsOf
  <2>2. pc[r] = "new" /\ UNCHANGED <<events, wrote, answer, committed>>
    BY <1>2 DEF Arrive, tables
  <2>3. answer'[r].code = 0 /\ r \notin committed
    BY <2>2 DEF Progress
  <2>4. pc'[r] \in {"check", "insert"} => c.key \in {NoKey, EmptyKey}
    BY <2>1 DEF FirstStep, TypeOK
  <2>5. pc'[r] \notin {"respond", "commit"}
    BY <2>1 DEF FirstStep, TypeOK
  <2>6. ASSUME c.endpoint # 0
        PROVE  Does(c.endpoint, "create_endpoint")' /\ pc'[c.endpoint] # "new"
    <3>1. c.endpoint \in Requests /\ Does(c.endpoint, "create_endpoint")
          /\ answer[c.endpoint].code = 201
      BY <2>1, <2>6 DEF Known
    <3>2. pc[c.endpoint] # "new" /\ c.endpoint # r
      BY <2>2, <3>1 DEF Progress
    <3> QED BY <2>1, <3>1, <3>2 DEF TypeOK, Does
  <2>7. call'[r] = c
    BY <2>1 DEF TypeOK
  <2>8. pc'[r] \in {"check", "insert"} =>
                \A s \in events' \cap before'[r] : call'[r].key = EmptyKey \/ ~SameKey(r, s)'
    BY <2>4, <2>7 DEF SameKey
  <2> QED BY <2>2, <2>3, <2>5, <2>6, <2>7, <2>8 DEF Refused, Does
<1>3. ASSUME NEW r \in Requests, FindExisting(r) PROVE Refused(r)'
  <2>1. Alone(r)
    BY <1>3, RequestsAreAlone DEF Step
  <2>2. /\ pc[r] = "lookup" /\ UNCHANGED <<events, committed>>
        /\ pc'[r] \in {"check", "insert"} => WithSameKey(r) = {}
        /\ answer'[r].code = answer[r].code
    BY <1>3 DEF FindExisting, Goto, TypeOK, tables
  <2> QED BY <2>1, <2>2, MovingStep DEF Progress, Does
<1>4. ASSUME NEW r \in Requests, CheckEndpoint(r) PROVE Refused(r)'
  <2>1. Alone(r)
    BY <1>4, RequestsAreAlone DEF Step
  <2>2. pc[r] = "check" /\ UNCHANGED <<events, committed>>
    BY <1>4 DEF CheckEndpoint, tables
  <2>3. \/ answer'[r].code = answer[r].code
        \/ answer'[r].code = 422
        \/ answer'[r].code = 404 /\ ~endpoint[call[r].endpoint].present
    BY <1>4 DEF CheckEndpoint, RollBack, TypeOK
  <2> QED BY <2>1, <2>2, <2>3, MovingStep DEF Progress, Does
<1>5. ASSUME NEW r \in Requests, InsertEvent(r) PROVE Refused(r)'
  <2>1. Alone(r)
    BY <1>5, RequestsAreAlone DEF Step
  <2>2. /\ pc[r] = "insert" /\ UNCHANGED <<events, committed>>
        /\ pc'[r] \notin {"check", "insert"}
    BY <1>5 DEF InsertEvent, RollBack, Goto, TypeOK, tables
  <2>3. \/ answer'[r].code = answer[r].code
        \/ answer'[r].code = 500 /\ \E s \in events : SameKey(r, s)
    BY <1>5 DEF InsertEvent, RollBack, TypeOK
  <2> QED BY <2>1, <2>2, <2>3, MovingStep DEF Progress, Does
<1>6. ASSUME NEW r \in Requests, EnqueueJob(r) PROVE Refused(r)'
  <2>1. Alone(r)
    BY <1>6, RequestsAreAlone DEF Step
  <2>2. pc[r] = "enqueue" /\ pc'[r] = "respond" /\ UNCHANGED <<answer, committed>>
    BY <1>6 DEF EnqueueJob, Goto, TypeOK
  <2> QED BY <2>1, <2>2, MovingStep DEF Progress, Does
<1>7. ASSUME NEW r \in Requests, LoadEndpoint(r) PROVE Refused(r)'
  <2>1. Alone(r)
    BY <1>7, RequestsAreAlone DEF Step
  <2>2. /\ pc[r] = "load" /\ UNCHANGED committed
        /\ pc'[r] \in {"done", "write"}
    BY <1>7 DEF LoadEndpoint, RollBack, Goto, TypeOK
  <2>3. \/ answer'[r].code = answer[r].code
        \/ answer'[r].code = 404 /\ ~endpoint[call[r].endpoint].present
    BY <1>7 DEF LoadEndpoint, RollBack, TypeOK
  <2> QED BY <2>1, <2>2, <2>3, MovingStep DEF Progress
<1>8. ASSUME NEW r \in Requests, CreateEndpoint(r) PROVE Refused(r)'
  <2>1. Alone(r)
    BY <1>8, RequestsAreAlone DEF Step
  <2>2. /\ pc[r] = "write" /\ pc'[r] = "respond" /\ wrote'[r]
        /\ UNCHANGED <<answer, committed>>
    BY <1>8 DEF CreateEndpoint, Goto, TypeOK
  <2> QED BY <2>1, <2>2, MovingStep DEF Progress
<1>9. ASSUME NEW r \in Requests, FlushUpdate(r) PROVE Refused(r)'
  <2>1. Alone(r)
    BY <1>9, RequestsAreAlone DEF Step
  <2>2. /\ pc[r] = "write" /\ pc'[r] = "respond" /\ ~Does(r, "create_endpoint")
        /\ UNCHANGED <<answer, committed>>
    BY <1>9 DEF FlushUpdate, Goto, TypeOK, Does
  <2> QED BY <2>1, <2>2, MovingStep
<1>10. ASSUME NEW r \in Requests, Deactivate(r) PROVE Refused(r)'
  <2>1. Alone(r)
    BY <1>10, RequestsAreAlone DEF Step
  <2>2. /\ pc[r] = "write" /\ pc'[r] \in {"respond", "done"} /\ ~Does(r, "create_endpoint")
        /\ UNCHANGED committed
    BY <1>10 DEF Deactivate, RollBack, Goto, TypeOK, Does
  <2>3. \/ answer'[r].code = answer[r].code
        \/ answer'[r].code = 404 /\ ~endpoint[call[r].endpoint].present
    BY <1>10 DEF Deactivate, RollBack, TypeOK
  <2> QED BY <2>1, <2>2, <2>3, MovingStep
<1>11. ASSUME NEW r \in Requests, Respond(r) PROVE Refused(r)'
  <2>1. Alone(r)
    BY <1>11, RequestsAreAlone DEF Step
  <2>2. /\ pc[r] = "respond" /\ pc'[r] \in {"commit", "done"}
        /\ UNCHANGED committed
    BY <1>11 DEF Respond, RollBack, Goto, TypeOK
  <2>3. CASE Unserializable(r) /\ RollBack(r, 500)
    <3>1. answer'[r].code = 500 /\ pc'[r] = "done"
      BY <2>3 DEF RollBack, Goto, TypeOK
    <3>2. ~Does(r, "create_event") /\ ~Does(r, "create_endpoint")
      BY <2>3 DEF Unserializable, Does
    <3> QED BY <2>1, <2>2, <3>1, <3>2, MovingStep
  <2>4. CASE answer' = [answer EXCEPT ![r].code = SuccessCode(r)] /\ UNCHANGED wrote
    <3>1. answer'[r].code \in {200, 201, 204}
      BY <2>4 DEF SuccessCode, TypeOK
    <3>2. Does(r, "create_endpoint") => wrote'[r] /\ r \notin committed'
      BY <2>2, <2>4 DEF RefusalInv, Progress
    <3> QED BY <2>1, <2>2, <3>1, <3>2, MovingStep
  <2> QED BY <1>11, <2>3, <2>4 DEF Respond
<1>12. ASSUME NEW r \in Requests, Commit(r) PROVE Refused(r)'
  <2>1. Alone(r)
    BY <1>12, RequestsAreAlone DEF Step
  <2>2. pc[r] = "commit" /\ pc'[r] = "done" /\ UNCHANGED answer
    BY <1>12 DEF Commit, Goto, TypeOK
  <2>3. ASSUME Does(r, "create_endpoint") PROVE endpoint'[r].present
    <3>1. wrote[r]
      BY <2>2, <2>3 DEF RefusalInv
    <3>2. endpoint' = [endpoint EXCEPT ![r] = NewEndpoint(r)]
      BY <1>12, <2>3, <3>1 DEF Commit, NewRow, Does
    <3> QED BY <3>2 DEF TypeOK, NewEndpoint
  <2> QED BY <2>1, <2>2, <2>3, MovingStep
<1>13. ASSUME NEW r \in Requests, Fail(r) PROVE Refused(r)'
  <2>1. Alone(r)
    BY <1>13, RequestsAreAlone
  <2>2. /\ pc[r] # "new" /\ pc'[r] = "done" /\ r \in broken'
        /\ UNCHANGED committed /\ pc[r] # "done"
    BY <1>13 DEF Fail, RollBack, Goto, TypeOK
  <2>3. r \notin committed'
    BY <2>2 DEF Progress
  <2> QED BY <2>1, <2>2, <2>3, MovingStep
<1>14. ASSUME NEW r \in Requests, Alone(r), Refused(r)', NEW q \in Requests
       PROVE  Refused(q)'
  <2> SUFFICES ASSUME q # r PROVE Refused(q)'
    BY <1>14
  <2>1. answer'[q].code = answer[q].code /\ call'[q] = call[q] /\ before'[q] = before[q]
    BY <1>14 DEF Alone
  <2>2. q \notin broken' =>
           /\ Does(q, "create_event")' /\ answer'[q].code = 500 =>
                 \E s \in events' :
                    SameKey(q, s)' /\ (s \notin before'[q] \/ call'[q].key = EmptyKey)
           /\ answer'[q].code = 404 =>
                 call'[q].endpoint \notin before'[q] \/ Lost(call[q].endpoint)'
    BY <1>14, <2>1, RefusalsStand
  <2>3. /\ pc'[q] \in {"check", "insert"} =>
                \A s \in events' \cap before'[q] : call'[q].key = EmptyKey \/ ~SameKey(q, s)'
        /\ pc'[q] # "new" /\ call'[q].endpoint # 0 =>
              Does(call[q].endpoint, "create_endpoint")' /\ pc'[call'[q].endpoint] # "new"
        /\ Does(q, "create_endpoint")' =>
              /\ pc'[q] \in {"respond", "commit"} => wrote'[q]
              /\ q \in committed' => endpoint'[q].present
    BY <1>14, OthersKeepRefusals
  <2> QED BY <2>1, <2>2, <2>3 DEF Refused
<1>15. CASE \E r \in Requests : Arrive(r) \/ Step(r) \/ Fail(r)
  <2>1. PICK r \in Requests : Arrive(r) \/ Step(r) \/ Fail(r)
    BY <1>15
  <2>2. Alone(r)
    BY <2>1, RequestsAreAlone
  <2>3. Refused(r)'
    BY <2>1, <1>2, <1>3, <1>4, <1>5, <1>6, <1>7, <1>8, <1>9, <1>10, <1>11, <1>12, <1>13 DEF Step
  <2>4. \A q \in Requests : Refused(q)'
    BY <1>14, <2>2, <2>3
  <2> QED BY <2>4 DEF RefusalInv, RefusalsNeedOverlap, Refused
<1> QED BY <1>1, <1>15 DEF Next

(* A POST of an event is refused as a duplicate, and an endpoint as unknown, *)
(* only to a request that overlapped the one that created them, or if that  *)
(* was lost, or if its key is the empty one, which is stored but not looked *)
(* up.                                                                      *)
THEOREM RefusalsNeedOverlapHolds == Spec => []RefusalsNeedOverlap
<1>1. RefusalInv => RefusalsNeedOverlap
  BY DEF RefusalInv
<1>2. Spec => [](ProgressInv /\ EventInv /\ RefusalInv)
  BY InitProgress, StepProgress, InitEvents, StepEvents, InitRefusals, StepRefusals, PTL DEF Spec
<1> QED BY <1>1, <1>2, PTL

=============================================================================
