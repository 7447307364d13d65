-------------------------- MODULE DeadLetterReplay --------------------------
(***************************************************************************)
(* Requests that replay or discard dead letter entries: replay_single,     *)
(* replay_bulk and the DELETE of api/v1/dlq.py, each in a transaction of   *)
(* its own, side by side.  A replay inserts a new pending event; what      *)
(* becomes of it is the matter of DeliveryPipeline, of which only what a   *)
(* replay relies on is kept here: a job of an uncommitted event finds      *)
(* nothing, an open circuit puts an event off, and the poller finds        *)
(* pending events that have no job.                                        *)
(*                                                                         *)
(* A request is short against the hour of the replay guard, so the guard   *)
(* is evaluated on the entry as the request has loaded it.                 *)
(***************************************************************************)
EXTENDS Naturals, FiniteSets

CONSTANTS
    Entries,      \* dead letter entries, numbered by dead_lettered_at
    Endpoints,
    EndpointOf,   \* the endpoint of an entry: [Entries -> Endpoints]
    Requests,     \* the calls that are made, each once
    MaxFaults     \* bound on failing requests and on circuits opening

ASSUME ReplayAssumption ==
    /\ Entries \subseteq Nat
    /\ EndpointOf \in [Entries -> Endpoints]
    /\ MaxFaults \in Nat

VARIABLES
    entry,      \* dead_letter_events: the committed row of each entry
    born,       \* committed events of replays, each named <<request, entry>>
    settled,    \* those that have been delivered or dead-lettered since
    jobs,       \* those, or uncommitted ones, with a job in the arq queue
    tripped,    \* endpoints whose circuit is open
    pc, call,   \* per request: where it is, and what it was asked for
    copy,       \* per request: the entries as its session loaded them
    current,    \* per request: the entry it is at
    todo,       \* per request: the entries a bulk replay has not looked at
    marked,     \* per request: the entries whose rows it has written and locked
    faults

request == <<pc, call, copy, current, todo, marked>>
vars == <<entry, born, settled, jobs, tripped, request, faults>>

Rows == [present : BOOLEAN, replay_count : 0..Cardinality(Requests), recent : BOOLEAN]

Calls == [op : {"none", "single", "bulk", "discard"}, force : BOOLEAN]

ReplayedEvents == Requests \X Entries

(* Rows, requests and the names of events have their types. *)
TypeOK ==
    /\ entry \in [Entries -> Rows]
    /\ born \subseteq ReplayedEvents
    /\ settled \subseteq born
    /\ jobs \subseteq ReplayedEvents
    /\ tripped \subseteq Endpoints
    /\ pc \in [Requests -> {"new", "next", "check", "reset", "commit", "enqueue",
                            "delete", "done"}]
    /\ call \in [Requests -> Calls]
    /\ copy \in [Requests -> [Entries -> Rows]]
    /\ current \in [Requests -> Entries]
    /\ todo \in [Requests -> SUBSET Entries]
    /\ marked \in [Requests -> SUBSET Entries]
    /\ faults \in 0..MaxFaults

DeadLettered == [present |-> TRUE, replay_count |-> 0, recent |-> FALSE]

Init ==
    /\ entry = [d \in Entries |-> DeadLettered]
    /\ born = {}
    /\ settled = {}
    /\ jobs = {}
    /\ tripped \in SUBSET Endpoints
    /\ pc = [r \in Requests |-> "new"]
    /\ call = [r \in Requests |-> [op |-> "none", force |-> FALSE]]
    /\ copy = [r \in Requests |-> entry]
    /\ current = [r \in Requests |-> CHOOSE d \in Entries : TRUE]
    /\ todo = [r \in Requests |-> {}]
    /\ marked = [r \in Requests |-> {}]
    /\ faults = 0

Goto(r, step) == pc' = [pc EXCEPT ![r] = step]

(* Another transaction has written the row and not ended. *)
RowFree(r, d) == \A s \in Requests \ {r} : d \notin marked[s]

Bulk(r) == call[r].op = "bulk"

(* The end of a transaction without a commit. *)
RollBack(r) ==
    /\ marked' = [marked EXCEPT ![r] = {}]
    /\ Goto(r, "done")

-----------------------------------------------------------------------------
(* A request arrives *)

(* get_by_id: the entry is loaded, without a lock. *)
StartSingle(r) ==
    /\ pc[r] = "new"
    /\ \E d \in Entries, force \in BOOLEAN :
        /\ call' = [call EXCEPT ![r] = [op |-> "single", force |-> force]]
        /\ current' = [current EXCEPT ![r] = d]
        /\ copy' = [copy EXCEPT ![r][d] = entry[d]]
        /\ Goto(r, IF entry[d].present THEN "check" ELSE "done")
    /\ UNCHANGED <<entry, born, settled, jobs, tripped, todo, marked, faults>>

(* get_unreplayed_by_filter: one query, by endpoint and event type, so it   *)
(* may want any of the entries; it does not ask for their replay_count.     *)
StartBulk(r) ==
    /\ pc[r] = "new"
    /\ \E force \in BOOLEAN :
        call' = [call EXCEPT ![r] = [op |-> "bulk", force |-> force]]
    /\ copy' = [copy EXCEPT ![r] = entry]
    /\ \E wanted \in SUBSET Entries :
        todo' = [todo EXCEPT ![r] = {d \in wanted : entry[d].present}]
    /\ Goto(r, "next")
    /\ UNCHANGED <<entry, born, settled, jobs, tripped, current, marked, faults>>

StartDiscard(r) ==
    /\ pc[r] = "new"
    /\ call' = [call EXCEPT ![r].op = "discard"]
    /\ \E d \in Entries : current' = [current EXCEPT ![r] = d]
    /\ Goto(r, "delete")
    /\ UNCHANGED <<entry, born, settled, jobs, tripped, copy, todo, marked, faults>>

-----------------------------------------------------------------------------
(* replay_bulk: the loop over the entries, and replay_single for each *)

(* MUTANT of TakeNext: the query has no ORDER BY. *)
TakeAny(r) ==
    /\ pc[r] = "next"
    /\ \E d \in todo[r] :
        /\ current' = [current EXCEPT ![r] = d]
        /\ todo' = [todo EXCEPT ![r] = @ \ {d}]
    /\ Goto(r, "check")
    /\ UNCHANGED <<entry, born, settled, jobs, tripped, call, copy, marked, faults>>

(* The oldest entry first; get_by_id finds it in the identity map. *)
TakeNext(r) ==
    /\ pc[r] = "next"
    /\ \E d \in todo[r] :
        /\ \A other \in todo[r] : d <= other
        /\ current' = [current EXCEPT ![r] = d]
        /\ todo' = [todo EXCEPT ![r] = @ \ {d}]
    /\ Goto(r, "check")
    /\ UNCHANGED <<entry, born, settled, jobs, tripped, call, copy, marked, faults>>

(* MUTANT of Refused: a bulk replay is taken for a forced one. *)
RefusedSingle(r) ==
    LET row == copy[r][current[r]] IN
    /\ row.replay_count > 0
    /\ row.recent
    /\ ~call[r].force
    /\ call[r].op = "single"

(* RecentlyReplayedError is due. *)
Refused(r) ==
    LET row == copy[r][current[r]] IN
    /\ row.replay_count > 0
    /\ row.recent
    /\ ~call[r].force

(* 409 for a single replay, one of the "errors" of a bulk replay. *)
Refuse(r) ==
    /\ pc[r] = "check"
    /\ Refused(r)
    /\ Goto(r, IF Bulk(r) THEN "next" ELSE "done")
    /\ UNCHANGED <<entry, born, settled, jobs, tripped, call, copy, current, todo,
                   marked, faults>>

(* MUTANT of Mark: an UPDATE of no row goes unnoticed. *)
MarkUnseen(r) ==
    /\ pc[r] = "check"
    /\ ~Refused(r)
    /\ RowFree(r, current[r])
    /\ marked' = [marked EXCEPT ![r] = @ \cup {current[r]}]
    /\ Goto(r, "reset")
    /\ UNCHANGED <<entry, born, settled, jobs, tripped, call, copy, current, todo, faults>>

(* The new event is inserted and mark_replayed writes the entry, which      *)
(* waits for the row.  A row that has been deleted meanwhile matches no      *)
(* UPDATE: the session raises, and everything is rolled back.               *)
Mark(r) ==
    /\ pc[r] = "check"
    /\ ~Refused(r)
    /\ RowFree(r, current[r])
    /\ IF entry[current[r]].present
       THEN /\ marked' = [marked EXCEPT ![r] = @ \cup {current[r]}]
            /\ Goto(r, "reset")
       ELSE RollBack(r)
    /\ UNCHANGED <<entry, born, settled, jobs, tripped, call, copy, current, todo, faults>>

(* CircuitBreaker.reset, which no rollback takes back. *)
ResetCircuit(r) ==
    /\ pc[r] = "reset"
    /\ tripped' = tripped \ {EndpointOf[current[r]]}
    /\ Goto(r, IF Bulk(r) THEN "enqueue" ELSE "commit")
    /\ UNCHANGED <<entry, born, settled, jobs, call, copy, current, todo, marked, faults>>

(* After the commit of a single replay, before the commit of a bulk replay. *)
Enqueue(r) ==
    /\ pc[r] = "enqueue"
    /\ jobs' = jobs \cup {<<r, current[r]>>}
    /\ Goto(r, IF Bulk(r) THEN "next" ELSE "done")
    /\ UNCHANGED <<entry, born, settled, tripped, call, copy, current, todo, marked, faults>>

-----------------------------------------------------------------------------
(* Commits *)

(* MUTANT of Replayed: replayed_at is written, replay_count is not. *)
ReplayedUncounted(row, loaded) == [row EXCEPT !.recent = TRUE]

(* MUTANT of Replayed: service and repository both count. *)
ReplayedTwice(row, loaded) ==
    [row EXCEPT !.replay_count = loaded.replay_count + 2, !.recent = TRUE]

(* mark_replayed adds 1 to the count it has loaded, not to the one in the row. *)
Replayed(row, loaded) ==
    [row EXCEPT !.replay_count = loaded.replay_count + 1, !.recent = TRUE]

CommitReplay(r) ==
    /\ \/ pc[r] = "commit" /\ call[r].op = "single"
       \/ pc[r] = "next" /\ todo[r] = {}
    /\ entry' = [d \in Entries |->
                    IF d \in marked[r] THEN Replayed(entry[d], copy[r][d]) ELSE entry[d]]
    /\ born' = born \cup ({r} \X marked[r])
    /\ marked' = [marked EXCEPT ![r] = {}]
    /\ Goto(r, IF Bulk(r) THEN "done" ELSE "enqueue")
    /\ UNCHANGED <<settled, jobs, tripped, call, copy, current, todo, faults>>

(* delete_entry: the DELETE waits for the row; 404 if it is gone. *)
Delete(r) ==
    /\ pc[r] = "delete"
    /\ RowFree(r, current[r])
    /\ IF entry[current[r]].present
       THEN /\ marked' = [marked EXCEPT ![r] = {current[r]}]
            /\ Goto(r, "commit")
       ELSE RollBack(r)
    /\ UNCHANGED <<entry, born, settled, jobs, tripped, call, copy, current, todo, faults>>

CommitDiscard(r) ==
    /\ pc[r] = "commit" /\ call[r].op = "discard"
    /\ entry' = [entry EXCEPT ![current[r]].present = FALSE]
    /\ marked' = [marked EXCEPT ![r] = {}]
    /\ Goto(r, "done")
    /\ UNCHANGED <<born, settled, jobs, tripped, call, copy, current, todo, faults>>

SpendFault ==
    /\ faults < MaxFaults
    /\ faults' = faults + 1

(* An exception or a crash: nothing that is not committed stays, except in Redis. *)
Fail(r) ==
    /\ pc[r] \notin {"new", "done"}
    /\ SpendFault
    /\ RollBack(r)
    /\ UNCHANGED <<entry, born, settled, jobs, tripped, call, copy, current, todo>>

-----------------------------------------------------------------------------
(* What happens to replayed events *)

(* A worker takes the job: a committed event whose circuit is not open is   *)
(* delivered or dead-lettered in the end, any other is left as it is.       *)
RunJob(ev) ==
    /\ ev \in jobs
    /\ jobs' = jobs \ {ev}
    /\ settled' = IF ev \in born /\ EndpointOf[ev[2]] \notin tripped
                  THEN settled \cup {ev} ELSE settled
    /\ UNCHANGED <<entry, born, tripped, request, faults>>

(* MUTANT of Stale: the poller only looks for failed events. *)
NeverStale(ev) == FALSE

(* get_stale_pending, and get_due_for_retry for an event that was put off. *)
Stale(ev) == ev \in born \ settled

Poll(ev) ==
    /\ Stale(ev)
    /\ ev \notin jobs
    /\ jobs' = jobs \cup {ev}
    /\ UNCHANGED <<entry, born, settled, tripped, request, faults>>

(* Failing deliveries of other events open a circuit. *)
Trip(p) ==
    /\ p \notin tripped
    /\ SpendFault
    /\ tripped' = tripped \cup {p}
    /\ UNCHANGED <<entry, born, settled, jobs, request>>

(* CB_RECOVERY_TIMEOUT_SECONDS pass: the circuit half-opens. *)
Recover(p) ==
    /\ p \in tripped
    /\ tripped' = tripped \ {p}
    /\ UNCHANGED <<entry, born, settled, jobs, request, faults>>

(* The last replay of the entry is an hour old. *)
HourPasses(d) ==
    /\ entry[d].recent
    /\ entry' = [entry EXCEPT ![d].recent = FALSE]
    /\ UNCHANGED <<born, settled, jobs, tripped, request, faults>>

-----------------------------------------------------------------------------
Step(r) ==
    \/ TakeNext(r)
    \/ Refuse(r)
    \/ Mark(r)
    \/ ResetCircuit(r)
    \/ Enqueue(r)
    \/ CommitReplay(r)
    \/ Delete(r)
    \/ CommitDiscard(r)

Arrive(r) == StartSingle(r) \/ StartBulk(r) \/ StartDiscard(r)

Next ==
    \/ \E r \in Requests : Arrive(r) \/ Step(r) \/ Fail(r)
    \/ \E ev \in ReplayedEvents : RunJob(ev) \/ Poll(ev)
    \/ \E p \in Endpoints : Trip(p) \/ Recover(p)
    \/ \E d \in Entries : HourPasses(d)

Spec == Init /\ [][Next]_vars

(* Requests run, workers and the poller run, circuits half-open. *)
Fairness ==
    /\ \A r \in Requests : WF_vars(Step(r))
    /\ \A ev \in ReplayedEvents : WF_vars(RunJob(ev)) /\ WF_vars(Poll(ev))
    /\ \A p \in Endpoints : WF_vars(Recover(p))

FairSpec == Spec /\ Fairness

-----------------------------------------------------------------------------
(* Properties *)

WaitsFor(r, s) ==
    /\ r # s
    /\ current[r] \in marked[s]
    /\ \/ pc[r] = "delete"
       \/ pc[r] = "check" /\ ~Refused(r)

(* Bulk replays hold the rows they have written until their one commit: two *)
(* requests never wait for each other's rows.                               *)
NoLockCycle == \A r, s \in Requests : ~(WaitsFor(r, s) /\ WaitsFor(s, r))

ReplaysOf(d) == {r \in Requests : <<r, d>> \in born}

(* replay_count, on which the guard relies, although concurrent replays     *)
(* overwrite each other's increments: an entry with a replayed event never  *)
(* counts as not replayed, and never counts more replays than were made.    *)
ReplayLedger ==
    \A d \in Entries : entry[d].present =>
        /\ entry[d].replay_count <= Cardinality(ReplaysOf(d))
        /\ entry[d].replay_count = 0 => ReplaysOf(d) = {}

(* A discarded entry stays discarded, and no replay that loaded it before   *)
(* commits an event for it after.                                           *)
DiscardIsFinal ==
    [][\A d \in Entries : ~entry[d].present =>
          /\ ~entry'[d].present
          /\ ReplaysOf(d)' = ReplaysOf(d)]_vars

(* Every request ends, also a bulk replay that meets rows others hold. *)
EveryCallEnds == \A r \in Requests : (pc[r] # "new") ~> (pc[r] = "done")

(* A committed replay is served even if the process died between its commit *)
(* and its enqueue, and even if its job ran before the commit.              *)
ReplaysAreServed == \A ev \in ReplayedEvents : (ev \in born) ~> (ev \in settled)

(* README "replay ... with idempotency guards", RecentlyReplayedError "Event *)
(* was replayed less than 1 hour ago": without force an entry is replayed    *)
(* again within the hour only against a replay that committed after this     *)
(* one had loaded the entry.  (The guard takes no lock: overlapping replays  *)
(* do get past it.)                                                          *)
GuardYieldsOnlyToOverlap ==
    [][\A r \in Requests, d \in Entries :
          <<r, d>> \in born' \ born /\ ~call[r].force /\ entry[d].recent
              => copy[r][d] # entry[d]]_vars

=============================================================================
