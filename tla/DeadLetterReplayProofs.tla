----------------------- MODULE DeadLetterReplayProofs -----------------------
(***************************************************************************)
(* DeadLetterReplay for any number of requests and entries.                *)
(***************************************************************************)
EXTENDS DeadLetterReplay, FiniteSetTheorems, TLAPS

LocksTypeOK ==
    /\ pc \in [Requests -> {"new", "next", "check", "reset", "commit", "enqueue",
                            "delete", "done"}]
    /\ call \in [Requests -> Calls]
    /\ current \in [Requests -> Entries]
    /\ todo \in [Requests -> SUBSET Entries]
    /\ marked \in [Requests -> SUBSET Entries]

(* A request that has locked nothing yet, or nothing any more. *)
Unlocked == {"new", "delete", "done"}

Looping == {"next", "check", "reset", "enqueue"}

(* A single replay or a discard goes through no list. *)
HoldsNoList(r) ==
    /\ todo[r] = {}
    /\ pc[r] \in {"check", "enqueue"} => marked[r] = {}

(* The ORDER BY of the query makes a bulk replay take rows in one order: it  *)
(* holds only rows older than the one it asks for, and those it has still to *)
(* look at are younger.                                                     *)
Ascending(r) ==
    /\ pc[r] \in Unlocked => marked[r] = {}
    /\ pc[r] = "new" => todo[r] = {}
    /\ pc[r] = "check" => \A d \in marked[r] : d < current[r]
    /\ pc[r] \in Looping => \A d \in marked[r], e \in todo[r] : d < e
    /\ pc[r] \in Looping \ {"next"} => \A e \in todo[r] : current[r] < e
    /\ pc[r] \in {"delete", "commit"} => ~Bulk(r)
    /\ pc[r] = "next" => Bulk(r)
    /\ ~Bulk(r) => HoldsNoList(r)

LockInv == LocksTypeOK /\ \A r \in Requests : Ascending(r)

LEMMA InitLockInv == ASSUME Entries # {} PROVE Init => LockInv
  BY DEF Init, LockInv, LocksTypeOK, Ascending, HoldsNoList, Bulk, Unlocked, Looping,
     Calls

(* One step of request r: what the other requests hold stays as it is. *)
LEMMA StepLockInv == LockInv /\ [Next]_vars => LockInv'
<1> SUFFICES ASSUME LockInv, [Next]_vars
             PROVE  LockInv'
  OBVIOUS
<1> USE ReplayAssumption DEF LockInv, LocksTypeOK, Unlocked, Looping, Bulk, Calls, HoldsNoList
<1>1. ASSUME UNCHANGED <<pc, call, current, todo, marked>> PROVE LockInv'
  BY <1>1 DEF Ascending
<1>2. ASSUME NEW r \in Requests, LocksTypeOK', Ascending(r)',
             \A s \in Requests \ {r} :
                 /\ pc'[s] = pc[s] /\ call'[s] = call[s] /\ current'[s] = current[s]
                 /\ todo'[s] = todo[s] /\ marked'[s] = marked[s]
      PROVE  LockInv'
  BY <1>2, SMTT(30) DEF Ascending
<1>3. ASSUME NEW r \in Requests, StartSingle(r) PROVE LockInv'
  BY <1>2, <1>3 DEF StartSingle, Goto, Ascending
<1>4. ASSUME NEW r \in Requests, StartBulk(r) PROVE LockInv'
  <2>1. /\ pc' = [pc EXCEPT ![r] = "next"]
        /\ UNCHANGED <<current, marked>>
        /\ pc[r] = "new"
    BY <1>4 DEF StartBulk, Goto
  <2>2. PICK force \in BOOLEAN : call' = [call EXCEPT ![r] = [op |-> "bulk", force |-> force]]
    BY <1>4 DEF StartBulk
  <2>3. PICK wanted \in SUBSET Entries :
            todo' = [todo EXCEPT ![r] = {d \in wanted : entry[d].present}]
    BY <1>4 DEF StartBulk
  <2>4. marked[r] = {} /\ call'[r].op = "bulk"
    BY <2>1, <2>2 DEF Ascending
  <2>5. LocksTypeOK'
    <3>1. {d \in wanted : entry[d].present} \in SUBSET Entries
      BY <2>3
    <3>2. [op |-> "bulk", force |-> force] \in Calls
      BY <2>2
    <3> QED BY <2>1, <2>2, <2>3, <3>1, <3>2
  <2>6. Ascending(r)'
    BY <2>1, <2>4 DEF Ascending
  <2> QED BY <1>2, <2>1, <2>2, <2>3, <2>5, <2>6
<1>5. ASSUME NEW r \in Requests, StartDiscard(r) PROVE LockInv'
  <2>1. /\ pc' = [pc EXCEPT ![r] = "delete"]
        /\ call' = [call EXCEPT ![r] = [@ EXCEPT !.op = "discard"]]
        /\ UNCHANGED <<todo, marked>>
        /\ pc[r] = "new"
    BY <1>5 DEF StartDiscard, Goto
  <2>2. PICK d \in Entries : current' = [current EXCEPT ![r] = d]
    BY <1>5 DEF StartDiscard
  <2>3. [call[r] EXCEPT !.op = "discard"] \in Calls /\ call'[r].op = "discard"
    BY <2>1
  <2>4. marked[r] = {} /\ todo[r] = {}
    BY <2>1 DEF Ascending
  <2>5. LocksTypeOK'
    BY <2>1, <2>2, <2>3
  <2>6. Ascending(r)'
    BY <2>1, <2>3, <2>4 DEF Ascending
  <2> QED BY <1>2, <2>1, <2>2, <2>5, <2>6
<1>6. ASSUME NEW r \in Requests, TakeNext(r) PROVE LockInv'
  BY <1>2, <1>6 DEF TakeNext, Goto, Ascending
<1>7. ASSUME NEW r \in Requests, Refuse(r) PROVE LockInv'
  BY <1>2, <1>7 DEF Refuse, Goto, Ascending
<1>8. ASSUME NEW r \in Requests, Mark(r) PROVE LockInv'
  <2>1. pc[r] = "check" /\ UNCHANGED <<call, current, todo>>
    BY <1>8 DEF Mark
  <2>2. CASE entry[current[r]].present
    <3>1. /\ pc' = [pc EXCEPT ![r] = "reset"]
          /\ marked' = [marked EXCEPT ![r] = @ \cup {current[r]}]
      BY <1>8, <2>2 DEF Mark, Goto
    <3>2. LocksTypeOK'
      BY <2>1, <3>1
    <3>3. Ascending(r)'
      BY <2>1, <3>1 DEF Ascending
    <3> QED BY <1>2, <2>1, <3>1, <3>2, <3>3
  <2>3. CASE ~entry[current[r]].present
    <3>1. /\ pc' = [pc EXCEPT ![r] = "done"]
          /\ marked' = [marked EXCEPT ![r] = {}]
      BY <1>8, <2>3 DEF Mark, RollBack, Goto
    <3>2. LocksTypeOK'
      BY <2>1, <3>1
    <3>3. Ascending(r)'
      BY <2>1, <3>1 DEF Ascending
    <3> QED BY <1>2, <2>1, <3>1, <3>2, <3>3
  <2> QED BY <2>2, <2>3
<1>9. ASSUME NEW r \in Requests, ResetCircuit(r) PROVE LockInv'
  BY <1>2, <1>9 DEF ResetCircuit, Goto, Ascending
<1>10. ASSUME NEW r \in Requests, Enqueue(r) PROVE LockInv'
  BY <1>2, <1>10 DEF Enqueue, Goto, Ascending
<1>11. ASSUME NEW r \in Requests, CommitReplay(r) PROVE LockInv'
  BY <1>2, <1>11 DEF CommitReplay, Goto, Ascending
<1>12. ASSUME NEW r \in Requests, Delete(r) PROVE LockInv'
  BY <1>2, <1>12, SMTT(30) DEF Delete, RollBack, Goto, Ascending
<1>13. ASSUME NEW r \in Requests, CommitDiscard(r) PROVE LockInv'
  BY <1>2, <1>13 DEF CommitDiscard, Goto, Ascending
<1>14. ASSUME NEW r \in Requests, Fail(r) PROVE LockInv'
  BY <1>2, <1>14 DEF Fail, RollBack, Goto, Ascending
<1>15. ASSUME NEW ev \in ReplayedEvents, RunJob(ev) \/ Poll(ev) PROVE LockInv'
  BY <1>1, <1>15 DEF RunJob, Poll, request
<1>16. ASSUME NEW p \in Endpoints, Trip(p) \/ Recover(p) PROVE LockInv'
  BY <1>1, <1>16 DEF Trip, Recover, request
<1>17. ASSUME NEW d \in Entries, HourPasses(d) PROVE LockInv'
  BY <1>1, <1>17 DEF HourPasses, request
<1>18. ASSUME UNCHANGED vars PROVE LockInv'
  BY <1>1, <1>18 DEF vars, request
<1> QED
  BY <1>3, <1>4, <1>5, <1>6, <1>7, <1>8, <1>9, <1>10, <1>11, <1>12, <1>13, <1>14,
     <1>15, <1>16, <1>17, <1>18
  DEF Next, Arrive, Step

(* A request waits for a younger row than any it holds, so two requests      *)
(* cannot wait for each other, however many rows their bulk replays hold.   *)
THEOREM NoLockCycleHolds == ASSUME Entries # {} PROVE Spec => []NoLockCycle
<1>1. LockInv => NoLockCycle
  <2> SUFFICES ASSUME LockInv, NEW r \in Requests, NEW s \in Requests,
                      WaitsFor(r, s), WaitsFor(s, r)
               PROVE  FALSE
    BY DEF NoLockCycle
  <2>1. pc[r] = "check" /\ pc[s] = "check"
    BY DEF WaitsFor, LockInv, Ascending, Unlocked
  <2>2. current[r] < current[s] /\ current[s] < current[r]
    BY <2>1 DEF WaitsFor, LockInv, Ascending
  <2>3. current[r] \in Nat /\ current[s] \in Nat
    BY ReplayAssumption DEF LockInv, LocksTypeOK
  <2> QED BY <2>2, <2>3
<1> QED BY InitLockInv, StepLockInv, <1>1, PTL DEF Spec

-----------------------------------------------------------------------------
(* Discards *)

LoadedRows == [present : BOOLEAN, replay_count : Nat, recent : BOOLEAN]

(* The row lock: one request at a time has written a row, and a row that was *)
(* written is not deleted under the request that wrote it.                  *)
HeldInv ==
    /\ LockInv
    /\ entry \in [Entries -> LoadedRows]
    /\ copy \in [Requests -> [Entries -> LoadedRows]]
    /\ \A r \in Requests : \A d \in marked[r] : entry[d].present
    /\ \A r, s \in Requests : r # s => marked[r] \cap marked[s] = {}
    /\ \A r \in Requests : pc[r] \in {"reset", "commit"} => current[r] \in marked[r]

LEMMA InitHeldInv == ASSUME Entries # {} PROVE Init => HeldInv
<1> SUFFICES ASSUME Init PROVE HeldInv
  OBVIOUS
<1>1. LockInv
  BY InitLockInv
<1>2. DeadLettered \in LoadedRows
  BY DEF DeadLettered, LoadedRows
<1>3. entry \in [Entries -> LoadedRows] /\ copy \in [Requests -> [Entries -> LoadedRows]]
  BY <1>2 DEF Init
<1> QED BY <1>1, <1>3 DEF Init, HeldInv

LEMMA ReplayedRow ==
    ASSUME NEW row \in LoadedRows, NEW loaded \in LoadedRows
    PROVE  Replayed(row, loaded) \in LoadedRows /\ Replayed(row, loaded).present = row.present
<1>1. loaded.replay_count + 1 \in Nat
  BY DEF LoadedRows
<1>2. ASSUME NEW n \in Nat
      PROVE  LET new == [row EXCEPT !.replay_count = n, !.recent = TRUE]
             IN  new \in LoadedRows /\ new.present = row.present
  BY DEF LoadedRows
<1> QED BY <1>1, <1>2 DEF Replayed

LEMMA AgedRow ==
    ASSUME NEW row \in LoadedRows
    PROVE  /\ [row EXCEPT !.recent = FALSE] \in LoadedRows
           /\ [row EXCEPT !.recent = FALSE].present = row.present
           /\ [row EXCEPT !.present = FALSE] \in LoadedRows
  BY DEF LoadedRows

LEMMA StepHeldInv == HeldInv /\ [Next]_vars => HeldInv'
<1> SUFFICES ASSUME HeldInv, [Next]_vars
             PROVE  HeldInv'
  OBVIOUS
<1>1. LockInv /\ LockInv'
  BY StepLockInv DEF HeldInv
<1> USE DEF HeldInv
<1>2. pc = [r \in Requests |-> pc[r]] /\ current \in [Requests -> Entries]
      /\ marked \in [Requests -> SUBSET Entries] /\ call \in [Requests -> Calls]
  BY <1>1 DEF LockInv, LocksTypeOK
<1>3. ASSUME UNCHANGED <<entry, marked>>, copy' \in [Requests -> [Entries -> LoadedRows]],
             \A r \in Requests : pc'[r] \in {"reset", "commit"} =>
                 pc[r] \in {"reset", "commit"} /\ current'[r] = current[r]
      PROVE  HeldInv'
  BY <1>1, <1>3
<1>4. ASSUME NEW r \in Requests, StartSingle(r) PROVE HeldInv'
  <2>1. PICK d \in Entries :
            /\ current' = [current EXCEPT ![r] = d]
            /\ copy' = [copy EXCEPT ![r] = [@ EXCEPT ![d] = entry[d]]]
            /\ pc' = [pc EXCEPT ![r] = IF entry[d].present THEN "check" ELSE "done"]
    BY <1>4 DEF StartSingle, Goto
  <2>2. copy' \in [Requests -> [Entries -> LoadedRows]]
    BY <2>1
  <2> QED BY <1>2, <1>3, <1>4, <2>1, <2>2 DEF StartSingle
<1>5. ASSUME NEW r \in Requests,
             StartBulk(r) \/ StartDiscard(r) \/ TakeNext(r) \/ Refuse(r) \/ Enqueue(r)
      PROVE  HeldInv'
  BY <1>2, <1>3, <1>5 DEF StartBulk, StartDiscard, TakeNext, Refuse, Enqueue, Goto
<1>6. ASSUME NEW r \in Requests, NEW step \in {"reset", "commit"}, Goto(r, step),
             RowFree(r, current[r]), entry[current[r]].present,
             marked' = [marked EXCEPT ![r] = @ \cup {current[r]}],
             UNCHANGED <<entry, copy, current>>
      PROVE  HeldInv'
  <2>1. \A s \in Requests :
            marked'[s] = IF s = r THEN marked[r] \cup {current[r]} ELSE marked[s]
    BY <1>2, <1>6
  <2>2. \A s \in Requests \ {r} : current[r] \notin marked[s]
    BY <1>6 DEF RowFree
  <2>3. \A s, q \in Requests : s # q => marked'[s] \cap marked'[q] = {}
    BY <2>1, <2>2
  <2>4. \A s \in Requests : pc'[s] \in {"reset", "commit"} => current[s] \in marked'[s]
    BY <1>2, <1>6, <2>1 DEF Goto
  <2> QED BY <1>1, <1>6, <2>1, <2>3, <2>4
<1>7. ASSUME NEW r \in Requests, RollBack(r), UNCHANGED <<entry, copy, current>>
      PROVE  HeldInv'
  <2>1. \A s \in Requests : marked'[s] = IF s = r THEN {} ELSE marked[s]
    BY <1>2, <1>7 DEF RollBack
  <2>2. \A s \in Requests : pc'[s] = IF s = r THEN "done" ELSE pc[s]
    BY <1>2, <1>7 DEF RollBack, Goto
  <2> QED BY <1>1, <1>7, <2>1, <2>2
<1>8. ASSUME NEW r \in Requests, Mark(r) PROVE HeldInv'
  BY <1>6, <1>7, <1>8 DEF Mark
<1>9. ASSUME NEW r \in Requests, Delete(r) PROVE HeldInv'
  <2>1. marked[r] = {}
    BY <1>1, <1>9 DEF Delete, LockInv, Ascending, Unlocked
  <2>2. CASE entry[current[r]].present
    <3>1. marked' = [marked EXCEPT ![r] = @ \cup {current[r]}]
      BY <1>9, <2>1, <2>2 DEF Delete
    <3> QED BY <1>6, <1>9, <2>2, <3>1 DEF Delete
  <2>3. CASE ~entry[current[r]].present
    BY <1>7, <1>9, <2>3 DEF Delete
  <2> QED BY <2>2, <2>3
<1>10. ASSUME NEW r \in Requests, ResetCircuit(r) PROVE HeldInv'
  BY <1>1, <1>2, <1>10 DEF ResetCircuit, Goto
<1>11. ASSUME NEW r \in Requests, CommitReplay(r) PROVE HeldInv'
  <2>1. \A d \in Entries :
            entry'[d] \in LoadedRows /\ entry'[d].present = entry[d].present
    BY <1>11, ReplayedRow DEF CommitReplay
  <2>2. entry' \in [Entries -> LoadedRows]
    BY <1>11, <2>1 DEF CommitReplay
  <2>3. \A s \in Requests : marked'[s] = IF s = r THEN {} ELSE marked[s]
    BY <1>2, <1>11 DEF CommitReplay
  <2>4. \A s \in Requests : pc'[s] \in {"reset", "commit"} => s # r /\ pc'[s] = pc[s]
    BY <1>2, <1>11 DEF CommitReplay, Goto
  <2>5. UNCHANGED <<copy, current>>
    BY <1>11 DEF CommitReplay
  <2>6. \A s \in Requests : \A d \in marked'[s] : entry'[d].present
    BY <1>2, <2>1, <2>3
  <2> QED BY <1>1, <2>2, <2>3, <2>4, <2>5, <2>6
<1>12. ASSUME NEW r \in Requests, CommitDiscard(r) PROVE HeldInv'
  <2>1. current[r] \in marked[r] /\ current[r] \in Entries
    BY <1>2, <1>12 DEF CommitDiscard
  <2>2. \A s \in Requests : marked'[s] = IF s = r THEN {} ELSE marked[s]
    BY <1>2, <1>12 DEF CommitDiscard
  <2>3. \A d \in Entries : d # current[r] => entry'[d] = entry[d]
    BY <1>12 DEF CommitDiscard
  <2>4. entry' \in [Entries -> LoadedRows]
    <3>1. entry' = [entry EXCEPT ![current[r]] = [entry[current[r]] EXCEPT !.present = FALSE]]
      BY <1>12 DEF CommitDiscard
    <3>2. [entry[current[r]] EXCEPT !.present = FALSE] \in LoadedRows
      BY <2>1, AgedRow
    <3> QED BY <3>1, <3>2
  <2>5. \A s \in Requests : current[r] \notin marked'[s]
    BY <2>1, <2>2
  <2>6. \A s \in Requests : \A d \in marked'[s] : entry'[d].present
    BY <1>2, <2>2, <2>3, <2>5
  <2>7. \A s \in Requests : pc'[s] \in {"reset", "commit"} => s # r /\ pc'[s] = pc[s]
    BY <1>2, <1>12 DEF CommitDiscard, Goto
  <2>8. UNCHANGED <<copy, current>>
    BY <1>12 DEF CommitDiscard
  <2> QED BY <1>1, <2>2, <2>4, <2>6, <2>7, <2>8
<1>13. ASSUME NEW r \in Requests, Fail(r) PROVE HeldInv'
  BY <1>7, <1>13 DEF Fail
<1>14. ASSUME NEW ev \in ReplayedEvents, RunJob(ev) \/ Poll(ev) PROVE HeldInv'
  BY <1>3, <1>14 DEF RunJob, Poll, request
<1>15. ASSUME NEW p \in Endpoints, Trip(p) \/ Recover(p) PROVE HeldInv'
  BY <1>3, <1>15 DEF Trip, Recover, request
<1>16. ASSUME NEW d \in Entries, HourPasses(d) PROVE HeldInv'
  <2>1. \A e \in Entries : entry'[e] \in LoadedRows /\ entry'[e].present = entry[e].present
    <3>1. entry' = [entry EXCEPT ![d] = [entry[d] EXCEPT !.recent = FALSE]]
      BY <1>16 DEF HourPasses
    <3> QED BY <1>16, <3>1, AgedRow
  <2>2. entry' \in [Entries -> LoadedRows]
    BY <1>16, <2>1 DEF HourPasses
  <2>3. UNCHANGED <<pc, copy, current, marked>>
    BY <1>16 DEF HourPasses, request
  <2>4. \A s \in Requests : \A e \in marked'[s] : entry'[e].present
    BY <1>2, <2>1, <2>3
  <2> QED BY <1>1, <2>2, <2>3, <2>4
<1>17. ASSUME UNCHANGED vars PROVE HeldInv'
  BY <1>3, <1>17 DEF vars, request
<1> QED
  BY <1>4, <1>5, <1>8, <1>9, <1>10, <1>11, <1>12, <1>13, <1>14, <1>15, <1>16, <1>17
  DEF Next, Arrive, Step

(* Whoever wins the row, the discard or the replay, the other finds out: an  *)
(* entry that is gone never comes back and is never replayed.               *)
THEOREM DiscardIsFinalHolds == ASSUME Entries # {} PROVE Spec => DiscardIsFinal
<1>1. HeldInv /\ [Next]_vars =>
          [\A d \in Entries : ~entry[d].present =>
              /\ ~entry'[d].present
              /\ ReplaysOf(d)' = ReplaysOf(d)]_vars
  <2> SUFFICES ASSUME HeldInv, Next, NEW d \in Entries, ~entry[d].present
               PROVE  ~entry'[d].present /\ ReplaysOf(d)' = ReplaysOf(d)
    OBVIOUS
  <2>1. ASSUME UNCHANGED <<entry, born>>
        PROVE  ~entry'[d].present /\ ReplaysOf(d)' = ReplaysOf(d)
    BY <2>1 DEF ReplaysOf
  <2>2. ASSUME NEW r \in Requests, CommitReplay(r)
        PROVE  ~entry'[d].present /\ ReplaysOf(d)' = ReplaysOf(d)
    <3>1. d \notin marked[r]
      BY DEF HeldInv
    <3>2. entry'[d] = entry[d]
      BY <2>2, <3>1 DEF CommitReplay
    <3>3. \A s \in Requests : <<s, d>> \in born' <=> <<s, d>> \in born
      BY <2>2, <3>1 DEF CommitReplay
    <3> QED BY <3>2, <3>3 DEF ReplaysOf
  <2>3. ASSUME NEW r \in Requests, CommitDiscard(r)
        PROVE  ~entry'[d].present /\ ReplaysOf(d)' = ReplaysOf(d)
    BY <2>3 DEF CommitDiscard, ReplaysOf, HeldInv, LoadedRows
  <2>4. ASSUME NEW e \in Entries, HourPasses(e)
        PROVE  ~entry'[d].present /\ ReplaysOf(d)' = ReplaysOf(d)
    BY <2>4 DEF HourPasses, ReplaysOf, HeldInv, LoadedRows
  <2>5. ASSUME NEW r \in Requests,
               \/ Arrive(r) \/ TakeNext(r) \/ Refuse(r) \/ Mark(r) \/ ResetCircuit(r)
               \/ Enqueue(r) \/ Delete(r) \/ Fail(r)
        PROVE  UNCHANGED <<entry, born>>
    BY <2>5 DEF Arrive, StartSingle, StartBulk, StartDiscard, TakeNext, Refuse, Mark,
       ResetCircuit, Enqueue, Delete, Fail
  <2>6. ASSUME NEW ev \in ReplayedEvents, RunJob(ev) \/ Poll(ev)
        PROVE  UNCHANGED <<entry, born>>
    BY <2>6 DEF RunJob, Poll
  <2>7. ASSUME NEW p \in Endpoints, Trip(p) \/ Recover(p) PROVE UNCHANGED <<entry, born>>
    BY <2>7 DEF Trip, Recover
  <2> QED BY <2>1, <2>2, <2>3, <2>4, <2>5, <2>6, <2>7 DEF Next, Step
<1> QED BY InitHeldInv, StepHeldInv, <1>1, PTL DEF Spec, DiscardIsFinal

-----------------------------------------------------------------------------
(* What replay_count is worth, for any finite number of requests. *)

CountedRows == [present : BOOLEAN, replay_count : Nat, recent : BOOLEAN]

(* A request has committed replays only once it is past its commit. *)
PastCommit(r) == pc[r] = "done" \/ (pc[r] = "enqueue" /\ ~Bulk(r))

(* Concurrent replays overwrite each other's increments, so a count may lag *)
(* behind the replays made; but no session has ever loaded more than were   *)
(* made by then, and none adds its 1 twice for one entry.                   *)
LedgerInv ==
    /\ LocksTypeOK
    /\ entry \in [Entries -> CountedRows]
    /\ copy \in [Requests -> [Entries -> CountedRows]]
    /\ \A ev \in born : ev \in ReplayedEvents /\ PastCommit(ev[1])
    /\ \A d \in Entries : entry[d].replay_count = 0 => ReplaysOf(d) = {}
    /\ \A d \in Entries : entry[d].replay_count <= Cardinality(ReplaysOf(d))
    /\ \A r \in Requests, d \in Entries :
          copy[r][d].replay_count <= Cardinality(ReplaysOf(d))

(* One more replay of an entry is one more request in its set. *)
LEMMA ReplaysCounted ==
    ASSUME IsFiniteSet(Requests), NEW d
    PROVE  /\ IsFiniteSet(ReplaysOf(d))
           /\ Cardinality(ReplaysOf(d)) \in Nat
           /\ Cardinality(ReplaysOf(d)) <= Cardinality(Requests)
           /\ \A r \in Requests : r \notin ReplaysOf(d) =>
                 Cardinality(ReplaysOf(d) \cup {r}) = Cardinality(ReplaysOf(d)) + 1
<1>1. ReplaysOf(d) \subseteq Requests
  BY DEF ReplaysOf
<1>2. IsFiniteSet(ReplaysOf(d)) /\ Cardinality(ReplaysOf(d)) <= Cardinality(Requests)
  BY <1>1, FS_Subset
<1> QED BY <1>2, FS_CardinalityType, FS_AddElement

LEMMA InitLedgerInv ==
    ASSUME Entries # {}, IsFiniteSet(Requests) PROVE Init => LedgerInv
<1> SUFFICES ASSUME Init PROVE LedgerInv
  OBVIOUS
<1>1. LocksTypeOK
  BY InitLockInv DEF LockInv
<1>2. /\ entry \in [Entries -> CountedRows]
      /\ \A d \in Entries : entry[d].replay_count = 0
      /\ copy = [r \in Requests |-> entry]
      /\ born = {}
  BY DEF Init, DeadLettered, CountedRows
<1>3. \A d \in Entries : ReplaysOf(d) = {}
  BY <1>2 DEF ReplaysOf
<1>4. \A d \in Entries : Cardinality(ReplaysOf(d)) \in Nat
  BY ReplaysCounted
<1> QED BY <1>1, <1>2, <1>3, <1>4 DEF LedgerInv

(* A step that commits no replay: counts stay, and a session loads the rows *)
(* as they are.                                                             *)
LEMMA NothingCommitted ==
    ASSUME LedgerInv, LocksTypeOK', born' = born,
           entry' \in [Entries -> CountedRows],
           \A d \in Entries : entry'[d].replay_count = entry[d].replay_count,
           copy' \in [Requests -> [Entries -> CountedRows]],
           \A r \in Requests, d \in Entries :
               copy'[r][d] = copy[r][d] \/ copy'[r][d] = entry[d],
           \A r \in Requests : PastCommit(r) => PastCommit(r)'
    PROVE  LedgerInv'
<1>1. \A d \in Entries : ReplaysOf(d)' = ReplaysOf(d)
  BY DEF ReplaysOf
<1>2. \A ev \in born' : ev \in ReplayedEvents /\ PastCommit(ev[1])'
  BY DEF LedgerInv, ReplayedEvents
<1>3. \A d \in Entries : /\ entry'[d].replay_count = 0 => ReplaysOf(d)' = {}
                         /\ entry'[d].replay_count <= Cardinality(ReplaysOf(d)')
  BY <1>1 DEF LedgerInv
<1>4. \A r \in Requests, d \in Entries :
          copy'[r][d].replay_count <= Cardinality(ReplaysOf(d)')
  BY <1>1 DEF LedgerInv
<1> QED BY <1>2, <1>3, <1>4 DEF LedgerInv

LEMMA CommitKeepsLedger ==
    ASSUME IsFiniteSet(Requests), LedgerInv, LocksTypeOK',
           NEW r \in Requests, CommitReplay(r)
    PROVE  LedgerInv'
<1> USE DEF LocksTypeOK
<1>1. ~PastCommit(r) /\ PastCommit(r)'
  BY DEF CommitReplay, PastCommit, Goto, Bulk, LedgerInv
<1>2. \A s \in Requests : PastCommit(s) => PastCommit(s)'
  BY <1>1 DEF CommitReplay, PastCommit, Goto, Bulk, LedgerInv
<1>3. born' = born \cup ({r} \X marked[r]) /\ copy' = copy
  BY DEF CommitReplay
<1>4. \A d : <<r, d>> \notin born
  BY <1>1 DEF LedgerInv
<1>5. \A ev \in born' : ev \in ReplayedEvents /\ PastCommit(ev[1])'
  <2>1. \A ev \in born : ev \in ReplayedEvents /\ PastCommit(ev[1])'
    BY <1>2 DEF LedgerInv, ReplayedEvents
  <2>2. \A ev \in {r} \X marked[r] : ev \in ReplayedEvents /\ PastCommit(ev[1])'
    BY <1>1 DEF LedgerInv, ReplayedEvents
  <2> QED BY <1>3, <2>1, <2>2
<1>6. ASSUME NEW d \in marked[r] PROVE ReplaysOf(d)' = ReplaysOf(d) \cup {r}
  BY <1>3 DEF ReplaysOf
<1>7. ASSUME NEW d \in Entries \ marked[r] PROVE ReplaysOf(d)' = ReplaysOf(d)
  BY <1>3 DEF ReplaysOf
<1>8. ASSUME NEW d \in marked[r]
      PROVE  /\ Cardinality(ReplaysOf(d)) \in Nat
             /\ Cardinality(ReplaysOf(d)') = Cardinality(ReplaysOf(d)) + 1
  <2>1. r \notin ReplaysOf(d)
    BY <1>4 DEF ReplaysOf
  <2> QED BY <1>6, <2>1, ReplaysCounted
<1>9. ASSUME NEW d \in Entries
      PROVE  /\ entry'[d] \in CountedRows
             /\ entry'[d].replay_count = 0 => ReplaysOf(d)' = {}
             /\ entry'[d].replay_count <= Cardinality(ReplaysOf(d)')
  <2>1. /\ entry'[d] = IF d \in marked[r] THEN Replayed(entry[d], copy[r][d]) ELSE entry[d]
        /\ entry[d] \in CountedRows /\ copy[r][d] \in CountedRows
    BY DEF CommitReplay, LedgerInv
  <2>2. CASE d \in marked[r]
    <3>1. /\ entry'[d] \in CountedRows
          /\ entry'[d].replay_count = copy[r][d].replay_count + 1
      <4>1. entry'[d] = Replayed(entry[d], copy[r][d])
        BY <2>1, <2>2
      <4>2. copy[r][d].replay_count + 1 \in Nat
        BY <2>1 DEF CountedRows
      <4> QED BY <2>1, <4>1, <4>2 DEF Replayed, CountedRows
    <3>2. /\ copy[r][d].replay_count \in Nat
          /\ copy[r][d].replay_count <= Cardinality(ReplaysOf(d))
      BY <2>1 DEF LedgerInv, CountedRows
    <3> QED BY <3>1, <3>2, <2>2, <1>8
  <2>3. CASE d \notin marked[r]
    BY <2>1, <2>3, <1>7 DEF LedgerInv
  <2> QED BY <2>2, <2>3
<1>10. entry' \in [Entries -> CountedRows]
  <2>1. entry' = [d \in Entries |->
                     IF d \in marked[r] THEN Replayed(entry[d], copy[r][d]) ELSE entry[d]]
    BY DEF CommitReplay
  <2> QED BY <1>9, <2>1
<1>11. ASSUME NEW s \in Requests, NEW d \in Entries
       PROVE  copy'[s][d].replay_count <= Cardinality(ReplaysOf(d)')
  <2>1. /\ copy'[s][d].replay_count = copy[s][d].replay_count
        /\ copy[s][d].replay_count \in Nat
        /\ copy[s][d].replay_count <= Cardinality(ReplaysOf(d))
    BY <1>3 DEF LedgerInv, CountedRows
  <2>2. CASE d \in marked[r]
    BY <2>1, <2>2, <1>8
  <2>3. CASE d \notin marked[r]
    BY <2>1, <2>3, <1>7
  <2> QED BY <2>2, <2>3
<1> QED BY <1>3, <1>5, <1>9, <1>10, <1>11 DEF LedgerInv

LEMMA StepLedgerInv ==
    ASSUME IsFiniteSet(Requests) PROVE LockInv /\ LedgerInv /\ [Next]_vars => LedgerInv'
<1> SUFFICES ASSUME LockInv, LedgerInv, [Next]_vars
             PROVE  LedgerInv'
  OBVIOUS
<1>1. LocksTypeOK'
  BY StepLockInv DEF LockInv
<1> USE <1>1
<1> DEFINE Kept == copy' = copy /\ entry' = entry /\ born' = born
<1>2. ASSUME Kept, \A s \in Requests : PastCommit(s) => PastCommit(s)'
      PROVE  LedgerInv'
  BY <1>2, NothingCommitted DEF LedgerInv
<1>3. ASSUME NEW r \in Requests, StartSingle(r) PROVE LedgerInv'
  <2>1. entry' = entry /\ born' = born
    BY <1>3 DEF StartSingle
  <2>2. PICK e \in Entries : copy' = [copy EXCEPT ![r][e] = entry[e]]
    BY <1>3 DEF StartSingle
  <2>3. copy[r] \in [Entries -> CountedRows] /\ entry[e] \in CountedRows
    BY DEF LedgerInv
  <2>4. [copy[r] EXCEPT ![e] = entry[e]] \in [Entries -> CountedRows]
    BY <2>3
  <2>5. copy' = [copy EXCEPT ![r] = [copy[r] EXCEPT ![e] = entry[e]]]
    BY <2>2
  <2>6. copy' \in [Requests -> [Entries -> CountedRows]]
    BY <2>4, <2>5 DEF LedgerInv
  <2>7. ASSUME NEW s \in Requests, NEW d \in Entries
        PROVE  copy'[s][d] = copy[s][d] \/ copy'[s][d] = entry[d]
    BY <2>3, <2>5 DEF LedgerInv
  <2>8. \A s \in Requests : PastCommit(s) => PastCommit(s)'
    BY <1>3 DEF StartSingle, PastCommit, Goto, Bulk, LocksTypeOK, LedgerInv
  <2> QED BY <2>1, <2>6, <2>7, <2>8, NothingCommitted DEF LedgerInv
<1>4. ASSUME NEW r \in Requests, StartBulk(r) PROVE LedgerInv'
  <2>1. entry' = entry /\ born' = born /\ copy' = [copy EXCEPT ![r] = entry]
    BY <1>4 DEF StartBulk
  <2>2. /\ copy' \in [Requests -> [Entries -> CountedRows]]
        /\ \A s \in Requests, d \in Entries :
              copy'[s][d] = copy[s][d] \/ copy'[s][d] = entry[d]
    BY <2>1 DEF LedgerInv
  <2>3. \A s \in Requests : PastCommit(s) => PastCommit(s)'
    BY <1>4 DEF StartBulk, PastCommit, Goto, Bulk, LocksTypeOK, LedgerInv
  <2> QED BY <2>1, <2>2, <2>3, NothingCommitted DEF LedgerInv
<1>5. ASSUME NEW r \in Requests, StartDiscard(r) PROVE LedgerInv'
  BY <1>2, <1>5 DEF StartDiscard, PastCommit, Goto, Bulk, LocksTypeOK, LedgerInv
<1>6. ASSUME NEW r \in Requests, TakeNext(r) PROVE LedgerInv'
  BY <1>2, <1>6 DEF TakeNext, PastCommit, Goto, Bulk, LocksTypeOK, LedgerInv
<1>7. ASSUME NEW r \in Requests, Refuse(r) PROVE LedgerInv'
  BY <1>2, <1>7 DEF Refuse, PastCommit, Goto, Bulk, LocksTypeOK, LedgerInv
<1>8. ASSUME NEW r \in Requests, Mark(r) PROVE LedgerInv'
  BY <1>2, <1>8 DEF Mark, RollBack, PastCommit, Goto, Bulk, LocksTypeOK, LedgerInv
<1>9. ASSUME NEW r \in Requests, ResetCircuit(r) PROVE LedgerInv'
  BY <1>2, <1>9 DEF ResetCircuit, PastCommit, Goto, Bulk, LocksTypeOK, LedgerInv
<1>10. ASSUME NEW r \in Requests, Enqueue(r) PROVE LedgerInv'
  BY <1>2, <1>10 DEF Enqueue, PastCommit, Goto, Bulk, LocksTypeOK, LedgerInv
<1>11. ASSUME NEW r \in Requests, CommitReplay(r) PROVE LedgerInv'
  BY <1>11, CommitKeepsLedger
<1>12. ASSUME NEW r \in Requests, Delete(r) PROVE LedgerInv'
  BY <1>2, <1>12 DEF Delete, RollBack, PastCommit, Goto, Bulk, LocksTypeOK, LedgerInv
<1>13. ASSUME NEW r \in Requests, CommitDiscard(r) PROVE LedgerInv'
  <2>1. /\ born' = born /\ copy' = copy
        /\ entry' = [entry EXCEPT ![current[r]].present = FALSE]
    BY <1>13 DEF CommitDiscard
  <2>2. ASSUME NEW row \in CountedRows
        PROVE  /\ [row EXCEPT !.present = FALSE] \in CountedRows
               /\ [row EXCEPT !.present = FALSE].replay_count = row.replay_count
    BY DEF CountedRows
  <2>3. \A d \in Entries :
            /\ entry[d] \in CountedRows
            /\ entry'[d] \in {entry[d], [entry[d] EXCEPT !.present = FALSE]}
    BY <2>1 DEF LedgerInv
  <2>4. entry' = [d \in Entries |-> entry'[d]]
    BY <2>1 DEF LedgerInv
  <2>5. /\ entry' \in [Entries -> CountedRows]
        /\ \A d \in Entries : entry'[d].replay_count = entry[d].replay_count
    BY <2>2, <2>3, <2>4
  <2>6. \A s \in Requests : PastCommit(s) => PastCommit(s)'
    BY <1>13 DEF CommitDiscard, PastCommit, Goto, Bulk, LocksTypeOK, LedgerInv
  <2> QED BY <2>1, <2>5, <2>6, NothingCommitted DEF LedgerInv
<1>14. ASSUME NEW r \in Requests, Fail(r) PROVE LedgerInv'
  BY <1>2, <1>14 DEF Fail, RollBack, PastCommit, Goto, Bulk, LocksTypeOK, LedgerInv
<1>15. ASSUME NEW ev \in ReplayedEvents, RunJob(ev) \/ Poll(ev) PROVE LedgerInv'
  BY <1>2, <1>15 DEF RunJob, Poll, request, PastCommit, Bulk
<1>16. ASSUME NEW p \in Endpoints, Trip(p) \/ Recover(p) PROVE LedgerInv'
  BY <1>2, <1>16 DEF Trip, Recover, request, PastCommit, Bulk
<1>17. ASSUME NEW e \in Entries, HourPasses(e) PROVE LedgerInv'
  <2>1. /\ born' = born /\ copy' = copy /\ pc' = pc /\ call' = call
        /\ entry' = [entry EXCEPT ![e].recent = FALSE]
    BY <1>17 DEF HourPasses, request
  <2>2. /\ entry' \in [Entries -> CountedRows]
        /\ \A d \in Entries : entry'[d].replay_count = entry[d].replay_count
    BY <2>1 DEF LedgerInv, CountedRows
  <2> QED BY <2>1, <2>2, NothingCommitted DEF LedgerInv, PastCommit, Bulk
<1>18. ASSUME UNCHANGED vars PROVE LedgerInv'
  BY <1>2, <1>18 DEF vars, request, PastCommit, Bulk
<1> QED BY <1>3, <1>4, <1>5, <1>6, <1>7, <1>8, <1>9, <1>10, <1>11, <1>12, <1>13,
           <1>14, <1>15, <1>16, <1>17, <1>18 DEF Next, Step, Arrive

(* replay_count never claims more replays than were committed, and is 0 only *)
(* for an entry that has none, although overlapping replays of one entry    *)
(* lose each other's increments.                                            *)
THEOREM ReplayLedgerHolds ==
    ASSUME Entries # {}, IsFiniteSet(Requests)
    PROVE  Spec => []ReplayLedger
<1>1. Init => LockInv /\ LedgerInv
  BY InitLockInv, InitLedgerInv
<1>2. LockInv /\ LedgerInv /\ [Next]_vars => (LockInv /\ LedgerInv)'
  BY StepLockInv, StepLedgerInv
<1>3. LedgerInv => ReplayLedger
  BY DEF LedgerInv, ReplayLedger
<1> QED BY <1>1, <1>2, <1>3, PTL DEF Spec

(* The rest of the types: jobs and circuits. *)
ServiceTypeOK ==
    /\ settled \subseteq born
    /\ jobs \subseteq ReplayedEvents
    /\ tripped \subseteq Endpoints
    /\ faults \in 0..MaxFaults

LEMMA StepServiceTypeOK == LocksTypeOK /\ ServiceTypeOK /\ [Next]_vars => ServiceTypeOK'
<1> SUFFICES ASSUME LocksTypeOK, ServiceTypeOK, [Next]_vars
             PROVE  ServiceTypeOK'
  OBVIOUS
<1> USE ReplayAssumption DEF ServiceTypeOK
<1>1. ASSUME NEW r \in Requests, Arrive(r) PROVE ServiceTypeOK'
  BY <1>1 DEF Arrive, StartSingle, StartBulk, StartDiscard
<1>2. ASSUME NEW r \in Requests, TakeNext(r) \/ Refuse(r) \/ Mark(r) \/ Delete(r) \/ CommitDiscard(r)
      PROVE  ServiceTypeOK'
  BY <1>2 DEF TakeNext, Refuse, Mark, Delete, CommitDiscard
<1>3. ASSUME NEW r \in Requests, ResetCircuit(r) PROVE ServiceTypeOK'
  BY <1>3 DEF ResetCircuit
<1>4. ASSUME NEW r \in Requests, Enqueue(r) PROVE ServiceTypeOK'
  BY <1>4 DEF Enqueue, LocksTypeOK, ReplayedEvents
<1>5. ASSUME NEW r \in Requests, CommitReplay(r) PROVE ServiceTypeOK'
  BY <1>5 DEF CommitReplay
<1>6. ASSUME NEW r \in Requests, Fail(r) PROVE ServiceTypeOK'
  BY <1>6 DEF Fail, SpendFault
<1>7. ASSUME NEW ev \in ReplayedEvents, RunJob(ev) \/ Poll(ev) PROVE ServiceTypeOK'
  BY <1>7 DEF RunJob, Poll
<1>8. ASSUME NEW p \in Endpoints, Trip(p) \/ Recover(p) PROVE ServiceTypeOK'
  BY <1>8 DEF Trip, Recover, SpendFault
<1>9. ASSUME NEW d \in Entries, HourPasses(d) PROVE ServiceTypeOK'
  BY <1>9 DEF HourPasses
<1>10. ASSUME UNCHANGED vars PROVE ServiceTypeOK'
  BY <1>10 DEF vars
<1> QED BY <1>1, <1>2, <1>3, <1>4, <1>5, <1>6, <1>7, <1>8, <1>9, <1>10 DEF Next, Step

(* Every row, request and job has its type: no count outgrows the number of *)
(* requests, and every event of a replay belongs to a request and an entry. *)
THEOREM TypeCorrect ==
    ASSUME Entries # {}, IsFiniteSet(Requests)
    PROVE  Spec => []TypeOK
<1> DEFINE All == LockInv /\ LedgerInv /\ ServiceTypeOK
<1>1. Init => All
  BY InitLockInv, InitLedgerInv, ReplayAssumption DEF Init, ServiceTypeOK
<1>2. All /\ [Next]_vars => All'
  BY StepLockInv, StepLedgerInv, StepServiceTypeOK DEF LockInv
<1>3. ASSUME All PROVE TypeOK
  <2>1. Cardinality(Requests) \in Nat
    BY FS_CardinalityType
  <2>2. ASSUME NEW d \in Entries, NEW n \in Nat, n <= Cardinality(ReplaysOf(d))
        PROVE  n \in 0..Cardinality(Requests)
    BY <2>1, <2>2, ReplaysCounted
  <2>3. entry \in [Entries -> Rows]
    <3>1. ASSUME NEW d \in Entries PROVE entry[d] \in Rows
      <4>1. entry[d] \in CountedRows /\ entry[d].replay_count <= Cardinality(ReplaysOf(d))
        BY <1>3 DEF LedgerInv
      <4>2. entry[d].replay_count \in 0..Cardinality(Requests)
        BY <2>2, <4>1 DEF CountedRows
      <4> QED BY <4>1, <4>2 DEF CountedRows, Rows
    <3> QED BY <1>3, <3>1 DEF LedgerInv
  <2>4. copy \in [Requests -> [Entries -> Rows]]
    <3>1. ASSUME NEW r \in Requests, NEW d \in Entries PROVE copy[r][d] \in Rows
      <4>1. copy[r][d] \in CountedRows /\ copy[r][d].replay_count <= Cardinality(ReplaysOf(d))
        BY <1>3 DEF LedgerInv
      <4>2. copy[r][d].replay_count \in 0..Cardinality(Requests)
        BY <2>2, <4>1 DEF CountedRows
      <4> QED BY <4>1, <4>2 DEF CountedRows, Rows
    <3>2. \A r \in Requests : copy[r] \in [Entries -> Rows]
      BY <1>3, <3>1 DEF LedgerInv
    <3> QED BY <1>3, <3>2 DEF LedgerInv
  <2>5. born \subseteq ReplayedEvents
    BY <1>3 DEF LedgerInv
  <2> QED BY <1>3, <2>3, <2>4, <2>5 DEF TypeOK, ServiceTypeOK, LedgerInv, LocksTypeOK
<1> HIDE DEF All
<1>4. All => TypeOK
  BY <1>3
<1> QED BY <1>1, <1>2, <1>4, PTL DEF Spec

-----------------------------------------------------------------------------
(* The guard *)

(* What has been written was let through by the guard, as it was loaded; a  *)
(* discard asks no guard.                                                   *)
Passed(r, d) == ~(copy[r][d].replay_count > 0 /\ copy[r][d].recent /\ ~call[r].force)

GuardInv ==
    /\ \A d \in Entries : entry[d].recent => entry[d].replay_count > 0
    /\ \A r \in Requests : pc[r] = "delete" => call[r].op = "discard"
    /\ \A r \in Requests : call[r].op # "discard" => \A d \in marked[r] : Passed(r, d)

LEMMA StepGuardInv == LockInv /\ LedgerInv /\ GuardInv /\ [Next]_vars => GuardInv'
<1> SUFFICES ASSUME LockInv, LedgerInv, GuardInv, [Next]_vars
             PROVE  GuardInv'
  OBVIOUS
<1> LocksTypeOK
  BY DEF LedgerInv
<1> USE DEF GuardInv, Passed, LocksTypeOK
<1>1. ASSUME UNCHANGED <<entry, pc, call, copy, marked>> PROVE GuardInv'
  BY <1>1
<1>2. ASSUME NEW r \in Requests, entry' = entry, Goto(r, "done") \/ Goto(r, "next")
                \/ Goto(r, "check") \/ Goto(r, "reset") \/ Goto(r, "commit") \/ Goto(r, "enqueue"),
             UNCHANGED <<call, copy>>,
             \/ marked' = marked
             \/ marked' = [marked EXCEPT ![r] = {}]
      PROVE  GuardInv'
  <2>1. \A q \in Requests : pc'[q] = "delete" => pc[q] = "delete"
    BY <1>2 DEF Goto
  <2>2. \A q \in Requests : marked'[q] \subseteq marked[q]
    BY <1>2
  <2> QED BY <1>2, <2>1, <2>2
<1>3. ASSUME NEW r \in Requests, pc[r] = "new", UNCHANGED <<entry, marked>>,
             \A q \in Requests \ {r} :
                 call'[q] = call[q] /\ copy'[q] = copy[q] /\ pc'[q] = pc[q],
             pc'[r] = "delete" => call'[r].op = "discard"
      PROVE  GuardInv'
  <2>1. marked[r] = {}
    BY <1>3 DEF LockInv, Ascending, Unlocked
  <2> QED BY <1>3, <2>1
<1>4. ASSUME NEW r \in Requests, StartSingle(r) PROVE GuardInv'
  <2>1. \A q \in Requests \ {r} : copy'[q] = copy[q] /\ call'[q] = call[q] /\ pc'[q] = pc[q]
    BY <1>4 DEF StartSingle, Goto
  <2>2. pc[r] = "new" /\ pc'[r] \in {"check", "done"} /\ UNCHANGED <<entry, marked>>
    BY <1>4 DEF StartSingle, Goto
  <2> QED BY <1>3, <2>1, <2>2
<1>5. ASSUME NEW r \in Requests, StartBulk(r) PROVE GuardInv'
  <2>1. \A q \in Requests \ {r} : copy'[q] = copy[q] /\ call'[q] = call[q] /\ pc'[q] = pc[q]
    BY <1>5 DEF StartBulk, Goto
  <2>2. pc[r] = "new" /\ pc'[r] = "next" /\ UNCHANGED <<entry, marked>>
    BY <1>5 DEF StartBulk, Goto
  <2> QED BY <1>3, <2>1, <2>2
<1>6. ASSUME NEW r \in Requests, StartDiscard(r) PROVE GuardInv'
  <2>1. \A q \in Requests \ {r} : copy'[q] = copy[q] /\ call'[q] = call[q] /\ pc'[q] = pc[q]
    BY <1>6 DEF StartDiscard, Goto
  <2>2. pc[r] = "new" /\ UNCHANGED <<entry, marked>>
    BY <1>6 DEF StartDiscard
  <2>3. call'[r].op = "discard"
    BY <1>6 DEF StartDiscard, Calls
  <2> QED BY <1>3, <2>1, <2>2, <2>3
<1>7. ASSUME NEW r \in Requests, TakeNext(r) PROVE GuardInv'
  BY <1>2, <1>7 DEF TakeNext
<1>8. ASSUME NEW r \in Requests, Refuse(r) PROVE GuardInv'
  <2>1. Goto(r, "next") \/ Goto(r, "done")
    BY <1>8 DEF Refuse
  <2> QED BY <1>2, <1>8, <2>1 DEF Refuse
<1>9. ASSUME NEW r \in Requests, Mark(r) PROVE GuardInv'
  <2>1. CASE entry[current[r]].present
    <3>1. /\ marked' = [marked EXCEPT ![r] = @ \cup {current[r]}]
          /\ pc' = [pc EXCEPT ![r] = "reset"]
          /\ UNCHANGED <<entry, call, copy>>
          /\ Passed(r, current[r])
      BY <1>9, <2>1 DEF Mark, Goto, Refused
    <3>2. \A q \in Requests, d \in Entries : Passed(q, d)' <=> Passed(q, d)
      BY <3>1
    <3>3. \A q \in Requests : \A d \in marked'[q] :
              d \in marked[q] \/ (q = r /\ d = current[r])
      BY <3>1
    <3>4. \A q \in Requests : call[q].op # "discard" => \A d \in marked'[q] : Passed(q, d)
      BY <3>1, <3>3
    <3>5. \A q \in Requests : pc'[q] = "delete" => pc[q] = "delete"
      BY <3>1
    <3> QED BY <3>1, <3>4, <3>5
  <2>2. CASE ~entry[current[r]].present
    BY <1>2, <1>9, <2>2 DEF Mark, RollBack
  <2> QED BY <2>1, <2>2
<1>10. ASSUME NEW r \in Requests, ResetCircuit(r) PROVE GuardInv'
  <2>1. Goto(r, "enqueue") \/ Goto(r, "commit")
    BY <1>10 DEF ResetCircuit
  <2> QED BY <1>2, <1>10, <2>1 DEF ResetCircuit
<1>11. ASSUME NEW r \in Requests, Enqueue(r) PROVE GuardInv'
  <2>1. Goto(r, "next") \/ Goto(r, "done")
    BY <1>11 DEF Enqueue
  <2> QED BY <1>2, <1>11, <2>1 DEF Enqueue
<1>12. ASSUME NEW r \in Requests, CommitReplay(r) PROVE GuardInv'
  <2>1. \A d \in Entries :
            entry'[d] = IF d \in marked[r] THEN Replayed(entry[d], copy[r][d]) ELSE entry[d]
    BY <1>12 DEF CommitReplay
  <2>2. ASSUME NEW d \in Entries, entry'[d].recent PROVE entry'[d].replay_count > 0
    <3>1. CASE d \in marked[r]
      <4>1. entry[d] \in CountedRows /\ copy[r][d].replay_count \in Nat
        BY DEF LedgerInv, CountedRows
      <4>2. entry'[d].replay_count = copy[r][d].replay_count + 1
        BY <2>1, <3>1, <4>1 DEF Replayed, CountedRows
      <4> QED BY <4>1, <4>2
    <3>2. CASE d \notin marked[r]
      BY <2>1, <2>2, <3>2
    <3> QED BY <3>1, <3>2
  <2>3. /\ pc' = [pc EXCEPT ![r] = pc'[r]] /\ pc'[r] \in {"done", "enqueue"}
        /\ marked' = [marked EXCEPT ![r] = {}]
        /\ UNCHANGED <<call, copy>>
    BY <1>12 DEF CommitReplay, Goto
  <2>4. \A q \in Requests : /\ pc'[q] = "delete" => pc[q] = "delete"
                            /\ marked'[q] \subseteq marked[q]
    BY <2>3
  <2> QED BY <2>2, <2>3, <2>4
<1>13. ASSUME NEW r \in Requests, Delete(r) PROVE GuardInv'
  <2>1. CASE entry[current[r]].present
    <3>1. /\ pc[r] = "delete" /\ call[r].op = "discard"
          /\ pc' = [pc EXCEPT ![r] = "commit"]
          /\ marked' = [marked EXCEPT ![r] = {current[r]}]
          /\ UNCHANGED <<entry, call, copy>>
      BY <1>13, <2>1 DEF Delete, Goto
    <3>2. \A q \in Requests : pc'[q] = "delete" => pc[q] = "delete"
      BY <3>1
    <3>3. \A q \in Requests \ {r} : marked'[q] = marked[q]
      BY <3>1
    <3> QED BY <3>1, <3>2, <3>3
  <2>2. CASE ~entry[current[r]].present
    BY <1>2, <1>13, <2>2 DEF Delete, RollBack
  <2> QED BY <2>1, <2>2
<1>14. ASSUME NEW r \in Requests, CommitDiscard(r) PROVE GuardInv'
  <2>1. /\ entry' = [entry EXCEPT ![current[r]].present = FALSE]
        /\ pc' = [pc EXCEPT ![r] = "done"]
        /\ marked' = [marked EXCEPT ![r] = {}]
        /\ UNCHANGED <<call, copy>>
    BY <1>14 DEF CommitDiscard, Goto
  <2>2. \A d \in Entries : entry[d] \in CountedRows
    BY DEF LedgerInv
  <2>3. \A d \in Entries : /\ entry'[d].recent = entry[d].recent
                           /\ entry'[d].replay_count = entry[d].replay_count
    BY <2>1, <2>2 DEF LedgerInv, CountedRows
  <2>4. \A q \in Requests : /\ pc'[q] = "delete" => pc[q] = "delete"
                            /\ marked'[q] \subseteq marked[q]
    BY <2>1
  <2> QED BY <2>1, <2>3, <2>4
<1>15. ASSUME NEW r \in Requests, Fail(r) PROVE GuardInv'
  BY <1>2, <1>15 DEF Fail, RollBack
<1>16. ASSUME NEW ev \in ReplayedEvents, RunJob(ev) \/ Poll(ev) PROVE GuardInv'
  BY <1>1, <1>16 DEF RunJob, Poll, request
<1>17. ASSUME NEW p \in Endpoints, Trip(p) \/ Recover(p) PROVE GuardInv'
  BY <1>1, <1>17 DEF Trip, Recover, request
<1>18. ASSUME NEW e \in Entries, HourPasses(e) PROVE GuardInv'
  <2>1. entry' = [entry EXCEPT ![e].recent = FALSE] /\ UNCHANGED <<pc, call, copy, marked>>
    BY <1>18 DEF HourPasses, request
  <2>2. \A d \in Entries : entry[d] \in CountedRows
    BY DEF LedgerInv
  <2>3. \A d \in Entries : /\ entry'[d].recent => entry[d].recent
                           /\ entry'[d].replay_count = entry[d].replay_count
    BY <2>1, <2>2 DEF LedgerInv, CountedRows
  <2> QED BY <2>1, <2>3
<1>19. ASSUME UNCHANGED vars PROVE GuardInv'
  BY <1>1, <1>19 DEF vars, request
<1> QED BY <1>4, <1>5, <1>6, <1>7, <1>8, <1>9, <1>10, <1>11, <1>12, <1>13, <1>14,
           <1>15, <1>16, <1>17, <1>18, <1>19 DEF Next, Step, Arrive

LEMMA BornInCommits ==
    [Next]_vars => born' = born \/ \E r \in Requests : CommitReplay(r)
BY DEF Next, Step, Arrive, StartSingle, StartBulk, StartDiscard, TakeNext, Refuse, Mark,
       ResetCircuit, Enqueue, Delete, CommitDiscard, Fail, RunJob, Poll, Trip, Recover,
       HourPasses, vars, request

LEMMA StepYieldsOnlyToOverlap ==
    LockInv /\ LedgerInv /\ GuardInv /\ [Next]_vars =>
        \A r \in Requests, d \in Entries :
            <<r, d>> \in born' \ born /\ ~call[r].force /\ entry[d].recent
                => copy[r][d] # entry[d]
<1> SUFFICES ASSUME LockInv, LedgerInv, GuardInv, [Next]_vars,
                    NEW r \in Requests, NEW d \in Entries,
                    <<r, d>> \in born' \ born, ~call[r].force, entry[d].recent,
                    copy[r][d] = entry[d]
             PROVE  FALSE
  OBVIOUS
<1>1. PICK q \in Requests : CommitReplay(q)
  BY BornInCommits
<1>2. born' = born \cup ({q} \X marked[q])
  BY <1>1 DEF CommitReplay
<1>3. q = r /\ d \in marked[r]
  BY <1>2
<1>4. call[r].op # "discard"
  <2>1. CASE pc[r] = "commit"
    BY <1>1, <1>3, <2>1 DEF CommitReplay
  <2>2. CASE pc[r] = "next"
    BY <2>2 DEF LockInv, Ascending, Bulk
  <2> QED BY <1>1, <1>3, <2>1, <2>2 DEF CommitReplay
<1>5. Passed(r, d)
  BY <1>3, <1>4 DEF GuardInv
<1> QED BY <1>5 DEF Passed, GuardInv

(* The one-hour guard of replays that are not forced: whatever runs side by *)
(* side, it lets an entry through within the hour only to a request that    *)
(* loaded it before the other replay had committed.                         *)
THEOREM GuardYieldsOnlyToOverlapHolds ==
    ASSUME Entries # {}, IsFiniteSet(Requests)
    PROVE  Spec => GuardYieldsOnlyToOverlap
<1> DEFINE All == LockInv /\ LedgerInv /\ GuardInv
<1>1. Init => All
  <2>1. Init => GuardInv
    BY DEF Init, GuardInv, DeadLettered
  <2> QED BY <2>1, InitLockInv, InitLedgerInv
<1>2. All /\ [Next]_vars => All'
  BY StepLockInv, StepLedgerInv, StepGuardInv
<1>3. All /\ [Next]_vars =>
          [\A r \in Requests, d \in Entries :
              <<r, d>> \in born' \ born /\ ~call[r].force /\ entry[d].recent
                  => copy[r][d] # entry[d]]_vars
  BY StepYieldsOnlyToOverlap
<1> HIDE DEF All
<1> QED BY <1>1, <1>2, <1>3, PTL DEF Spec, GuardYieldsOnlyToOverlap

=============================================================================
