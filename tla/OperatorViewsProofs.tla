------------------------ MODULE OperatorViewsProofs ------------------------
(***************************************************************************)
(* What an operator is shown, for every number of events, endpoints and    *)
(* entries and every page size: an answer is put together from several     *)
(* moments, and the order of the reads makes it true of all of them.       *)
(***************************************************************************)
EXTENDS OperatorViews, FiniteSetTheorems, SequenceTheorems, TLAPS

-----------------------------------------------------------------------------
(* Sequences: where the other entries are once one is put in or taken out. *)

LEMMA Removed ==
    ASSUME NEW S, NEW s \in Seq(S), NEW k \in 1..Len(s)
    PROVE  /\ RemoveAt(s, k) \in Seq(S)
           /\ Len(RemoveAt(s, k)) = Len(s) - 1
           /\ \A i \in 1..Len(s) - 1 :
                  RemoveAt(s, k)[i] = IF i < k THEN s[i] ELSE s[i + 1]
<1> DEFINE left == SubSeq(s, 1, k - 1)
           right == SubSeq(s, k + 1, Len(s))
<1>1. /\ left \in Seq(S) /\ Len(left) = k - 1
      /\ \A i \in 1..k - 1 : left[i] = s[i]
  <2>1. \A i \in 1..k - 1 : s[i] \in S
    BY ElementOfSeq
  <2> QED BY <2>1, SubSeqProperties
<1>2. /\ right \in Seq(S) /\ Len(right) = Len(s) - k
      /\ \A i \in 1..Len(s) - k : right[i] = s[k + i]
  <2>1. \A i \in k + 1..Len(s) : s[i] \in S
    BY ElementOfSeq
  <2> QED BY <2>1, SubSeqProperties
<1>3. RemoveAt(s, k) = left \o right
  BY DEF RemoveAt
<1> HIDE DEF left, right
<1>4. /\ left \o right \in Seq(S)
      /\ Len(left \o right) = Len(left) + Len(right)
      /\ \A i \in 1..Len(left) + Len(right) : (left \o right)[i] =
             IF i <= Len(left) THEN left[i] ELSE right[i - Len(left)]
  BY <1>1, <1>2, ConcatProperties
<1> QED BY <1>1, <1>2, <1>3, <1>4

(* No entry is twice in a sequence. *)
NoneTwice(s) == \A i, j \in DOMAIN s : s[i] = s[j] => i = j

(* y is somewhere before z. *)
Ahead(s, y, z) == \E i, j \in DOMAIN s : i < j /\ s[i] = y /\ s[j] = z

LEMMA InsertKeepsOrder ==
    ASSUME NEW S, NEW s \in Seq(S), NEW x \in S, NEW k \in 1..Len(s) + 1,
           NEW t, t = InsertAt(s, k, x)
    PROVE  /\ t \in Seq(S)
           /\ ToSet(t) = ToSet(s) \cup {x}
           /\ NoneTwice(s) /\ x \notin ToSet(s) => NoneTwice(t)
           /\ \A y, z : Ahead(s, y, z) => Ahead(t, y, z)
<1> DEFINE From(i) == IF i < k THEN i ELSE i - 1
           To(i) == IF i < k THEN i ELSE i + 1
<1>1. /\ t \in Seq(S) /\ Len(t) = Len(s) + 1 /\ DOMAIN t = 1..Len(s) + 1
      /\ DOMAIN s = 1..Len(s) /\ Len(s) \in Nat
      /\ \A i \in 1..Len(s) + 1 :
            t[i] = IF i < k THEN s[i] ELSE IF i = k THEN x ELSE s[i - 1]
  <2> DEFINE left == SubSeq(s, 1, k - 1)
             right == SubSeq(s, k, Len(s))
  <2>1. /\ left \in Seq(S) /\ Len(left) = k - 1
        /\ \A i \in 1..k - 1 : left[i] = s[i]
    <3>1. \A i \in 1..k - 1 : s[i] \in S
      BY ElementOfSeq
    <3> QED BY <3>1, SubSeqProperties
  <2>2. /\ right \in Seq(S) /\ Len(right) = Len(s) - k + 1
        /\ \A i \in 1..Len(s) - k + 1 : right[i] = s[k + i - 1]
    <3>1. \A i \in k..Len(s) : s[i] \in S
      BY ElementOfSeq
    <3> QED BY <3>1, SubSeqProperties
  <2>3. <<x>> \in Seq(S) /\ Len(<<x>>) = 1 /\ <<x>>[1] = x
    OBVIOUS
  <2> DEFINE front == left \o <<x>>
  <2>4. /\ front \in Seq(S) /\ Len(front) = k
        /\ \A i \in 1..k : front[i] = IF i < k THEN s[i] ELSE x
    <3> HIDE DEF left
    <3>1. /\ front \in Seq(S) /\ Len(front) = Len(left) + 1
          /\ \A i \in 1..Len(left) + 1 :
                front[i] = IF i <= Len(left) THEN left[i] ELSE <<x>>[i - Len(left)]
      BY <2>1, <2>3, ConcatProperties
    <3> HIDE DEF front
    <3>2. ASSUME NEW i \in 1..k PROVE front[i] = IF i < k THEN s[i] ELSE x
      <4>1. CASE i < k
        BY <4>1, <3>1, <2>1
      <4>2. CASE i = k
        <5>1. i - Len(left) = 1 /\ ~ i <= Len(left) /\ i \in 1..Len(left) + 1
          BY <4>2, <2>1
        <5> QED BY <4>2, <5>1, <3>1, <2>3
      <4> QED BY <4>1, <4>2
    <3> QED BY <3>1, <3>2, <2>1
  <2>5. t = front \o right
    BY DEF InsertAt
  <2> HIDE DEF front, right, left
  <2>6. /\ front \o right \in Seq(S)
        /\ Len(front \o right) = Len(front) + Len(right)
        /\ \A i \in 1..Len(front) + Len(right) : (front \o right)[i] =
               IF i <= Len(front) THEN front[i] ELSE right[i - Len(front)]
    BY <2>4, <2>2, ConcatProperties
  <2> QED BY <2>2, <2>4, <2>5, <2>6
<1>2. t[k] = x /\ k \in DOMAIN t
  BY <1>1
<1>3. \A i \in DOMAIN s : To(i) \in DOMAIN t /\ t[To(i)] = s[i]
  <2> SUFFICES ASSUME NEW i \in DOMAIN s PROVE To(i) \in DOMAIN t /\ t[To(i)] = s[i]
    OBVIOUS
  <2>1. CASE i < k
    BY <2>1, <1>1
  <2>2. CASE ~ i < k
    <3>1. i + 1 \in 1..Len(s) + 1 /\ ~ i + 1 < k /\ i + 1 # k /\ (i + 1) - 1 = i
      BY <2>2, <1>1
    <3> QED BY <3>1, <2>2, <1>1
  <2> QED BY <2>1, <2>2
<1>4. \A i \in DOMAIN t : i # k => From(i) \in DOMAIN s /\ t[i] = s[From(i)]
  BY <1>1
<1>5. ToSet(t) = ToSet(s) \cup {x}
  <2>1. ASSUME NEW i \in DOMAIN t PROVE t[i] \in ToSet(s) \cup {x}
    BY <1>2, <1>4 DEF ToSet
  <2>2. ASSUME NEW i \in DOMAIN s PROVE s[i] \in ToSet(t)
    BY <1>3 DEF ToSet
  <2>3. x \in ToSet(t)
    BY <1>2 DEF ToSet
  <2> QED BY <2>1, <2>2, <2>3 DEF ToSet
<1>6. ASSUME NoneTwice(s), x \notin ToSet(s),
             NEW i \in DOMAIN t, NEW j \in DOMAIN t, t[i] = t[j]
      PROVE  i = j
  <2>1. CASE i = k \/ j = k
    BY <1>6, <2>1, <1>2, <1>4 DEF ToSet
  <2>2. CASE i # k /\ j # k
    <3>1. /\ From(i) \in DOMAIN s /\ From(j) \in DOMAIN s
          /\ s[From(i)] = s[From(j)]
      BY <1>6, <2>2, <1>4
    <3>2. From(i) = From(j)
      BY <1>6, <3>1 DEF NoneTwice
    <3> QED BY <3>2, <2>2, <1>1
  <2> QED BY <2>1, <2>2
<1>7. ASSUME NEW y, NEW z, Ahead(s, y, z) PROVE Ahead(t, y, z)
  <2>1. PICK i \in DOMAIN s, j \in DOMAIN s : i < j /\ s[i] = y /\ s[j] = z
    BY <1>7 DEF Ahead
  <2>2. To(i) < To(j)
    BY <2>1, <1>1
  <2>3. /\ To(i) \in DOMAIN t /\ To(j) \in DOMAIN t
        /\ t[To(i)] = y /\ t[To(j)] = z
    BY <2>1, <1>3
  <2> HIDE DEF To
  <2> QED BY <2>2, <2>3 DEF Ahead
<1> QED BY <1>1, <1>5, <1>6, <1>7 DEF NoneTwice

LEMMA RemoveKeepsOrder ==
    ASSUME NEW S, NEW s \in Seq(S), NEW k \in DOMAIN s,
           NEW t, t = RemoveAt(s, k), NoneTwice(s)
    PROVE  /\ t \in Seq(S)
           /\ ToSet(t) = ToSet(s) \ {s[k]}
           /\ NoneTwice(t)
           /\ \A y, z : Ahead(s, y, z) /\ y # s[k] /\ z # s[k] => Ahead(t, y, z)
<1> DEFINE From(i) == IF i < k THEN i ELSE i + 1
           To(i) == IF i < k THEN i ELSE i - 1
<1>1. /\ t \in Seq(S) /\ Len(t) = Len(s) - 1 /\ DOMAIN t = 1..Len(s) - 1
      /\ DOMAIN s = 1..Len(s) /\ Len(s) \in Nat /\ k \in 1..Len(s)
      /\ \A i \in 1..Len(s) - 1 : t[i] = IF i < k THEN s[i] ELSE s[i + 1]
  <2>1. DOMAIN s = 1..Len(s) /\ Len(s) \in Nat /\ k \in 1..Len(s)
    BY LenProperties
  <2>2. /\ t \in Seq(S) /\ Len(t) = Len(s) - 1
        /\ \A i \in 1..Len(s) - 1 : t[i] = IF i < k THEN s[i] ELSE s[i + 1]
    BY <2>1, Removed
  <2> QED BY <2>1, <2>2, LenProperties
<1>2. \A i \in DOMAIN t : From(i) \in DOMAIN s /\ From(i) # k /\ t[i] = s[From(i)]
  BY <1>1
<1>3. \A i \in DOMAIN s : i # k => To(i) \in DOMAIN t /\ t[To(i)] = s[i]
  <2> SUFFICES ASSUME NEW i \in DOMAIN s, i # k
               PROVE  To(i) \in DOMAIN t /\ t[To(i)] = s[i]
    OBVIOUS
  <2>1. CASE i < k
    BY <2>1, <1>1
  <2>2. CASE ~ i < k
    <3>1. i - 1 \in 1..Len(s) - 1 /\ ~ i - 1 < k /\ (i - 1) + 1 = i
      BY <2>2, <1>1
    <3> QED BY <3>1, <2>2, <1>1
  <2> QED BY <2>1, <2>2
<1>4. \A i \in DOMAIN s : s[i] = s[k] => i = k
  BY DEF NoneTwice
<1>5. ToSet(t) = ToSet(s) \ {s[k]}
  <2>1. ASSUME NEW i \in DOMAIN t PROVE t[i] \in ToSet(s) \ {s[k]}
    <3>1. From(i) \in DOMAIN s /\ From(i) # k /\ t[i] = s[From(i)]
      BY <1>2
    <3> HIDE DEF From
    <3> QED BY <3>1, <1>4 DEF ToSet
  <2>2. ASSUME NEW i \in DOMAIN s, s[i] # s[k] PROVE s[i] \in ToSet(t)
    <3>1. i # k
      BY <2>2
    <3>2. To(i) \in DOMAIN t /\ t[To(i)] = s[i]
      BY <3>1, <1>3
    <3> HIDE DEF To
    <3> QED BY <3>2 DEF ToSet
  <2> QED BY <2>1, <2>2 DEF ToSet
<1>6. ASSUME NEW i \in DOMAIN t, NEW j \in DOMAIN t, t[i] = t[j] PROVE i = j
  <2>1. /\ From(i) \in DOMAIN s /\ From(j) \in DOMAIN s /\ s[From(i)] = s[From(j)]
    BY <1>6, <1>2
  <2>2. From(i) = From(j)
    BY <2>1 DEF NoneTwice
  <2> QED BY <2>2, <1>1
<1>7. ASSUME NEW y, NEW z, Ahead(s, y, z), y # s[k], z # s[k] PROVE Ahead(t, y, z)
  <2>1. PICK i \in DOMAIN s, j \in DOMAIN s : i < j /\ s[i] = y /\ s[j] = z
    BY <1>7 DEF Ahead
  <2>2. i # k /\ j # k
    BY <2>1, <1>7
  <2>3. To(i) < To(j)
    BY <2>1, <2>2, <1>1
  <2>4. /\ To(i) \in DOMAIN t /\ To(j) \in DOMAIN t
        /\ t[To(i)] = y /\ t[To(j)] = z
    BY <2>1, <2>2, <1>3
  <2> HIDE DEF To
  <2> QED BY <2>3, <2>4 DEF Ahead
<1> QED BY <1>1, <1>5, <1>6, <1>7 DEF NoneTwice

-----------------------------------------------------------------------------
(* What is read: the events, the queue and the circuits *)

CircuitStates == {"none", "closed", "open", "half_open"}

WorldInv ==
    /\ phase \in [Events -> {"unborn", "waiting"} \cup Final]
    /\ tries \in [Events -> Nat]
    /\ dlq \in Seq(Events)
    /\ circuit \in [Endpoints -> CircuitStates]
    /\ IsFiniteSet(Rows)
    /\ NoneTwice(dlq)
    /\ \A e \in ToSet(dlq) : phase[e] = "dead_lettered"

(* A row stays, a settled event stays as it is, attempts are only added. *)
Onwards ==
    \A e \in Events :
        /\ phase[e] # "unborn" => phase'[e] # "unborn"
        /\ phase[e] \in Final => phase'[e] = phase[e] /\ tries'[e] = tries[e]
        /\ tries[e] <= tries'[e]

LEMMA EntriesAreSettled ==
    ASSUME WorldInv
    PROVE  \A e \in ToSet(dlq) : e \in Events /\ phase[e] = "dead_lettered"
<1>1. DOMAIN dlq = 1..Len(dlq) /\ \A i \in 1..Len(dlq) : dlq[i] \in Events
  BY LenProperties, ElementOfSeq DEF WorldInv
<1> QED BY <1>1 DEF WorldInv, ToSet

LEMMA InitWorld == Init => WorldInv
<1> SUFFICES ASSUME Init PROVE WorldInv
  OBVIOUS
<1>1. /\ phase = [e \in Events |-> "unborn"] /\ tries = [e \in Events |-> 0]
      /\ dlq = << >> /\ circuit = [p \in Endpoints |-> "none"]
  BY DEF Init, LifecycleInit
<1>2. Rows = {}
  BY <1>1 DEF Rows
<1>3. DOMAIN dlq = {} /\ dlq \in Seq(Events)
  BY <1>1, EmptySeq
<1> QED BY <1>1, <1>2, <1>3, FS_EmptySet DEF WorldInv, NoneTwice, ToSet, CircuitStates

(* An event's own step: a row more, an attempt more, an outcome. *)
LEMMA EventMoves ==
    ASSUME WorldInv, NEW e \in Events, Accept(e) \/ Retry(e) \/ Succeed(e) \/ GiveUp(e)
    PROVE  /\ phase' \in [Events -> {"unborn", "waiting"} \cup Final]
           /\ tries' \in [Events -> Nat]
           /\ IsFiniteSet(Rows')
           /\ Onwards
<1>1. /\ phase \in [Events -> {"unborn", "waiting"} \cup Final]
      /\ tries \in [Events -> Nat] /\ IsFiniteSet(Rows)
  BY DEF WorldInv
<1>2. /\ phase[e] \in {"unborn", "waiting"}
      /\ \/ phase' = phase
         \/ \E x \in {"waiting"} \cup Final : phase' = [phase EXCEPT ![e] = x]
      /\ tries' = tries \/ tries' = [tries EXCEPT ![e] = @ + 1]
  BY DEF Accept, Retry, Succeed, GiveUp, Final
<1>3. tries' \in [Events -> Nat] /\ \A f \in Events : tries[f] <= tries'[f]
  BY <1>1, <1>2
<1>4. \A f \in Events : f # e => phase'[f] = phase[f] /\ tries'[f] = tries[f]
  BY <1>1, <1>2
<1>5. /\ phase' \in [Events -> {"unborn", "waiting"} \cup Final]
      /\ phase[e] # "unborn" => phase'[e] # "unborn"
  BY <1>1, <1>2 DEF Final
<1>6. Onwards
  BY <1>1, <1>2, <1>3, <1>4, <1>5 DEF Onwards, Final
<1>7. IsFiniteSet(Rows')
  <2>1. IsFiniteSet(Rows \cup {e})
    BY <1>1, FS_AddElement
  <2>2. Rows' \subseteq Rows \cup {e}
    BY <1>4 DEF Rows
  <2> QED BY <2>1, <2>2, FS_Subset
<1> QED BY <1>3, <1>5, <1>6, <1>7

LEMMA Stays ==
    ASSUME WorldInv, UNCHANGED <<phase, tries>>
    PROVE  /\ phase' \in [Events -> {"unborn", "waiting"} \cup Final]
           /\ tries' \in [Events -> Nat] /\ IsFiniteSet(Rows') /\ Onwards
<1>1. Rows' = Rows
  BY DEF Rows
<1> QED BY <1>1 DEF WorldInv, Onwards

(* A new entry comes somewhere into the order; the others keep theirs. *)
LEMMA EntryComes ==
    ASSUME WorldInv, NEW e \in Events, e \notin ToSet(dlq), Enter(e)
    PROVE  /\ dlq' \in Seq(Events) /\ NoneTwice(dlq') /\ ToSet(dlq') = ToSet(dlq) \cup {e}
           /\ \A y, z : Ahead(dlq, y, z) => Ahead(dlq', y, z)
<1>1. dlq \in Seq(Events) /\ NoneTwice(dlq)
  BY DEF WorldInv
<1>2. PICK k \in 1..Len(dlq) + 1 : dlq' = InsertAt(dlq, k, e)
  BY DEF Enter
<1> QED BY <1>1, <1>2, InsertKeepsOrder

LEMMA EntryGoes ==
    ASSUME WorldInv, NEW e \in Events, Discard(e)
    PROVE  /\ e \in ToSet(dlq)
           /\ dlq' \in Seq(Events) /\ NoneTwice(dlq') /\ ToSet(dlq') = ToSet(dlq) \ {e}
           /\ \A y, z : Ahead(dlq, y, z) /\ y # e /\ z # e => Ahead(dlq', y, z)
<1>1. dlq \in Seq(Events) /\ NoneTwice(dlq)
  BY DEF WorldInv
<1>2. PICK k \in DOMAIN dlq : dlq[k] = e /\ dlq' = RemoveAt(dlq, k)
  BY DEF Discard
<1>3. e \in ToSet(dlq)
  BY <1>2 DEF ToSet
<1> QED BY <1>1, <1>2, <1>3, RemoveKeepsOrder

LEMMA CircuitMoves ==
    ASSUME WorldInv, NEW p, NEW s \in CircuitStates, SetCircuit(p, s)
    PROVE  circuit' \in [Endpoints -> CircuitStates]
<1>1. circuit \in [Endpoints -> CircuitStates]
  BY DEF WorldInv
<1>2. circuit' = [circuit EXCEPT ![p] = s]
  BY DEF SetCircuit
<1> QED BY <1>1, <1>2

(* The reads that change nothing of what is read. *)
LEMMA ReadingChangesNothing ==
    ASSUME \/ \E a \in Requests : Ask(a)
           \/ Leave \/ CountStatuses \/ CountEntries \/ EndScan \/ ReadLatency
           \/ ReadRow \/ ReadAttempts \/ ReadPage \/ ReadTotal
           \/ \E p \in Endpoints : ReadCircuit(p)
           \/ UNCHANGED vars
    PROVE  UNCHANGED world
<1>1. ASSUME NEW a \in Requests, Ask(a) PROVE UNCHANGED world
  BY <1>1 DEF Ask
<1>2. CASE Leave
  BY <1>2 DEF Leave
<1>3. CASE CountStatuses \/ CountEntries \/ EndScan \/ ReadLatency
  BY <1>3 DEF CountStatuses, CountEntries, EndScan, ReadLatency
<1>4. CASE ReadRow \/ ReadAttempts \/ ReadPage \/ ReadTotal
  BY <1>4 DEF ReadRow, ReadAttempts, ReadPage, ReadTotal
<1>5. ASSUME NEW p \in Endpoints, ReadCircuit(p) PROVE UNCHANGED world
  BY <1>5 DEF ReadCircuit
<1>6. CASE UNCHANGED vars
  BY <1>6 DEF vars
<1> QED BY <1>1, <1>2, <1>3, <1>4, <1>5, <1>6

LEMMA StepWorld == WorldInv /\ [Next]_vars => WorldInv' /\ Onwards
<1> SUFFICES ASSUME WorldInv, [Next]_vars PROVE WorldInv' /\ Onwards
  OBVIOUS
<1>1. ASSUME NEW e \in Events, Advance(e) PROVE WorldInv' /\ Onwards
  <2>1. /\ phase' \in [Events -> {"unborn", "waiting"} \cup Final]
        /\ tries' \in [Events -> Nat] /\ IsFiniteSet(Rows') /\ Onwards
    BY <1>1, EventMoves DEF Advance
  <2>2. circuit' = circuit
    BY <1>1 DEF Advance
  <2>3. CASE UNCHANGED dlq
    <3>1. \A f \in ToSet(dlq) : f \in Events /\ phase'[f] = "dead_lettered"
      BY <2>1, EntriesAreSettled DEF Onwards, Final
    <3> QED BY <2>1, <2>2, <2>3, <3>1 DEF WorldInv
  <2>4. CASE GiveUp(e) /\ Enter(e)
    <3>1. phase[e] = "waiting" /\ phase'[e] = "dead_lettered"
      BY <2>4 DEF GiveUp, WorldInv
    <3>2. e \notin ToSet(dlq)
      BY <3>1 DEF WorldInv
    <3>3. /\ dlq' \in Seq(Events) /\ NoneTwice(dlq') /\ ToSet(dlq') = ToSet(dlq) \cup {e}
      BY <2>4, <3>2, EntryComes
    <3>4. \A f \in ToSet(dlq) : f \in Events /\ phase'[f] = "dead_lettered"
      BY <2>1, EntriesAreSettled DEF Onwards, Final
    <3>5. \A f \in ToSet(dlq') : phase'[f] = "dead_lettered"
      BY <3>1, <3>3, <3>4
    <3>6. circuit \in [Endpoints -> CircuitStates]
      BY DEF WorldInv
    <3> QED BY <2>1, <2>2, <3>3, <3>5, <3>6 DEF WorldInv
  <2> QED BY <1>1, <2>3, <2>4 DEF Advance
<1>2. ASSUME NEW e \in Events, PutOff(e) PROVE WorldInv' /\ Onwards
  <2>1. UNCHANGED <<phase, tries, dlq, circuit>>
    BY <1>2 DEF PutOff
  <2> QED BY <2>1, Stays DEF WorldInv
<1>3. ASSUME NEW e \in Events, Discard(e) PROVE WorldInv' /\ Onwards
  <2>1. UNCHANGED <<phase, tries, circuit>>
    BY <1>3 DEF Discard
  <2>2. /\ dlq' \in Seq(Events) /\ NoneTwice(dlq') /\ ToSet(dlq') \subseteq ToSet(dlq)
    BY <1>3, EntryGoes
  <2> QED BY <2>1, <2>2, Stays DEF WorldInv
<1>4. ASSUME NEW p, NEW s \in CircuitStates, SetCircuit(p, s),
             UNCHANGED <<phase, tries, dlq>>
      PROVE  WorldInv' /\ Onwards
  BY <1>4, CircuitMoves, Stays DEF WorldInv
<1>5. ASSUME NEW p \in Endpoints, MoveCircuit(p) PROVE WorldInv' /\ Onwards
  BY <1>4, <1>5 DEF MoveCircuit, CircuitStates
<1>6. ASSUME UNCHANGED world PROVE WorldInv' /\ Onwards
  BY <1>6, Stays DEF WorldInv, world
<1>7. CASE ReadState
  BY <1>4, <1>6, <1>7 DEF ReadState, CircuitStates, world
<1> QED BY <1>1, <1>2, <1>3, <1>5, <1>6, <1>7, ReadingChangesNothing
        DEF Next, Meanwhile, Read

-----------------------------------------------------------------------------
(* What is asked and where its handler is *)

RouteOf(kind) ==
    CASE kind = "none" -> {"idle"}
      [] kind = "stats" -> {"statuses", "entries", "circuits", "done"}
      [] kind = "endpoint_stats" -> {"statuses", "latency", "state", "done"}
      [] kind = "event" -> {"row", "attempts", "done"}
      [] OTHER -> {"page", "total", "done"}

Shown ==
    [counts : [Statuses -> Nat], entries : Nat, latency : BOOLEAN,
     items : SUBSET (Events \cup Nat \cup Endpoints),
     status : Statuses \cup CircuitStates, attempts : Nat, successes : SUBSET Nat]

Since ==
    [events : SUBSET Events, listed : SUBSET (Events \cup Nat), removed : Nat,
     keyed : SUBSET Endpoints, opened : SUBSET Endpoints, steady : SUBSET Endpoints]

HandlerInv ==
    /\ asked \in Requests \cup {NoRequest}
    /\ asked.event \in Rows \cup {None}
    /\ step \in RouteOf(asked.kind)
    /\ page \in Nat \ {0}
    /\ shown \in Shown
    /\ since \in Since
    /\ step = "idle" => page = 1 /\ shown = Nothing

LEMMA WhatIsAsked ==
    ASSUME NEW a \in Requests \cup {NoRequest}
    PROVE  /\ a.kind \in {"none", "stats", "endpoint_stats", "dlq", "event", "attempts"}
           /\ a.kind = "none" <=> a = NoRequest
           /\ a.kind \in {"none", "stats"} => a.endpoint = None
           /\ a.kind = "endpoint_stats" => a.endpoint \in Endpoints
           /\ a.kind = "dlq" => a.endpoint \in Endpoints \cup {None}
           /\ a.kind \in {"event", "attempts"} => a.event \in Events
BY DEF Requests, NoRequest

LEMMA ListingTyped ==
    ASSUME WorldInv, NEW a \in Requests \cup {NoRequest}
    PROVE  Listing(a) \subseteq Events \cup Nat
<1>1. CASE a.kind = "dlq"
  BY <1>1, EntriesAreSettled DEF Listing, Entries
<1>2. CASE a.kind = "attempts"
  BY <1>2 DEF Listing, Attempts
<1>3. CASE a.kind # "dlq" /\ a.kind # "attempts"
  BY <1>3 DEF Listing
<1> QED BY <1>1, <1>2, <1>3

LEMMA NowTyped ==
    ASSUME WorldInv, NEW a \in Requests \cup {NoRequest}
    PROVE  Now(a) \in Since
<1>1. Listing(a) \subseteq Events \cup Nat
  BY ListingTyped
<1>2. EventsOf(a.endpoint) \subseteq Events
  BY DEF EventsOf, Rows
<1>3. Keyed \subseteq Endpoints /\ OpenCircuits \subseteq Endpoints
  BY DEF Keyed, OpenCircuits
<1> QED BY <1>1, <1>2, <1>3 DEF Now, Since

LEMMA NothingTyped == Nothing \in Shown
BY DEF Nothing, Shown, Statuses, CircuitStates

LEMMA InitHandler == Init => HandlerInv
<1> SUFFICES ASSUME Init PROVE HandlerInv
  OBVIOUS
<1>1. /\ asked = NoRequest /\ step = "idle" /\ page = 1
      /\ shown = Nothing /\ since = Now(NoRequest)
  BY DEF Init
<1>2. since \in Since
  BY <1>1, InitWorld, NowTyped
<1>3. step \in RouteOf(asked.kind) /\ asked.event = None
  BY <1>1 DEF RouteOf, NoRequest
<1> QED BY <1>1, <1>2, <1>3, NothingTyped DEF HandlerInv

LEMMA CircuitHistoryTyped ==
    ASSUME since \in Since, NEW p \in Endpoints, NEW s, SetCircuit(p, s)
    PROVE  since' \in Since
BY DEF SetCircuit, Since

(* Meanwhile: nothing of the handler moves, but the history does. *)
LEMMA MeanwhileTheHandlerWaits ==
    ASSUME WorldInv, HandlerInv, Meanwhile
    PROVE  HandlerInv' /\ UNCHANGED <<asked, step, page, shown>>
<1>1. since \in Since
  BY DEF HandlerInv
<1>2. ASSUME NEW e \in Events, Advance(e)
      PROVE  since' \in Since /\ UNCHANGED <<asked, step, page, shown>>
  BY <1>1, <1>2 DEF Advance
<1>3. ASSUME NEW e \in Events, PutOff(e)
      PROVE  since' \in Since /\ UNCHANGED <<asked, step, page, shown>>
  BY <1>1, <1>3 DEF PutOff
<1>4. ASSUME NEW e \in Events, Discard(e)
      PROVE  since' \in Since /\ UNCHANGED <<asked, step, page, shown>>
  <2>1. UNCHANGED <<asked, step, page, shown>>
    BY <1>4 DEF Discard
  <2>2. \E n \in Nat : since' = [since EXCEPT !.removed = n]
    BY <1>1, <1>4 DEF Discard, Since
  <2>3. since' \in Since
    BY <1>1, <2>2 DEF Since
  <2> QED BY <2>1, <2>3
<1>5. ASSUME NEW p \in Endpoints, MoveCircuit(p)
      PROVE  since' \in Since /\ UNCHANGED <<asked, step, page, shown>>
  BY <1>1, <1>5, CircuitHistoryTyped DEF MoveCircuit
<1>6. since' \in Since /\ UNCHANGED <<asked, step, page, shown>>
  BY <1>2, <1>3, <1>4, <1>5 DEF Meanwhile
<1>7. Rows \subseteq Rows'
  BY StepWorld DEF Onwards, Rows, Next
<1> QED BY <1>6, <1>7 DEF HandlerInv

LEMMA StepHandler == WorldInv /\ HandlerInv /\ [Next]_vars => HandlerInv'
<1> SUFFICES ASSUME WorldInv, HandlerInv, [Next]_vars PROVE HandlerInv'
  OBVIOUS
<1> USE DEF HandlerInv
<1>a. /\ asked \in Requests \cup {NoRequest} /\ page \in Nat \ {0}
      /\ shown \in Shown /\ since \in Since /\ step \in RouteOf(asked.kind)
  OBVIOUS
<1>b. asked.kind \in {"none", "stats", "endpoint_stats", "dlq", "event", "attempts"}
  BY WhatIsAsked
<1>c. step # "idle" => After(asked.kind, step) \in RouteOf(asked.kind) \ {"idle"}
  BY <1>a, <1>b DEF RouteOf, After
<1>d. Rows \subseteq Rows'
  BY StepWorld DEF Onwards, Rows
<1>1. CASE Meanwhile
  BY <1>1, MeanwhileTheHandlerWaits
<1>2. ASSUME NEW a \in Requests, Ask(a) PROVE HandlerInv'
  <2>1. /\ asked' = a /\ step' = After(a.kind, "ask") /\ since' = Now(a)
        /\ UNCHANGED <<page, shown>>
    BY <1>2 DEF Ask
  <2>2. a.kind \in {"stats", "endpoint_stats", "dlq", "event", "attempts"}
    BY WhatIsAsked DEF Requests
  <2>3. step' \in RouteOf(a.kind) \ {"idle"}
    BY <2>1, <2>2 DEF RouteOf, After
  <2>4. asked'.event \in Rows' \cup {None}
    BY <1>2, <2>1, <1>d DEF Ask
  <2> QED BY <2>1, <2>3, <2>4, NowTyped
<1>3. CASE Leave
  <2>1. /\ asked' = NoRequest /\ step' = "idle" /\ page' = 1
        /\ shown' = Nothing /\ since' = Now(NoRequest)
    BY <1>3 DEF Leave
  <2>2. step' \in RouteOf(asked'.kind) /\ asked'.event = None
    BY <2>1 DEF RouteOf, NoRequest
  <2> QED BY <2>1, <2>2, NowTyped, NothingTyped
<1>4. ASSUME step # "idle", Proceed, UNCHANGED <<asked, page>>,
             shown' \in Shown, since' \in Since
      PROVE  HandlerInv'
  BY <1>4, <1>c, <1>d DEF Proceed
<1>5. CASE CountStatuses
  <2>1. \A s \in Statuses :
            Cardinality({e \in EventsOf(asked.endpoint) : Status(e) = s}) \in Nat
    BY FS_Subset, FS_CardinalityType DEF EventsOf, WorldInv
  <2>2. [s \in Statuses |-> Cardinality({e \in EventsOf(asked.endpoint) : Status(e) = s})]
            \in [Statuses -> Nat]
    BY <2>1
  <2>3. shown' \in Shown
    BY <1>5, <2>2, <1>a DEF CountStatuses, Shown
  <2> QED BY <1>4, <1>5, <2>3, <1>a DEF CountStatuses
<1>6. CASE CountEntries
  <2>1. Len(dlq) \in Nat
    BY LenProperties DEF WorldInv
  <2>2. shown' \in Shown
    BY <1>6, <2>1, <1>a DEF CountEntries, Shown
  <2> QED BY <1>4, <1>6, <2>2, <1>a DEF CountEntries
<1>7. CASE EndScan
  BY <1>4, <1>7, <1>a DEF EndScan
<1>8. CASE ReadLatency
  <2>1. shown' \in Shown
    BY <1>8, <1>a DEF ReadLatency, Shown
  <2> QED BY <1>4, <1>8, <2>1, <1>a DEF ReadLatency
<1>9. CASE ReadState
  <2>1. step = "state" /\ asked.endpoint \in Endpoints
    BY <1>9, <1>a, <1>b, WhatIsAsked DEF ReadState, RouteOf
  <2>2. circuit[asked.endpoint] \in CircuitStates
    BY <2>1 DEF WorldInv
  <2>3. \E s \in CircuitStates : shown' = [shown EXCEPT !.status = s]
    BY <1>9, <2>2 DEF ReadState, CircuitStates
  <2>4. shown' \in Shown
    BY <2>3, <1>a DEF Shown
  <2>5. since' \in Since
    BY <1>9, <2>1, <1>a, CircuitHistoryTyped DEF ReadState
  <2> QED BY <1>4, <1>9, <2>4, <2>5, <1>a DEF ReadState
<1>10. CASE ReadRow \/ ReadAttempts
  <2>1. asked.event \in Events
    BY <1>10, <1>a, <1>b, WhatIsAsked DEF ReadRow, ReadAttempts, RouteOf
  <2>2. tries[asked.event] \in Nat /\ Succeeded(asked.event) \subseteq Nat
    BY <2>1 DEF WorldInv, Succeeded
  <2>3. CASE ReadRow
    <3>1. asked.event \in Rows
      BY <2>1, ViewsAssumption
    <3>2. Status(asked.event) \in Statuses
      BY <3>1, <2>1 DEF Status, Statuses, WorldInv, Final, Rows
    <3>3. shown' \in Shown
      BY <2>3, <3>2, <2>2, <1>a DEF ReadRow, Shown
    <3> QED BY <1>4, <2>3, <3>3, <1>a DEF ReadRow
  <2>4. CASE ReadAttempts
    <3>1. shown' \in Shown
      BY <2>4, <2>2, <1>a DEF ReadAttempts, Shown
    <3> QED BY <1>4, <2>4, <3>1, <1>a DEF ReadAttempts
  <2> QED BY <1>10, <2>3, <2>4
<1>11. CASE ReadPage
  <2>1. PageOf(asked) \subseteq Events \cup Nat
    BY ListingTyped DEF PageOf
  <2>2. shown' \in Shown
    BY <1>11, <2>1, <1>a DEF ReadPage, Shown
  <2>3. step \in RouteOf(asked.kind) /\ step = "page" /\ step' = "total"
    BY <1>11 DEF ReadPage
  <2>4. step' \in RouteOf(asked.kind)
    BY <2>3, <1>b DEF RouteOf
  <2> QED BY <1>11, <2>2, <2>3, <2>4, <1>d DEF ReadPage
<1>12. CASE ReadTotal
  <2>1. step' \in {"page", "done"} /\ page' \in Nat \ {0} /\ UNCHANGED <<asked, shown, since>>
    BY <1>12 DEF ReadTotal
  <2>2. step \in RouteOf(asked.kind) /\ step = "total"
    BY <1>12 DEF ReadTotal
  <2>3. step' \in RouteOf(asked.kind)
    BY <2>1, <2>2, <1>b DEF RouteOf
  <2> QED BY <2>1, <2>3, <1>d
<1>13. ASSUME NEW p \in Endpoints, ReadCircuit(p) PROVE HandlerInv'
  <2>1. UNCHANGED <<asked, step, page>> /\ step # "idle"
    BY <1>13 DEF ReadCircuit
  <2>2. shown' = [shown EXCEPT !.items = @ \cup {p}] \/ shown' = shown
    BY <1>13, <1>a DEF ReadCircuit, Shown
  <2>3. shown' \in Shown
    BY <2>2, <1>a DEF Shown
  <2>4. since' \in Since
    BY <1>13, <1>a DEF ReadCircuit, Since
  <2> QED BY <2>1, <2>3, <2>4, <1>d
<1>14. CASE UNCHANGED vars
  BY <1>14, <1>d DEF vars
<1> QED BY <1>1, <1>2, <1>3, <1>5, <1>6, <1>7, <1>8, <1>9, <1>10, <1>11, <1>12,
           <1>13, <1>14 DEF Next, Read

-----------------------------------------------------------------------------
(* The inductive invariants of the four answers *)

DetailInv ==
    /\ asked.kind = "event" /\ step = "attempts" =>
           /\ shown.entries <= tries[asked.event]
           /\ shown.status = "delivered" => phase[asked.event] = "delivered"
    /\ DetailIsCoherent

(* A circuit that has been open all the time has been read, or SCAN has yet *)
(* to yield it.                                                             *)
CircuitsInv ==
    asked.kind = "stats" =>
        /\ since.steady \subseteq OpenCircuits
        /\ OpenCircuits \subseteq since.opened
        /\ step \in {"statuses", "entries"} => shown.items = {}
        /\ since.steady \subseteq since.keyed \cup shown.items
        /\ shown.items \subseteq since.opened
        /\ step = "done" => since.keyed = {}

DeadLettered == {e \in Rows : phase[e] = "dead_lettered"}

(* What one read has counted can only have grown when the next one counts. *)
StatsInv ==
    /\ Counts(asked) => since.events \subseteq EventsOf(asked.endpoint)
    /\ Counts(asked) /\ step # "statuses" => Cardinality(since.events) <= Total
    /\ asked.kind = "stats" /\ step = "entries" =>
           shown.counts["dead_lettered"] <= Cardinality(DeadLettered)
    /\ asked.kind = "stats" /\ step \in {"circuits", "done"} =>
           shown.counts["dead_lettered"] <= shown.entries + Cardinality(Discarded)
    /\ asked.kind = "endpoint_stats" /\ step = "latency" /\ shown.counts["delivered"] > 0 =>
           \E e \in EventsOf(asked.endpoint) : phase[e] = "delivered"
    /\ asked.kind = "endpoint_stats" /\ step \in {"state", "done"}
       /\ shown.counts["delivered"] > 0 => shown.latency

(* How many rows the pages read so far have gone past. *)
Offset == IF step = "page" THEN (page - 1) * PageSize ELSE page * PageSize

Browsing == asked.kind \in {"dlq", "attempts"}

Missing ==
    {x \in (since.listed \cap Listing(asked)) \ shown.items :
        Cardinality(Before(asked, x)) < Offset}

(* Only a removal brings an unread row into what the pages have gone past, *)
(* and each brings one.                                                    *)
BrowsingInv ==
    Browsing =>
        /\ Cardinality(Missing) <= since.removed
        /\ \A x \in since.listed :
               IF asked.kind = "dlq" THEN x \in Events /\ phase[x] = "dead_lettered"
                                     ELSE x \in 1..tries[asked.event]
        /\ step = "done" => Cardinality(Listing(asked)) <= Offset

-----------------------------------------------------------------------------
(* Which request a statement belongs to *)

LEMMA WhoseStep ==
    ASSUME HandlerInv
    PROVE  /\ step = "statuses" => asked.kind \in {"stats", "endpoint_stats"}
           /\ step \in {"entries", "circuits"} => asked.kind = "stats"
           /\ step \in {"latency", "state"} => asked.kind = "endpoint_stats"
           /\ step \in {"row", "attempts"} => asked.kind = "event"
           /\ step \in {"page", "total"} => Browsing
           /\ step = "idle" <=> asked = NoRequest
           /\ step = "idle" => asked.kind = "none"
<1>1. asked.kind \in {"none", "stats", "endpoint_stats", "dlq", "event", "attempts"}
  BY WhatIsAsked DEF HandlerInv
<1>2. asked.kind = "none" <=> asked = NoRequest
  BY WhatIsAsked DEF HandlerInv
<1> QED BY <1>1, <1>2 DEF HandlerInv, RouteOf, Browsing

(* A statement changes what it shows, and hands over to the next one. *)
LEMMA CountStatusesStep ==
    ASSUME HandlerInv, CountStatuses
    PROVE  /\ step = "statuses" /\ UNCHANGED <<world, asked, page, since>>
           /\ step' = IF asked.kind = "stats" THEN "entries" ELSE "latency"
           /\ shown' = [shown EXCEPT !.counts = [s \in Statuses |->
                 Cardinality({e \in EventsOf(asked.endpoint) : Status(e) = s})]]
BY DEF CountStatuses, Proceed, After

LEMMA CountEntriesStep ==
    ASSUME HandlerInv, CountEntries
    PROVE  /\ step = "entries" /\ step' = "circuits" /\ asked.kind = "stats"
           /\ UNCHANGED <<world, asked, page, since>>
           /\ shown' = [shown EXCEPT !.entries = Len(dlq)]
BY WhoseStep DEF CountEntries, Proceed, After

LEMMA EndScanStep ==
    ASSUME HandlerInv, EndScan
    PROVE  /\ step = "circuits" /\ step' = "done" /\ asked.kind = "stats"
           /\ since.keyed = {} /\ UNCHANGED <<world, asked, page, shown, since>>
BY WhoseStep DEF EndScan, Proceed, After

LEMMA ReadLatencyStep ==
    ASSUME HandlerInv, ReadLatency
    PROVE  /\ step = "latency" /\ step' = "state" /\ asked.kind = "endpoint_stats"
           /\ UNCHANGED <<world, asked, page, since>>
           /\ shown' = [shown EXCEPT !.latency =
                 \E e \in EventsOf(asked.endpoint) : Succeeded(e) # {}]
BY WhoseStep DEF ReadLatency, Proceed, After

LEMMA ReadStateStep ==
    ASSUME HandlerInv, ReadState
    PROVE  /\ step = "state" /\ step' = "done" /\ asked.kind = "endpoint_stats"
           /\ UNCHANGED <<phase, tries, failed, dlq, asked, page>>
           /\ \E s : shown' = [shown EXCEPT !.status = s]
           /\ since'.events = since.events /\ since'.listed = since.listed
<1>1. step = "state" /\ asked.kind = "endpoint_stats"
  BY WhoseStep DEF ReadState
<1>2. step' = "done" /\ UNCHANGED <<phase, tries, failed, dlq, asked, page>>
  BY <1>1 DEF ReadState, Proceed, After
<1>3. since \in Since /\ asked \in Requests \cup {NoRequest}
  BY DEF HandlerInv
<1>4. since'.events = since.events /\ since'.listed = since.listed
  BY <1>3 DEF ReadState, SetCircuit, Since
<1>5. \E s : shown' = [shown EXCEPT !.status = s]
  BY DEF ReadState
<1> QED BY <1>1, <1>2, <1>4, <1>5

LEMMA ReadRowStep ==
    ASSUME HandlerInv, ReadRow
    PROVE  /\ step = "row" /\ step' = "attempts" /\ asked.kind = "event"
           /\ UNCHANGED <<world, asked, page, since>>
           /\ shown' = [shown EXCEPT !.status = Status(asked.event),
                                     !.entries = tries[asked.event]]
BY WhoseStep DEF ReadRow, Proceed, After

LEMMA ReadAttemptsStep ==
    ASSUME HandlerInv, ReadAttempts
    PROVE  /\ step = "attempts" /\ step' = "done" /\ asked.kind = "event"
           /\ UNCHANGED <<world, asked, page, since>>
           /\ shown' = [shown EXCEPT !.attempts = tries[asked.event],
                                     !.successes = Succeeded(asked.event)]
BY WhoseStep DEF ReadAttempts, Proceed, After

(* While a request's rows are counted or paged through, what it was asked   *)
(* about stays in the history.                                              *)
LEMMA HistoryStays ==
    ASSUME HandlerInv, Meanwhile
    PROVE  /\ since'.events = since.events /\ since'.listed = since.listed
           /\ step # "done"
<1>1. since \in Since /\ step # "done"
  BY DEF HandlerInv, Meanwhile
<1>2. ASSUME NEW e \in Events, Advance(e) \/ PutOff(e) PROVE since' = since
  BY <1>2 DEF Advance, PutOff
<1>3. ASSUME NEW e \in Events, Discard(e)
      PROVE  since'.events = since.events /\ since'.listed = since.listed
  BY <1>1, <1>3 DEF Discard, Since
<1>4. ASSUME NEW p \in Endpoints, MoveCircuit(p)
      PROVE  since'.events = since.events /\ since'.listed = since.listed
  BY <1>1, <1>4 DEF MoveCircuit, SetCircuit, Since
<1> QED BY <1>1, <1>2, <1>3, <1>4 DEF Meanwhile

-----------------------------------------------------------------------------
(* GET /events/{id} *)

LEMMA InitDetail == Init => DetailInv
BY DEF Init, DetailInv, DetailIsCoherent, Answered, NoRequest

LEMMA StepDetail ==
    WorldInv /\ HandlerInv /\ DetailInv /\ [Next]_vars => DetailInv'
<1> SUFFICES ASSUME WorldInv, HandlerInv, DetailInv, [Next]_vars PROVE DetailInv'
  OBVIOUS
<1>a. Onwards
  BY StepWorld
<1>b. asked \in Requests \cup {NoRequest} /\ shown \in Shown
  BY DEF HandlerInv
<1>c. asked.kind = "event" => asked.event \in Events
  BY <1>b, WhatIsAsked
<1>d. ASSUME asked' = asked, asked.kind # "event" PROVE DetailInv'
  BY <1>d DEF DetailInv, DetailIsCoherent, Answered
<1>1. CASE Meanwhile
  <2>1. UNCHANGED <<asked, step, page, shown>> /\ step # "done"
    BY <1>1, MeanwhileTheHandlerWaits, HistoryStays
  <2>2. CASE asked.kind = "event" /\ step = "attempts"
    <3>1. /\ tries[asked.event] \in Nat /\ tries'[asked.event] \in Nat
          /\ tries[asked.event] <= tries'[asked.event]
          /\ phase[asked.event] = "delivered" => phase'[asked.event] = "delivered"
      BY <1>a, <1>c, <2>2, StepWorld DEF Onwards, WorldInv, Final
    <3>2. /\ shown.entries \in Nat /\ shown.entries <= tries[asked.event]
          /\ shown.status = "delivered" => phase[asked.event] = "delivered"
      BY <1>b, <2>2 DEF DetailInv, Shown
    <3> QED BY <2>1, <3>1, <3>2 DEF DetailInv, DetailIsCoherent, Answered
  <2>3. CASE ~(asked.kind = "event" /\ step = "attempts")
    BY <2>1, <2>3 DEF DetailInv, DetailIsCoherent, Answered
  <2> QED BY <2>2, <2>3
<1>2. ASSUME NEW a \in Requests, Ask(a) PROVE DetailInv'
  <2>1. asked' = a /\ step' = After(a.kind, "ask")
    BY <1>2 DEF Ask
  <2>2. asked'.kind = "event" => step' = "row"
    BY <2>1 DEF After
  <2> QED BY <2>2 DEF DetailInv, DetailIsCoherent, Answered
<1>3. CASE Leave
  <2>1. asked'.kind # "event"
    BY <1>3 DEF Leave, NoRequest
  <2> QED BY <2>1 DEF DetailInv, DetailIsCoherent, Answered
<1>4. CASE ReadRow
  <2>1. /\ step' = "attempts" /\ asked' = asked /\ asked.kind = "event"
        /\ tries' = tries /\ phase' = phase
        /\ shown'.status = Status(asked.event) /\ shown'.entries = tries[asked.event]
    BY <1>4, <1>b, ReadRowStep DEF world, Shown
  <2>2. tries[asked.event] \in Nat
    BY <1>c, <2>1 DEF WorldInv
  <2>3. Status(asked.event) = "delivered" => phase[asked.event] = "delivered"
    BY DEF Status
  <2> QED BY <2>1, <2>2, <2>3 DEF DetailInv, DetailIsCoherent, Answered
<1>5. CASE ReadAttempts
  <2>1. /\ step = "attempts" /\ step' = "done" /\ asked' = asked /\ asked.kind = "event"
        /\ shown'.status = shown.status /\ shown'.entries = shown.entries
        /\ shown'.attempts = tries[asked.event]
        /\ shown'.successes = Succeeded(asked.event)
    BY <1>5, <1>b, ReadAttemptsStep DEF world, Shown
  <2>2. phase[asked.event] = "delivered" => Succeeded(asked.event) # {}
    BY DEF Succeeded
  <2> QED BY <2>1, <2>2 DEF DetailInv, DetailIsCoherent, Answered
<1>6. CASE CountStatuses \/ CountEntries \/ EndScan \/ ReadLatency \/ ReadState
  <2>1. asked' = asked /\ asked.kind # "event"
    BY <1>6, WhoseStep DEF CountStatuses, CountEntries, EndScan, ReadLatency, ReadState
  <2> QED BY <1>d, <2>1
<1>7. CASE ReadPage \/ ReadTotal
  <2>1. asked' = asked /\ asked.kind # "event"
    BY <1>7, WhoseStep DEF ReadPage, ReadTotal, Browsing
  <2> QED BY <1>d, <2>1
<1>8. ASSUME NEW p \in Endpoints, ReadCircuit(p) PROVE DetailInv'
  <2>1. asked' = asked /\ asked.kind # "event"
    BY <1>8, WhoseStep DEF ReadCircuit
  <2> QED BY <1>d, <2>1
<1>9. CASE UNCHANGED vars
  BY <1>9 DEF vars, world, DetailInv, DetailIsCoherent, Answered
<1> QED BY <1>1, <1>2, <1>3, <1>4, <1>5, <1>6, <1>7, <1>8, <1>9 DEF Next, Read

-----------------------------------------------------------------------------
(* The open circuits of GET /stats *)

LEMMA InitCircuits == Init => CircuitsInv
BY DEF Init, CircuitsInv, NoRequest

LEMMA NewStatsRequest ==
    ASSUME HandlerInv, NEW a \in Requests, Ask(a), a.kind = "stats"
    PROVE  /\ since'.keyed = Keyed /\ since'.opened = OpenCircuits
           /\ since'.steady = OpenCircuits /\ since'.events = EventsOf(None)
           /\ shown' = Nothing /\ step' = "statuses"
<1>1. /\ step = "idle" /\ step' = After(a.kind, "ask") /\ since' = Now(a)
      /\ shown' = shown
  BY DEF Ask
<1>2. a.endpoint = None
  BY WhatIsAsked
<1>3. shown' = Nothing /\ step' = "statuses"
  BY <1>1 DEF HandlerInv, After
<1> QED BY <1>1, <1>2, <1>3 DEF Now, Counts

(* A circuit changes while it is asked for the open ones. *)
LEMMA CircuitChanges ==
    ASSUME WorldInv, HandlerInv, CircuitsInv, asked.kind = "stats",
           NEW p \in Endpoints, NEW s \in CircuitStates, SetCircuit(p, s),
           UNCHANGED <<asked, step, shown>>, step # "done"
    PROVE  CircuitsInv'
<1>1. /\ since \in Since /\ circuit \in [Endpoints -> CircuitStates]
      /\ step \in {"statuses", "entries", "circuits"}
  BY DEF HandlerInv, WorldInv, RouteOf
<1>2. /\ since'.keyed = IF s = "none" THEN since.keyed \ {p} ELSE since.keyed
      /\ since'.opened = IF s = "open" THEN since.opened \cup {p} ELSE since.opened
      /\ since'.steady = IF s = "open" THEN since.steady ELSE since.steady \ {p}
  BY <1>1 DEF SetCircuit, Since
<1>3. OpenCircuits' = IF s = "open" THEN OpenCircuits \cup {p} ELSE OpenCircuits \ {p}
  BY <1>1 DEF SetCircuit, OpenCircuits
<1>4. /\ since.steady \subseteq OpenCircuits /\ OpenCircuits \subseteq since.opened
      /\ step \in {"statuses", "entries"} => shown.items = {}
      /\ since.steady \subseteq since.keyed \cup shown.items
      /\ shown.items \subseteq since.opened
  BY DEF CircuitsInv
<1>5. since'.steady \subseteq since'.keyed \cup shown'.items
  BY <1>2, <1>4
<1>6. since'.steady \subseteq OpenCircuits' /\ OpenCircuits' \subseteq since'.opened
  BY <1>2, <1>3, <1>4
<1>7. shown'.items \subseteq since'.opened
  BY <1>2, <1>4
<1>8. step' = step /\ shown'.items = shown.items
  OBVIOUS
<1> QED BY <1>1, <1>4, <1>5, <1>6, <1>7, <1>8 DEF CircuitsInv

LEMMA StepCircuits ==
    WorldInv /\ HandlerInv /\ CircuitsInv /\ [Next]_vars => CircuitsInv'
<1> SUFFICES ASSUME WorldInv, HandlerInv, CircuitsInv, [Next]_vars PROVE CircuitsInv'
  OBVIOUS
<1>b. shown \in Shown /\ since \in Since
  BY DEF HandlerInv
<1>d. ASSUME asked' = asked, asked.kind # "stats" PROVE CircuitsInv'
  BY <1>d DEF CircuitsInv
<1>1. CASE Meanwhile
  <2>1. UNCHANGED <<asked, step, page, shown>> /\ step # "done"
    BY <1>1, MeanwhileTheHandlerWaits, HistoryStays
  <2>2. ASSUME UNCHANGED circuit,
               since'.keyed = since.keyed, since'.opened = since.opened,
               since'.steady = since.steady
        PROVE  CircuitsInv'
    BY <2>1, <2>2 DEF CircuitsInv, OpenCircuits
  <2>3. ASSUME NEW e \in Events, Advance(e) \/ PutOff(e) PROVE CircuitsInv'
    BY <2>2, <2>3 DEF Advance, PutOff
  <2>4. ASSUME NEW e \in Events, Discard(e) PROVE CircuitsInv'
    <3>1. UNCHANGED circuit /\ since'.keyed = since.keyed
          /\ since'.opened = since.opened /\ since'.steady = since.steady
      BY <2>4, <1>b DEF Discard, Since
    <3> QED BY <2>2, <3>1
  <2>5. ASSUME NEW p \in Endpoints, MoveCircuit(p), asked.kind = "stats"
        PROVE  CircuitsInv'
    <3>1. PICK s \in CircuitStates : SetCircuit(p, s)
      BY <2>5 DEF MoveCircuit, CircuitStates
    <3> QED BY <2>1, <2>5, <3>1, CircuitChanges
  <2> QED BY <1>1, <1>d, <2>1, <2>3, <2>4, <2>5 DEF Meanwhile
<1>2. ASSUME NEW a \in Requests, Ask(a) PROVE CircuitsInv'
  <2>1. asked' = a /\ circuit' = circuit
    BY <1>2 DEF Ask, world
  <2>2. CASE a.kind = "stats"
    <3>1. /\ since'.keyed = Keyed /\ since'.opened = OpenCircuits
          /\ since'.steady = OpenCircuits /\ shown'.items = {} /\ step' = "statuses"
      BY <1>2, <2>2, NewStatsRequest DEF Nothing
    <3>2. OpenCircuits \subseteq Keyed /\ OpenCircuits' = OpenCircuits
      BY <2>1 DEF OpenCircuits, Keyed
    <3> QED BY <2>1, <3>1, <3>2 DEF CircuitsInv
  <2> QED BY <2>1, <2>2 DEF CircuitsInv
<1>3. CASE Leave
  <2>1. asked'.kind # "stats"
    BY <1>3 DEF Leave, NoRequest
  <2> QED BY <2>1 DEF CircuitsInv
<1>4. CASE CountStatuses
  <2>1. /\ asked' = asked /\ since' = since /\ circuit' = circuit
        /\ shown'.items = shown.items /\ step = "statuses"
        /\ asked.kind = "stats" => step' = "entries"
    BY <1>4, <1>b, CountStatusesStep DEF world, Shown
  <2> QED BY <2>1 DEF CircuitsInv, OpenCircuits
<1>5. CASE CountEntries
  <2>1. /\ asked' = asked /\ since' = since /\ circuit' = circuit
        /\ shown'.items = shown.items /\ step = "entries" /\ step' = "circuits"
    BY <1>5, <1>b, CountEntriesStep DEF world, Shown
  <2> QED BY <2>1 DEF CircuitsInv, OpenCircuits
<1>6. CASE EndScan
  <2>1. /\ asked' = asked /\ since' = since /\ circuit' = circuit /\ shown' = shown
        /\ step' = "done" /\ since.keyed = {}
    BY <1>6, EndScanStep DEF world
  <2> QED BY <2>1 DEF CircuitsInv, OpenCircuits
<1>7. ASSUME NEW p \in Endpoints, ReadCircuit(p) PROVE CircuitsInv'
  <2>1. /\ asked' = asked /\ step' = step /\ step = "circuits" /\ circuit' = circuit
        /\ asked.kind = "stats"
        /\ since'.keyed = since.keyed \ {p} /\ since'.opened = since.opened
        /\ since'.steady = since.steady
        /\ shown'.items = IF circuit[p] = "open" THEN shown.items \cup {p} ELSE shown.items
    BY <1>7, <1>b, WhoseStep DEF ReadCircuit, IsListed, world, Since, Shown
  <2>2. /\ since.steady \subseteq OpenCircuits /\ OpenCircuits \subseteq since.opened
        /\ since.steady \subseteq since.keyed \cup shown.items
        /\ shown.items \subseteq since.opened
    BY <2>1 DEF CircuitsInv
  <2>3. p \in OpenCircuits <=> circuit[p] = "open"
    BY DEF OpenCircuits
  <2>4. since'.steady \subseteq since'.keyed \cup shown'.items
    BY <2>1, <2>2, <2>3
  <2>5. shown'.items \subseteq since'.opened
    BY <2>1, <2>2, <2>3
  <2>6. OpenCircuits' = OpenCircuits
    BY <2>1 DEF OpenCircuits
  <2> QED BY <2>1, <2>2, <2>4, <2>5, <2>6 DEF CircuitsInv
<1>8. CASE ReadLatency \/ ReadState \/ ReadRow \/ ReadAttempts \/ ReadPage \/ ReadTotal
  <2>1. asked' = asked /\ asked.kind # "stats"
    BY <1>8, WhoseStep
    DEF ReadLatency, ReadState, ReadRow, ReadAttempts, ReadPage, ReadTotal, Browsing
  <2> QED BY <1>d, <2>1
<1>9. CASE UNCHANGED vars
  BY <1>9 DEF vars, world, CircuitsInv, OpenCircuits
<1> QED BY <1>1, <1>2, <1>3, <1>4, <1>5, <1>6, <1>7, <1>8, <1>9 DEF Next, Read

-----------------------------------------------------------------------------
(* The numbers of GET /stats and /endpoints/{id}/stats *)

LEMMA FewerInSubset ==
    ASSUME NEW S, NEW T, IsFiniteSet(T), S \subseteq T
    PROVE  /\ IsFiniteSet(S) /\ Cardinality(S) \in Nat /\ Cardinality(T) \in Nat
           /\ Cardinality(S) <= Cardinality(T)
BY FS_Subset, FS_CardinalityType

LEMMA DisjointUnion ==
    ASSUME NEW S, NEW T, IsFiniteSet(S), IsFiniteSet(T), S \cap T = {}
    PROVE  /\ IsFiniteSet(S \cup T)
           /\ Cardinality(S \cup T) = Cardinality(S) + Cardinality(T)
<1>1. Cardinality(S) \in Nat /\ Cardinality(T) \in Nat /\ Cardinality(S \cap T) = 0
  BY FS_CardinalityType, FS_EmptySet
<1>2. /\ IsFiniteSet(S \cup T)
      /\ Cardinality(S \cup T) = Cardinality(S) + Cardinality(T) - Cardinality(S \cap T)
  BY FS_Union
<1>3. \A m, n, k : m \in Nat /\ n \in Nat /\ k = 0 => m + n - k = m + n
  OBVIOUS
<1> QED BY <1>1, <1>2, <1>3

(* Every event has one status: the counts of all of them make the total. *)
LEMMA CountsMakeTheTotal ==
    ASSUME WorldInv, NEW p,
           NEW n, n = [s \in Statuses |-> Cardinality({e \in EventsOf(p) : Status(e) = s})]
    PROVE  Cardinality(EventsOf(p)) =
               n["pending"] + n["failed"] + n["delivered"] + n["dead_lettered"]
<1> DEFINE With(s) == {e \in EventsOf(p) : Status(e) = s}
<1>1. IsFiniteSet(EventsOf(p))
  BY FS_Subset DEF EventsOf, WorldInv
<1>2. \A s : IsFiniteSet(With(s)) /\ Cardinality(With(s)) \in Nat
  BY <1>1, FS_Subset, FS_CardinalityType
<1>3. \A e \in EventsOf(p) : Status(e) \in Statuses
  BY DEF EventsOf, Rows, Status, Statuses, WorldInv, Final
<1>4. EventsOf(p) = (With("pending") \cup With("failed"))
                        \cup (With("delivered") \cup With("dead_lettered"))
  BY <1>3 DEF Statuses
<1>5. /\ n["pending"] = Cardinality(With("pending"))
      /\ n["failed"] = Cardinality(With("failed"))
      /\ n["delivered"] = Cardinality(With("delivered"))
      /\ n["dead_lettered"] = Cardinality(With("dead_lettered"))
  BY DEF Statuses
<1>6. /\ With("pending") \cap With("failed") = {}
      /\ With("delivered") \cap With("dead_lettered") = {}
      /\ (With("pending") \cup With("failed"))
             \cap (With("delivered") \cup With("dead_lettered")) = {}
  OBVIOUS
<1> HIDE DEF With
<1>7. /\ IsFiniteSet(With("pending") \cup With("failed"))
      /\ Cardinality(With("pending") \cup With("failed"))
             = Cardinality(With("pending")) + Cardinality(With("failed"))
  BY <1>2, <1>6, DisjointUnion
<1>8. /\ IsFiniteSet(With("delivered") \cup With("dead_lettered"))
      /\ Cardinality(With("delivered") \cup With("dead_lettered"))
             = Cardinality(With("delivered")) + Cardinality(With("dead_lettered"))
  BY <1>2, <1>6, DisjointUnion
<1>9. Cardinality(EventsOf(p)) = Cardinality(With("pending") \cup With("failed"))
          + Cardinality(With("delivered") \cup With("dead_lettered"))
  BY <1>4, <1>6, <1>7, <1>8, DisjointUnion
<1> QED BY <1>2, <1>5, <1>7, <1>8, <1>9

LEMMA QueueIsAsLongAsItsEntries ==
    ASSUME WorldInv
    PROVE  /\ Len(dlq) \in Nat
           /\ IsFiniteSet(ToSet(dlq)) /\ Cardinality(ToSet(dlq)) \in Nat
           /\ Cardinality(ToSet(dlq)) <= Len(dlq)
<1>1. Len(dlq) \in Nat /\ DOMAIN dlq = 1..Len(dlq) /\ dlq \in [1..Len(dlq) -> Events]
  BY LenProperties DEF WorldInv
<1>2. dlq \in Surjection(1..Len(dlq), ToSet(dlq))
  BY <1>1 DEF Surjection, ToSet
<1>3. Cardinality(ToSet(dlq)) <= Len(dlq)
  BY <1>1, <1>2, FS_SurjCardinalityBound DEF ExistsSurjection
<1>4. ToSet(dlq) \subseteq Rows
  BY EntriesAreSettled DEF Rows
<1>5. IsFiniteSet(ToSet(dlq)) /\ Cardinality(ToSet(dlq)) \in Nat
  BY <1>4, FewerInSubset DEF WorldInv
<1> QED BY <1>1, <1>3, <1>5

(* An entry is that of an event that is dead lettered in the same step. *)
LEMMA EntriesComeWithTheirEvent ==
    ASSUME WorldInv, [Next]_vars, NEW e \in ToSet(dlq')
    PROVE  e \in ToSet(dlq) \/ (e \in Events /\ phase[e] = "waiting")
<1>1. ASSUME NEW f \in Events, Advance(f)
      PROVE  e \in ToSet(dlq) \/ (e \in Events /\ phase[e] = "waiting")
  <2>1. CASE UNCHANGED dlq
    BY <2>1
  <2>2. CASE GiveUp(f) /\ Enter(f)
    <3>1. phase[f] = "waiting" /\ f \notin ToSet(dlq)
      BY <2>2, EntriesAreSettled DEF GiveUp
    <3>2. ToSet(dlq') = ToSet(dlq) \cup {f}
      BY <2>2, <3>1, EntryComes
    <3> QED BY <3>1, <3>2
  <2> QED BY <1>1, <2>1, <2>2 DEF Advance
<1>2. ASSUME NEW f \in Events, PutOff(f) PROVE UNCHANGED dlq
  BY <1>2 DEF PutOff
<1>3. ASSUME NEW f \in Events, Discard(f) PROVE e \in ToSet(dlq)
  BY <1>3, EntryGoes
<1>4. ASSUME NEW p \in Endpoints, MoveCircuit(p) PROVE UNCHANGED dlq
  BY <1>4 DEF MoveCircuit
<1>5. CASE ReadState
  BY <1>5 DEF ReadState
<1>6. CASE UNCHANGED world
  BY <1>6 DEF world
<1> QED BY <1>1, <1>2, <1>3, <1>4, <1>5, <1>6, ReadingChangesNothing
        DEF Next, Meanwhile, Read

(* What a read has counted is still there at the next one. *)
LEMMA CountedStays ==
    ASSUME WorldInv, [Next]_vars
    PROVE  /\ \A p : EventsOf(p) \subseteq EventsOf(p)'
           /\ \A e \in EventsOf(asked.endpoint) : phase[e] = "delivered" =>
                 phase'[e] = "delivered"
           /\ /\ Cardinality(DeadLettered) \in Nat /\ Cardinality(DeadLettered') \in Nat
              /\ Cardinality(DeadLettered) <= Cardinality(DeadLettered')
           /\ /\ Cardinality(Discarded) \in Nat /\ Cardinality(Discarded') \in Nat
              /\ Cardinality(Discarded) <= Cardinality(Discarded')
<1>1. Onwards /\ WorldInv'
  BY StepWorld
<1>2. Rows \subseteq Rows' /\ IsFiniteSet(Rows')
  BY <1>1 DEF Onwards, Rows, WorldInv
<1>3. DeadLettered \subseteq DeadLettered'
  BY <1>1, <1>2 DEF DeadLettered, Onwards, Final, Rows
<1>4. Discarded \subseteq Discarded'
  <2> SUFFICES ASSUME NEW e \in Discarded PROVE e \in Discarded'
    OBVIOUS
  <2>1. e \in Rows /\ phase[e] = "dead_lettered" /\ e \notin ToSet(dlq)
    BY DEF Discarded
  <2>2. e \notin ToSet(dlq')
    BY <2>1, EntriesComeWithTheirEvent
  <2>3. phase'[e] = "dead_lettered"
    BY <1>1, <2>1 DEF Onwards, Final, Rows
  <2> QED BY <1>2, <2>1, <2>2, <2>3 DEF Discarded
<1>5. DeadLettered' \subseteq Rows' /\ Discarded' \subseteq Rows'
  BY DEF DeadLettered, Discarded
<1>6. IsFiniteSet(DeadLettered') /\ IsFiniteSet(Discarded')
  BY <1>2, <1>5, FewerInSubset
<1>7. \A p : EventsOf(p) \subseteq EventsOf(p)'
  BY <1>2 DEF EventsOf
<1>8. \A e \in EventsOf(asked.endpoint) : phase[e] = "delivered" => phase'[e] = "delivered"
  BY <1>1 DEF EventsOf, Rows, Onwards, Final
<1>9. /\ Cardinality(DeadLettered) \in Nat /\ Cardinality(DeadLettered') \in Nat
      /\ Cardinality(DeadLettered) <= Cardinality(DeadLettered')
  BY <1>3, <1>6, FewerInSubset
<1>10. /\ Cardinality(Discarded) \in Nat /\ Cardinality(Discarded') \in Nat
       /\ Cardinality(Discarded) <= Cardinality(Discarded')
  BY <1>4, <1>6, FewerInSubset
<1> QED BY <1>7, <1>8, <1>9, <1>10

LEMMA InitStats == Init => StatsInv
BY DEF Init, StatsInv, Counts, NoRequest

LEMMA StepStats ==
    WorldInv /\ HandlerInv /\ StatsInv /\ [Next]_vars => StatsInv'
<1> SUFFICES ASSUME WorldInv, HandlerInv, StatsInv, [Next]_vars PROVE StatsInv'
  OBVIOUS
<1>a. \A p : EventsOf(p) \subseteq EventsOf(p)'
  BY CountedStays
<1>b. /\ shown \in Shown /\ since \in Since /\ asked \in Requests \cup {NoRequest}
      /\ step \in RouteOf(asked.kind)
  BY DEF HandlerInv
<1>c. /\ Cardinality(DeadLettered) \in Nat /\ Cardinality(DeadLettered') \in Nat
      /\ Cardinality(DeadLettered) <= Cardinality(DeadLettered')
      /\ Cardinality(Discarded) \in Nat /\ Cardinality(Discarded') \in Nat
      /\ Cardinality(Discarded) <= Cardinality(Discarded')
  BY CountedStays
<1>d. /\ shown.counts["dead_lettered"] \in Nat /\ shown.entries \in Nat
      /\ shown.counts["delivered"] \in Nat
  BY <1>b DEF Shown, Statuses
(* A step between two reads, or of a read that counts nothing of this. *)
<1>e. ASSUME UNCHANGED <<asked, step>>, shown'.counts = shown.counts,
             shown'.entries = shown.entries, shown'.latency = shown.latency,
             since'.events = since.events
      PROVE  StatsInv'
  <2>1. Counts(asked) => since'.events \subseteq EventsOf(asked.endpoint)'
    BY <1>a, <1>e DEF StatsInv
  <2>2. Counts(asked) /\ step # "statuses" => Cardinality(since'.events) <= Total'
    BY <1>e DEF StatsInv, Total
  <2>3. asked.kind = "stats" /\ step = "entries" =>
            shown'.counts["dead_lettered"] <= Cardinality(DeadLettered')
    BY <1>c, <1>d, <1>e DEF StatsInv
  <2>4. asked.kind = "stats" /\ step \in {"circuits", "done"} =>
            shown'.counts["dead_lettered"] <= shown'.entries + Cardinality(Discarded')
    BY <1>c, <1>d, <1>e DEF StatsInv
  <2>5. asked.kind = "endpoint_stats" /\ step = "latency" /\ shown'.counts["delivered"] > 0 =>
            \E e \in EventsOf(asked.endpoint)' : phase'[e] = "delivered"
    BY <1>a, <1>e, CountedStays DEF StatsInv
  <2>6. asked.kind = "endpoint_stats" /\ step \in {"state", "done"}
        /\ shown'.counts["delivered"] > 0 => shown'.latency
    BY <1>e DEF StatsInv
  <2> QED BY <1>e, <2>1, <2>2, <2>3, <2>4, <2>5, <2>6 DEF StatsInv, Counts
<1>f. ASSUME asked' = asked, ~ Counts(asked) PROVE StatsInv'
  BY <1>f DEF StatsInv, Counts
<1>1. CASE Meanwhile
  BY <1>1, <1>e, MeanwhileTheHandlerWaits, HistoryStays
<1>2. ASSUME NEW a \in Requests, Ask(a) PROVE StatsInv'
  <2>1. asked' = a /\ since' = Now(a) /\ step' = After(a.kind, "ask") /\ UNCHANGED world
    BY <1>2 DEF Ask
  <2>2. CASE Counts(a)
    <3>1. step' = "statuses" /\ since'.events = EventsOf(a.endpoint)
      BY <2>1, <2>2 DEF After, Counts, Now
    <3> QED BY <1>a, <2>1, <3>1 DEF StatsInv
  <2>3. CASE ~ Counts(a)
    BY <2>1, <2>3 DEF StatsInv, Counts
  <2> QED BY <2>2, <2>3
<1>3. CASE Leave
  <2>1. asked'.kind = "none"
    BY <1>3 DEF Leave, NoRequest
  <2> QED BY <2>1 DEF StatsInv, Counts
<1>4. CASE CountStatuses
  <2> DEFINE n == [s \in Statuses |->
                      Cardinality({e \in EventsOf(asked.endpoint) : Status(e) = s})]
  <2>1. /\ step = "statuses" /\ asked' = asked /\ since' = since
        /\ phase' = phase /\ shown'.counts = n
        /\ step' = IF asked.kind = "stats" THEN "entries" ELSE "latency"
        /\ asked.kind \in {"stats", "endpoint_stats"}
    BY <1>4, <1>b, CountStatusesStep, WhoseStep DEF world, Shown
  <2>2. Cardinality(since.events) <= Total'
    <3>1. since.events \subseteq EventsOf(asked.endpoint)
      BY <2>1 DEF StatsInv, Counts
    <3>2. IsFiniteSet(EventsOf(asked.endpoint))
      BY FS_Subset DEF EventsOf, WorldInv
    <3>3. Cardinality(since.events) <= Cardinality(EventsOf(asked.endpoint))
      BY <3>1, <3>2, FewerInSubset
    <3>4. Cardinality(EventsOf(asked.endpoint)) =
              n["pending"] + n["failed"] + n["delivered"] + n["dead_lettered"]
      BY CountsMakeTheTotal
    <3> HIDE DEF n
    <3> QED BY <2>1, <3>3, <3>4 DEF Total
  <2>3. asked.kind = "stats" => shown'.counts["dead_lettered"] <= Cardinality(DeadLettered')
    <3> SUFFICES ASSUME asked.kind = "stats"
                 PROVE  shown'.counts["dead_lettered"] <= Cardinality(DeadLettered')
      OBVIOUS
    <3>1. asked.endpoint = None
      BY <1>b, WhatIsAsked
    <3>2. {e \in EventsOf(asked.endpoint) : Status(e) = "dead_lettered"} = DeadLettered
      BY <3>1 DEF EventsOf, DeadLettered, Status
    <3>3. shown'.counts["dead_lettered"] = Cardinality(DeadLettered)
      BY <2>1, <3>2 DEF Statuses
    <3> QED BY <1>c, <3>3
  <2>4. shown'.counts["delivered"] > 0 =>
            \E e \in EventsOf(asked.endpoint) : phase[e] = "delivered"
    <3>1. shown'.counts["delivered"]
             = Cardinality({e \in EventsOf(asked.endpoint) : Status(e) = "delivered"})
      BY <2>1 DEF Statuses
    <3>2. CASE {e \in EventsOf(asked.endpoint) : Status(e) = "delivered"} = {}
      BY <3>1, <3>2, FS_EmptySet
    <3>3. \A e : Status(e) = "delivered" => phase[e] = "delivered"
      BY DEF Status
    <3> QED BY <3>2, <3>3
  <2>5. /\ since'.events \subseteq EventsOf(asked.endpoint)'
        /\ \A e \in EventsOf(asked.endpoint) : e \in EventsOf(asked.endpoint)'
    BY <1>a, <2>1 DEF StatsInv, Counts
  <2> HIDE DEF n
  <2> QED BY <2>1, <2>2, <2>3, <2>4, <2>5 DEF StatsInv, Counts
<1>5. CASE CountEntries
  <2>1. /\ step' = "circuits" /\ step = "entries" /\ asked' = asked /\ since' = since
        /\ asked.kind = "stats"
        /\ shown'.counts = shown.counts /\ shown'.entries = Len(dlq)
    BY <1>5, <1>b, CountEntriesStep DEF Shown
  <2>2. shown'.counts["dead_lettered"] <= Len(dlq) + Cardinality(Discarded)
    <3>1. /\ Len(dlq) \in Nat /\ Cardinality(ToSet(dlq)) \in Nat
          /\ IsFiniteSet(ToSet(dlq)) /\ Cardinality(ToSet(dlq)) <= Len(dlq)
      BY QueueIsAsLongAsItsEntries
    <3>2. IsFiniteSet(Discarded) /\ ToSet(dlq) \cap Discarded = {}
      BY FS_Subset DEF Discarded, WorldInv
    <3>3. /\ IsFiniteSet(ToSet(dlq) \cup Discarded)
          /\ Cardinality(ToSet(dlq) \cup Discarded)
                 = Cardinality(ToSet(dlq)) + Cardinality(Discarded)
      BY <3>1, <3>2, DisjointUnion
    <3>4. DeadLettered \subseteq ToSet(dlq) \cup Discarded
      BY DEF DeadLettered, Discarded
    <3>5. Cardinality(DeadLettered) <= Cardinality(ToSet(dlq) \cup Discarded)
      BY <3>3, <3>4, FewerInSubset
    <3>6. shown.counts["dead_lettered"] <= Cardinality(DeadLettered)
      BY <2>1 DEF StatsInv
    <3> QED BY <1>c, <1>d, <2>1, <3>1, <3>3, <3>5, <3>6
  <2>3. shown'.counts["dead_lettered"] <= Len(dlq) + Cardinality(Discarded')
    BY <1>c, <1>d, <2>1, <2>2, QueueIsAsLongAsItsEntries
  <2>4. /\ since'.events \subseteq EventsOf(asked.endpoint)'
        /\ Cardinality(since'.events) <= Total'
    BY <1>a, <2>1 DEF StatsInv, Counts, Total
  <2> QED BY <2>1, <2>3, <2>4 DEF StatsInv
<1>6. CASE EndScan
  <2>1. /\ step = "circuits" /\ step' = "done" /\ asked' = asked /\ asked.kind = "stats"
        /\ shown' = shown /\ since' = since
    BY <1>6, EndScanStep
  <2>2. shown.counts["dead_lettered"] <= shown.entries + Cardinality(Discarded')
    BY <1>c, <1>d, <2>1 DEF StatsInv
  <2>3. since'.events \subseteq EventsOf(asked.endpoint)'
    BY <1>a, <2>1 DEF StatsInv, Counts
  <2>4. Cardinality(since'.events) <= Total'
    BY <2>1 DEF StatsInv, Counts, Total
  <2> QED BY <2>1, <2>2, <2>3, <2>4 DEF StatsInv
<1>7. CASE ReadLatency
  <2>1. /\ step = "latency" /\ step' = "state" /\ asked.kind = "endpoint_stats"
        /\ asked' = asked /\ since' = since /\ shown'.counts = shown.counts
        /\ shown'.latency = \E e \in EventsOf(asked.endpoint) : Succeeded(e) # {}
    BY <1>7, <1>b, ReadLatencyStep DEF Shown
  <2>2. \A e : phase[e] = "delivered" => Succeeded(e) # {}
    BY DEF Succeeded
  <2>3. shown'.counts["delivered"] > 0 => shown'.latency
    BY <2>1, <2>2 DEF StatsInv
  <2>4. /\ since'.events \subseteq EventsOf(asked.endpoint)'
        /\ Cardinality(since'.events) <= Total'
    BY <1>a, <2>1 DEF StatsInv, Counts, Total
  <2> QED BY <2>1, <2>3, <2>4 DEF StatsInv
<1>8. CASE ReadState
  <2>1. /\ step = "state" /\ step' = "done" /\ asked.kind = "endpoint_stats"
        /\ asked' = asked /\ since'.events = since.events
        /\ shown'.counts = shown.counts /\ shown'.latency = shown.latency
    BY <1>8, <1>b, ReadStateStep DEF Shown
  <2>2. /\ since'.events \subseteq EventsOf(asked.endpoint)'
        /\ Cardinality(since'.events) <= Total'
    BY <1>a, <2>1 DEF StatsInv, Counts, Total
  <2> QED BY <2>1, <2>2 DEF StatsInv
<1>9. CASE ReadRow \/ ReadAttempts \/ ReadPage \/ ReadTotal
  <2>1. asked' = asked /\ ~ Counts(asked)
    BY <1>9, WhoseStep DEF ReadRow, ReadAttempts, ReadPage, ReadTotal, Browsing, Counts
  <2> QED BY <1>f, <2>1
<1>10. ASSUME NEW p \in Endpoints, ReadCircuit(p) PROVE StatsInv'
  <2>1. /\ UNCHANGED <<asked, step>> /\ shown'.counts = shown.counts
        /\ shown'.entries = shown.entries /\ shown'.latency = shown.latency
        /\ since'.events = since.events
    BY <1>10, <1>b DEF ReadCircuit, Shown, Since
  <2> QED BY <1>e, <2>1
<1>11. CASE UNCHANGED vars
  BY <1>11, <1>e DEF vars
<1> QED BY <1>1, <1>2, <1>3, <1>4, <1>5, <1>6, <1>7, <1>8, <1>9, <1>10, <1>11
        DEF Next, Read

-----------------------------------------------------------------------------
(* GET /dlq and /events/{id}/attempts, page by page *)

LEMMA ListingIsFinite ==
    WorldInv /\ HandlerInv =>
        IsFiniteSet(Listing(asked)) /\ Cardinality(Listing(asked)) \in Nat
<1> SUFFICES ASSUME WorldInv, HandlerInv
             PROVE  IsFiniteSet(Listing(asked)) /\ Cardinality(Listing(asked)) \in Nat
  OBVIOUS
<1>1. CASE asked.kind = "dlq"
  <2>1. Listing(asked) \subseteq ToSet(dlq)
    BY <1>1 DEF Listing, Entries
  <2> QED BY <2>1, QueueIsAsLongAsItsEntries, FewerInSubset
<1>2. CASE asked.kind = "attempts"
  <2>1. asked.event \in Events
    BY <1>2, WhatIsAsked DEF HandlerInv
  <2>2. tries[asked.event] \in Int
    BY <2>1 DEF WorldInv
  <2>3. Listing(asked) = 1..tries[asked.event]
    BY <1>2 DEF Listing, Attempts
  <2>4. IsFiniteSet(1..tries[asked.event])
    BY <2>2, FS_Interval
  <2> QED BY <2>3, <2>4, FS_CardinalityType
<1>3. CASE asked.kind # "dlq" /\ asked.kind # "attempts"
  <2>1. Listing(asked) = {}
    BY <1>3 DEF Listing
  <2> QED BY <2>1, FS_EmptySet
<1> QED BY <1>1, <1>2, <1>3

(* A listing is in a strict order. *)
LEMMA Ordered ==
    ASSUME WorldInv, HandlerInv, Browsing
    PROVE  /\ \A x \in Listing(asked) : ~ Precedes(asked, x, x)
           /\ \A x, y, z \in Listing(asked) :
                 Precedes(asked, x, y) /\ Precedes(asked, y, z) => Precedes(asked, x, z)
           /\ \A x, y \in Listing(asked) :
                 x # y => Precedes(asked, x, y) \/ Precedes(asked, y, x)
<1>1. CASE asked.kind = "dlq"
  <2>1. /\ DOMAIN dlq \subseteq Nat
        /\ \A i, j \in DOMAIN dlq : dlq[i] = dlq[j] => i = j
    BY LenProperties DEF WorldInv, NoneTwice
  <2>2. \A x \in Listing(asked) : \E i \in DOMAIN dlq : dlq[i] = x
    BY <1>1 DEF Listing, Entries, ToSet
  <2>3. \A x, y : Precedes(asked, x, y) <=>
            \E i, j \in DOMAIN dlq : i < j /\ dlq[i] = x /\ dlq[j] = y
    BY <1>1 DEF Precedes
  <2>4. \A x \in Listing(asked) : ~ Precedes(asked, x, x)
    BY <2>1, <2>3
  <2>5. ASSUME NEW x, NEW y, NEW z, Precedes(asked, x, y), Precedes(asked, y, z)
        PROVE  Precedes(asked, x, z)
    <3>1. PICK i \in DOMAIN dlq, j \in DOMAIN dlq : i < j /\ dlq[i] = x /\ dlq[j] = y
      BY <2>3, <2>5
    <3>2. PICK k \in DOMAIN dlq, l \in DOMAIN dlq : k < l /\ dlq[k] = y /\ dlq[l] = z
      BY <2>3, <2>5
    <3>3. j = k
      BY <2>1, <3>1, <3>2
    <3>4. i < l
      BY <2>1, <3>1, <3>2, <3>3
    <3> QED BY <2>3, <3>1, <3>2, <3>4
  <2>6. ASSUME NEW x \in Listing(asked), NEW y \in Listing(asked), x # y
        PROVE  Precedes(asked, x, y) \/ Precedes(asked, y, x)
    <3>1. PICK i \in DOMAIN dlq : dlq[i] = x
      BY <2>2
    <3>2. PICK j \in DOMAIN dlq : dlq[j] = y
      BY <2>2
    <3>3. i < j \/ j < i
      BY <2>1, <2>6, <3>1, <3>2
    <3> QED BY <2>3, <3>1, <3>2, <3>3
  <2> QED BY <2>4, <2>5, <2>6
<1>2. CASE asked.kind = "attempts"
  <2>1. Listing(asked) \subseteq Int
    BY <1>2 DEF Listing, Attempts
  <2>2. \A x, y : Precedes(asked, x, y) <=> x < y
    BY <1>2 DEF Precedes
  <2> QED BY <2>1, <2>2
<1> QED BY <1>1, <1>2 DEF Browsing

(* So no two rows have the same number of rows before them, and none has all. *)
LEMMA PlacesDiffer ==
    WorldInv /\ HandlerInv /\ Browsing =>
           /\ \A x \in Listing(asked) :
                 /\ IsFiniteSet(Before(asked, x)) /\ Cardinality(Before(asked, x)) \in Nat
                 /\ Cardinality(Before(asked, x)) < Cardinality(Listing(asked))
           /\ \A x, y \in Listing(asked) :
                 Cardinality(Before(asked, x)) = Cardinality(Before(asked, y)) => x = y
<1> SUFFICES ASSUME WorldInv, HandlerInv, Browsing
             PROVE  /\ \A x \in Listing(asked) :
                          /\ IsFiniteSet(Before(asked, x))
                          /\ Cardinality(Before(asked, x)) \in Nat
                          /\ Cardinality(Before(asked, x)) < Cardinality(Listing(asked))
                    /\ \A x, y \in Listing(asked) :
                          Cardinality(Before(asked, x)) = Cardinality(Before(asked, y))
                              => x = y
  OBVIOUS
<1>1. IsFiniteSet(Listing(asked)) /\ Cardinality(Listing(asked)) \in Nat
  BY ListingIsFinite
<1>2. ASSUME NEW x \in Listing(asked)
      PROVE  /\ IsFiniteSet(Before(asked, x)) /\ Cardinality(Before(asked, x)) \in Nat
             /\ Cardinality(Before(asked, x)) < Cardinality(Listing(asked))
  <2>1. Before(asked, x) \subseteq Listing(asked) \ {x}
    BY Ordered DEF Before
  <2>2. /\ IsFiniteSet(Listing(asked) \ {x})
        /\ Cardinality(Listing(asked) \ {x}) = Cardinality(Listing(asked)) - 1
    BY <1>1, <1>2, FS_RemoveElement
  <2>3. /\ IsFiniteSet(Before(asked, x)) /\ Cardinality(Before(asked, x)) \in Nat
        /\ Cardinality(Before(asked, x)) <= Cardinality(Listing(asked) \ {x})
    BY <2>1, <2>2, FewerInSubset
  <2> QED BY <1>1, <2>2, <2>3
<1>3. ASSUME NEW x \in Listing(asked), NEW y \in Listing(asked), Precedes(asked, x, y)
      PROVE  Cardinality(Before(asked, x)) # Cardinality(Before(asked, y))
  <2>1. Before(asked, x) \subseteq Before(asked, y)
    BY <1>3, Ordered DEF Before
  <2>2. x \in Before(asked, y) /\ x \notin Before(asked, x)
    BY <1>3, Ordered DEF Before
  <2> QED BY <1>2, <2>1, <2>2, FS_Subset
<1> QED BY <1>2, <1>3, Ordered

LEMMA OffsetTyped == HandlerInv => Offset \in Nat
<1>1. ASSUME NEW n \in Nat PROVE n * PageSize \in Nat
  BY ViewsAssumption
<1> QED BY <1>1 DEF HandlerInv, Offset

LEMMA MissingIsFinite ==
    WorldInv /\ HandlerInv => IsFiniteSet(Missing) /\ Cardinality(Missing) \in Nat
BY ListingIsFinite, FewerInSubset DEF Missing

(* What is missing does not grow when nothing leaves the listing, what was  *)
(* before a row stays before it, and the pages go on where they were.       *)
LEMMA NoMoreMissing ==
    ASSUME WorldInv, HandlerInv, WorldInv', HandlerInv', Browsing, Browsing',
           since'.listed = since.listed,
           Offset' \in Nat,
           ASSUME NEW x \in since.listed, x \in Listing(asked)', x \notin shown'.items,
                  Cardinality(Before(asked, x)') < Offset'
           PROVE  /\ x \in Listing(asked) /\ x \notin shown.items
                  /\ Before(asked, x) \subseteq Before(asked, x)'
                  /\ Cardinality(Before(asked, x)) < Offset' =>
                         Cardinality(Before(asked, x)) < Offset
    PROVE  Cardinality(Missing') <= Cardinality(Missing)
<1>1. Missing' \subseteq Missing
  <2> SUFFICES ASSUME NEW x \in Missing' PROVE x \in Missing
    OBVIOUS
  <2>1. /\ x \in since.listed /\ x \in Listing(asked)' /\ x \notin shown'.items
        /\ Cardinality(Before(asked, x)') < Offset'
    BY DEF Missing
  <2>2. /\ x \in Listing(asked) /\ x \notin shown.items
        /\ Before(asked, x) \subseteq Before(asked, x)'
        /\ Cardinality(Before(asked, x)) < Offset' => Cardinality(Before(asked, x)) < Offset
    BY <2>1
  <2>3. IsFiniteSet(Before(asked, x)')
    <3>1. Before(asked, x)' \subseteq Listing(asked)'
      BY DEF Before
    <3>2. (WorldInv /\ HandlerInv =>
              IsFiniteSet(Listing(asked)) /\ Cardinality(Listing(asked)) \in Nat)'
      BY ListingIsFinite, PTL
    <3> QED BY <3>1, <3>2, FewerInSubset
  <2>4. /\ Cardinality(Before(asked, x)) \in Nat /\ Cardinality(Before(asked, x)') \in Nat
        /\ Cardinality(Before(asked, x)) <= Cardinality(Before(asked, x)')
    BY <2>2, <2>3, FewerInSubset
  <2>5. Cardinality(Before(asked, x)) < Offset
    BY <2>1, <2>2, <2>4
  <2> QED BY <2>1, <2>2, <2>5 DEF Missing
<1> QED BY <1>1, MissingIsFinite, FewerInSubset

LEMMA InitBrowsing == Init => BrowsingInv
BY DEF Init, BrowsingInv, Browsing, NoRequest

(* An entry is discarded from the listing: the rows behind it move up, and *)
(* at most one of them past the end of what has been read.                 *)
LEMMA OneMoreMissing ==
    ASSUME WorldInv, HandlerInv, Browsing, WorldInv', HandlerInv',
           UNCHANGED <<asked, step, page, shown>>, since'.listed = since.listed,
           NEW e \in Listing(asked),
           Listing(asked)' = Listing(asked) \ {e},
           \A y, z \in Listing(asked) : Precedes(asked, y, z) /\ y # e /\ z # e
               => Precedes(asked, y, z)'
    PROVE  Cardinality(Missing') <= Cardinality(Missing) + 1
<1> DEFINE Edge == {x \in Listing(asked) : Cardinality(Before(asked, x)) = Offset}
<1>1. Offset' = Offset /\ Offset \in Nat
  BY OffsetTyped DEF Offset
<1>2. Missing' \subseteq Missing \cup Edge
  <2> SUFFICES ASSUME NEW x \in Missing' PROVE x \in Missing \cup Edge
    OBVIOUS
  <2>1. /\ x \in since.listed /\ x \in Listing(asked) /\ x # e /\ x \notin shown.items
        /\ Cardinality(Before(asked, x)') < Offset
    BY <1>1 DEF Missing
  <2>2. IsFiniteSet(Before(asked, x)')
    <3>1. Before(asked, x)' \subseteq Listing(asked)
      BY DEF Before
    <3> QED BY <3>1, ListingIsFinite, FewerInSubset
  <2>3. Before(asked, x) \ {e} \subseteq Before(asked, x)'
    BY <2>1 DEF Before
  <2>4. IsFiniteSet(Before(asked, x)) /\ Cardinality(Before(asked, x)) \in Nat
    BY <2>1, PlacesDiffer
  <2>5. /\ Cardinality(Before(asked, x) \ {e}) \in Nat
        /\ Cardinality(Before(asked, x)') \in Nat
        /\ Cardinality(Before(asked, x) \ {e}) <= Cardinality(Before(asked, x)')
    BY <2>2, <2>3, FewerInSubset
  <2>6. Cardinality(Before(asked, x)) <= Cardinality(Before(asked, x) \ {e}) + 1
    BY <2>4, FS_RemoveElement
  <2>7. \/ Cardinality(Before(asked, x)) < Offset
        \/ Cardinality(Before(asked, x)) = Offset
    BY <1>1, <2>1, <2>4, <2>5, <2>6
  <2> QED BY <2>1, <2>7 DEF Missing
<1>3. Edge = {} \/ \E x : Edge = {x}
  BY PlacesDiffer
<1>4. IsFiniteSet(Missing) /\ Cardinality(Missing) \in Nat
  BY MissingIsFinite
<1>5. /\ IsFiniteSet(Missing \cup Edge)
      /\ Cardinality(Missing \cup Edge) <= Cardinality(Missing) + 1
  <2> HIDE DEF Edge
  <2>1. CASE Edge = {}
    BY <1>4, <2>1
  <2>2. CASE \E x : Edge = {x}
    <3>1. PICK x : Edge = {x}
      BY <2>2
    <3>2. /\ IsFiniteSet(Missing \cup {x})
          /\ Cardinality(Missing \cup {x}) =
                 IF x \in Missing THEN Cardinality(Missing) ELSE Cardinality(Missing) + 1
      BY <1>4, FS_AddElement
    <3> QED BY <1>4, <3>1, <3>2
  <2> QED BY <1>3, <2>1, <2>2
<1>6. /\ Cardinality(Missing') \in Nat /\ Cardinality(Missing \cup Edge) \in Nat
      /\ Cardinality(Missing') <= Cardinality(Missing \cup Edge)
  BY <1>2, <1>5, FewerInSubset
<1> QED BY <1>4, <1>5, <1>6

LEMMA MeanwhileBrowsing ==
    ASSUME WorldInv, HandlerInv, BrowsingInv, Browsing, Meanwhile
    PROVE  BrowsingInv'
<1>1. WorldInv' /\ HandlerInv' /\ Onwards /\ [Next]_vars
  BY StepWorld, StepHandler DEF Next
<1>2. /\ UNCHANGED <<asked, step, page, shown>> /\ since'.listed = since.listed
      /\ step # "done"
  BY MeanwhileTheHandlerWaits, HistoryStays
<1>3. /\ Offset' = Offset /\ Offset' \in Nat /\ Browsing'
      /\ since.removed \in Nat /\ since'.removed \in Nat
  BY <1>1, <1>2, OffsetTyped DEF Offset, Browsing, HandlerInv, Since
<1>4. \A x \in since.listed :
          IF asked.kind = "dlq" THEN x \in Events /\ phase[x] = "dead_lettered"
                                ELSE x \in 1..tries[asked.event]
  BY DEF BrowsingInv
<1>5. asked.kind = "attempts" =>
          /\ tries[asked.event] \in Nat /\ tries'[asked.event] \in Nat
          /\ tries[asked.event] <= tries'[asked.event]
  BY <1>1, WhatIsAsked DEF HandlerInv, WorldInv, Onwards
<1>6. \A x \in since'.listed :
          IF asked.kind = "dlq" THEN x \in Events /\ phase'[x] = "dead_lettered"
                                ELSE x \in 1..tries'[asked.event]
  <2>1. CASE asked.kind = "dlq"
    BY <1>1, <1>2, <1>4, <2>1 DEF Onwards, Final
  <2>2. CASE asked.kind = "attempts"
    BY <1>2, <1>4, <1>5, <2>2
  <2> QED BY <2>1, <2>2 DEF Browsing
<1>7. Cardinality(Missing') \in Nat /\ Cardinality(Missing) \in Nat
  <2>1. (WorldInv /\ HandlerInv => IsFiniteSet(Missing) /\ Cardinality(Missing) \in Nat)'
    BY MissingIsFinite, PTL
  <2> QED BY <1>1, <2>1, MissingIsFinite
<1>8. ASSUME Cardinality(Missing') <= since'.removed PROVE BrowsingInv'
  BY <1>2, <1>6, <1>8 DEF BrowsingInv
<1>9. Cardinality(Missing) <= since.removed
  BY DEF BrowsingInv
<1>10. ASSUME NEW x \in since.listed, x \in Listing(asked)' PROVE x \in Listing(asked)
  <2>1. CASE asked.kind = "dlq"
    <3>1. x \in ToSet(dlq') /\ asked.endpoint \in {None, EndpointOf[x]}
      BY <1>2, <1>10, <2>1 DEF Listing, Entries
    <3>2. x \in ToSet(dlq)
      BY <1>1, <1>4, <2>1, <3>1, EntriesComeWithTheirEvent
    <3> QED BY <2>1, <3>1, <3>2 DEF Listing, Entries
  <2>2. CASE asked.kind = "attempts"
    BY <1>4, <2>2 DEF Listing, Attempts
  <2> QED BY <2>1, <2>2 DEF Browsing
<1>11. ASSUME since'.removed = since.removed, Listing(asked) \subseteq Listing(asked)',
              \A y, z \in Listing(asked) : Precedes(asked, y, z) => Precedes(asked, y, z)'
       PROVE  BrowsingInv'
  <2>1. ASSUME NEW x \in since.listed, x \in Listing(asked)', x \notin shown'.items,
               Cardinality(Before(asked, x)') < Offset'
        PROVE  /\ x \in Listing(asked) /\ x \notin shown.items
               /\ Before(asked, x) \subseteq Before(asked, x)'
               /\ Cardinality(Before(asked, x)) < Offset' =>
                      Cardinality(Before(asked, x)) < Offset
    <3>1. x \in Listing(asked)
      BY <1>10, <2>1
    <3>2. Before(asked, x) \subseteq Before(asked, x)'
      BY <1>11, <3>1 DEF Before
    <3> QED BY <1>2, <1>3, <2>1, <3>1, <3>2
  <2>2. Cardinality(Missing') <= Cardinality(Missing)
    BY <1>1, <1>2, <1>3, <2>1, NoMoreMissing
  <2> QED BY <1>3, <1>7, <1>8, <1>9, <1>11, <2>2
<1>12. ASSUME asked.kind = "attempts"
       PROVE  /\ Listing(asked) \subseteq Listing(asked)'
              /\ \A y, z : Precedes(asked, y, z) => Precedes(asked, y, z)'
  BY <1>2, <1>5, <1>12 DEF Listing, Attempts, Precedes
<1>13. ASSUME asked.kind = "dlq", ToSet(dlq) \subseteq ToSet(dlq'),
              \A y, z : Ahead(dlq, y, z) => Ahead(dlq', y, z)
       PROVE  /\ Listing(asked) \subseteq Listing(asked)'
              /\ \A y, z : Precedes(asked, y, z) => Precedes(asked, y, z)'
  <2>1. Listing(asked) \subseteq Listing(asked)'
    BY <1>2, <1>13 DEF Listing, Entries
  <2>2. \A y, z : (Precedes(asked, y, z) <=> Ahead(dlq, y, z))
              /\ (Precedes(asked, y, z)' <=> Ahead(dlq', y, z))
    BY <1>2, <1>13 DEF Precedes, Ahead
  <2> QED BY <1>13, <2>1, <2>2
<1>14. ASSUME UNCHANGED <<tries, dlq>>, since'.removed = since.removed PROVE BrowsingInv'
  BY <1>11, <1>12, <1>13, <1>14 DEF Browsing
<1>15. ASSUME NEW e \in Events, Advance(e) PROVE BrowsingInv'
  <2>1. since' = since
    BY <1>15 DEF Advance
  <2>2. ToSet(dlq) \subseteq ToSet(dlq') /\ \A y, z : Ahead(dlq, y, z) => Ahead(dlq', y, z)
    <3>1. CASE UNCHANGED dlq
      BY <3>1
    <3>2. CASE GiveUp(e) /\ Enter(e)
      <4>1. e \notin ToSet(dlq)
        BY <3>2, EntriesAreSettled DEF GiveUp
      <4> QED BY <3>2, <4>1, EntryComes
    <3> QED BY <1>15, <3>1, <3>2 DEF Advance
  <2> QED BY <1>11, <1>12, <1>13, <2>1, <2>2 DEF Browsing
<1>16. ASSUME NEW e \in Events, PutOff(e) PROVE BrowsingInv'
  BY <1>14, <1>16 DEF PutOff
<1>17. ASSUME NEW p \in Endpoints, MoveCircuit(p) PROVE BrowsingInv'
  <2>1. since \in Since
    BY DEF HandlerInv
  <2>2. since'.removed = since.removed
    BY <1>17, <2>1 DEF MoveCircuit, SetCircuit, Since
  <2> QED BY <1>14, <1>17, <2>2 DEF MoveCircuit
<1>18. ASSUME NEW e \in Events, Discard(e) PROVE BrowsingInv'
  <2>1. since'.removed = IF asked.kind = "dlq" /\ e \in Listing(asked)
                         THEN since.removed + 1 ELSE since.removed
    <3>1. since \in Since
      BY DEF HandlerInv
    <3> QED BY <1>18, <3>1 DEF Discard, Since
  <2>2. /\ ToSet(dlq') = ToSet(dlq) \ {e}
        /\ \A y, z : Ahead(dlq, y, z) /\ y # e /\ z # e => Ahead(dlq', y, z)
    BY <1>18, EntryGoes
  <2>3. CASE asked.kind = "attempts"
    BY <1>11, <1>12, <2>1, <2>3
  <2>4. CASE asked.kind = "dlq"
    <3>1. Listing(asked)' = Listing(asked) \ {e}
      BY <1>2, <2>2, <2>4 DEF Listing, Entries
    <3>2. \A y, z : Precedes(asked, y, z) /\ y # e /\ z # e => Precedes(asked, y, z)'
      <4>1. \A y, z : (Precedes(asked, y, z) <=> Ahead(dlq, y, z))
                  /\ (Precedes(asked, y, z)' <=> Ahead(dlq', y, z))
        BY <1>2, <2>4 DEF Precedes, Ahead
      <4> QED BY <2>2, <4>1
    <3>3. CASE e \in Listing(asked)
      <4>1. Cardinality(Missing') <= Cardinality(Missing) + 1
        BY <1>1, <1>2, <3>1, <3>2, <3>3, OneMoreMissing
      <4> QED BY <1>3, <1>7, <1>8, <1>9, <2>1, <2>4, <3>3, <4>1
    <3>4. CASE e \notin Listing(asked)
      <4>1. Listing(asked) \subseteq Listing(asked)' /\ since'.removed = since.removed
        BY <2>1, <3>1, <3>4
      <4>2. \A y, z \in Listing(asked) : Precedes(asked, y, z) => Precedes(asked, y, z)'
        BY <3>2, <3>4
      <4> QED BY <1>11, <4>1, <4>2
    <3> QED BY <3>3, <3>4
  <2> QED BY <2>3, <2>4 DEF Browsing
<1> QED BY <1>15, <1>16, <1>17, <1>18 DEF Meanwhile

(* The last page: whoever stops has gone past all that there is. *)
LEMMA AsManyPagesAsNeeded ==
    ASSUME NEW n \in Nat, NEW k \in Nat, k >= Pages(n)
    PROVE  n <= k * PageSize
<1> DEFINE m == n + PageSize - 1
           q == m \div PageSize
           r == m % PageSize
<1>1. PageSize \in Nat \ {0} /\ m \in Nat
  BY ViewsAssumption
<1> HIDE DEF m
<1>2. /\ r \in 0..(PageSize - 1) /\ q \in Nat /\ m = PageSize * q + r
  BY <1>1
<1>3. k >= q
  BY DEF Pages, m
<1> HIDE DEF q, r
<1>4. PageSize * k >= PageSize * q
  BY <1>1, <1>2, <1>3
<1>5. PageSize * q \in Nat /\ PageSize * k \in Nat /\ PageSize * k = k * PageSize
  BY <1>1, <1>2
<1>6. n + PageSize - 1 = PageSize * q + r
  BY <1>2 DEF m
<1> QED BY <1>1, <1>2, <1>4, <1>5, <1>6

LEMMA StepBrowsing ==
    WorldInv /\ HandlerInv /\ BrowsingInv /\ [Next]_vars => BrowsingInv'
<1> SUFFICES ASSUME WorldInv, HandlerInv, BrowsingInv, [Next]_vars PROVE BrowsingInv'
  OBVIOUS
<1>a. WorldInv' /\ HandlerInv'
  BY StepWorld, StepHandler
<1>b. /\ shown \in Shown /\ since \in Since /\ asked \in Requests \cup {NoRequest}
      /\ page \in Nat \ {0} /\ PageSize \in Nat \ {0} /\ since.removed \in Nat
  BY ViewsAssumption DEF HandlerInv, Since
<1>c. /\ page * PageSize \in Nat /\ (page - 1) * PageSize \in Nat
      /\ page * PageSize >= (page - 1) * PageSize
      /\ (page + 1) - 1 = page
  BY <1>b
<1>d. ASSUME asked' = asked, ~ Browsing PROVE BrowsingInv'
  BY <1>d DEF BrowsingInv, Browsing
<1>1. CASE Meanwhile
  <2>1. CASE Browsing
    BY <1>1, <2>1, MeanwhileBrowsing
  <2>2. CASE ~ Browsing
    BY <1>1, <1>d, <2>2, MeanwhileTheHandlerWaits
  <2> QED BY <2>1, <2>2
<1>2. ASSUME NEW a \in Requests, Ask(a) PROVE BrowsingInv'
  <2>1. /\ asked' = a /\ since' = Now(a) /\ step' = After(a.kind, "ask")
        /\ UNCHANGED <<world, page>> /\ page = 1
    BY <1>2 DEF Ask, HandlerInv
  <2>2. CASE a.kind \in {"dlq", "attempts"}
    <3>1. step' = "page" /\ since'.removed = 0 /\ since'.listed = Listing(a)
      BY <2>1, <2>2 DEF After, Now
    <3>2. Offset' = 0
      BY <1>b, <2>1, <3>1 DEF Offset
    <3>3. (WorldInv /\ HandlerInv /\ Browsing => \A x \in Listing(asked) :
              /\ IsFiniteSet(Before(asked, x)) /\ Cardinality(Before(asked, x)) \in Nat
              /\ Cardinality(Before(asked, x)) < Cardinality(Listing(asked)))'
      BY PlacesDiffer, PTL
    <3>4. Missing' = {}
      BY <1>a, <2>1, <2>2, <3>2, <3>3 DEF Missing, Browsing
    <3>5. \A x \in Listing(a) :
              IF a.kind = "dlq" THEN x \in Events /\ phase[x] = "dead_lettered"
                                ELSE x \in 1..tries[a.event]
      BY <2>2, EntriesAreSettled DEF Listing, Entries, Attempts
    <3> QED BY <2>1, <3>1, <3>4, <3>5, FS_EmptySet DEF BrowsingInv, world
  <2>3. CASE a.kind \notin {"dlq", "attempts"}
    BY <2>1, <2>3 DEF BrowsingInv, Browsing
  <2> QED BY <2>2, <2>3
<1>3. CASE Leave
  <2>1. asked'.kind = "none"
    BY <1>3 DEF Leave, NoRequest
  <2> QED BY <2>1 DEF BrowsingInv, Browsing
(* Nothing moves but where the pages are. *)
<1>4. ASSUME UNCHANGED <<world, asked, since>>, Browsing, Missing' \subseteq Missing,
             step' = "done" => Cardinality(Listing(asked)) <= Offset'
      PROVE  BrowsingInv'
  <2>1. IsFiniteSet(Missing) /\ Cardinality(Missing) \in Nat
    BY MissingIsFinite
  <2>2. Cardinality(Missing') \in Nat /\ Cardinality(Missing') <= Cardinality(Missing)
    BY <1>4, <2>1, FewerInSubset
  <2>3. Cardinality(Missing') <= since'.removed
    BY <1>b, <1>4, <2>1, <2>2 DEF BrowsingInv
  <2>4. Listing(asked)' = Listing(asked)
    BY <1>4 DEF Listing, Entries, Attempts, world
  <2>5. \A x \in since'.listed :
            IF asked'.kind = "dlq" THEN x \in Events /\ phase'[x] = "dead_lettered"
                                   ELSE x \in 1..tries'[asked'.event]
    BY <1>4 DEF BrowsingInv, world
  <2> QED BY <1>4, <2>3, <2>4, <2>5 DEF BrowsingInv
<1>5. ASSUME UNCHANGED <<world, asked>>
      PROVE  /\ Listing(asked)' = Listing(asked)
             /\ \A x : Before(asked, x)' = Before(asked, x)
  BY <1>5 DEF Listing, Entries, Attempts, Before, Precedes, world
<1>6. CASE ReadPage
  <2>1. /\ step = "page" /\ step' = "total" /\ UNCHANGED <<world, asked, page, since>>
        /\ shown'.items = shown.items \cup PageOf(asked) /\ Browsing
    BY <1>6, <1>b, WhoseStep DEF ReadPage, Shown
  <2>2. Offset = (page - 1) * PageSize /\ Offset' = page * PageSize
    BY <2>1 DEF Offset
  <2>3. ASSUME NEW x \in Missing' PROVE x \in Missing
    <3>1. /\ x \in since.listed /\ x \in Listing(asked)
          /\ x \notin shown.items /\ x \notin PageOf(asked)
          /\ Cardinality(Before(asked, x)) < page * PageSize
      BY <1>5, <2>1, <2>2 DEF Missing
    <3>2. Cardinality(Before(asked, x)) \in Nat
      BY <2>1, <3>1, PlacesDiffer
    <3>3. ~ Cardinality(Before(asked, x)) \in (page - 1) * PageSize..page * PageSize - 1
      BY <3>1 DEF PageOf
    <3>4. Cardinality(Before(asked, x)) < Offset
      BY <1>c, <2>2, <3>1, <3>2, <3>3
    <3> QED BY <3>1, <3>4 DEF Missing
  <2> QED BY <1>4, <2>1, <2>3
<1>7. CASE ReadTotal
  <2>1. /\ step = "total" /\ UNCHANGED <<world, asked, shown, since>> /\ Browsing
        /\ \/ page' = page + 1 /\ step' = "page"
           \/ page >= Pages(Cardinality(Listing(asked))) /\ step' = "done" /\ page' = page
    BY <1>7, WhoseStep DEF ReadTotal
  <2>2. Offset = page * PageSize /\ Offset' = page * PageSize
    BY <1>c, <2>1 DEF Offset
  <2>3. step' = "done" => Cardinality(Listing(asked)) <= Offset'
    BY <1>b, <2>1, <2>2, ListingIsFinite, AsManyPagesAsNeeded
  <2>4. Missing' = Missing
    BY <1>5, <2>1, <2>2 DEF Missing
  <2> QED BY <1>4, <2>1, <2>3, <2>4
<1>8. CASE CountStatuses \/ CountEntries \/ EndScan \/ ReadLatency \/ ReadState
           \/ ReadRow \/ ReadAttempts
  <2>1. asked' = asked /\ ~ Browsing
    BY <1>8, WhoseStep DEF CountStatuses, CountEntries, EndScan, ReadLatency, ReadState,
                           ReadRow, ReadAttempts, Browsing
  <2> QED BY <1>d, <2>1
<1>9. ASSUME NEW p \in Endpoints, ReadCircuit(p) PROVE BrowsingInv'
  <2>1. asked' = asked /\ ~ Browsing
    BY <1>9, WhoseStep DEF ReadCircuit, Browsing
  <2> QED BY <1>d, <2>1
<1>10. CASE UNCHANGED vars
  <2>1. Missing' = Missing /\ Browsing' = Browsing /\ Offset' = Offset
    BY <1>10, <1>5 DEF Missing, Browsing, Offset, vars
  <2>2. CASE Browsing
    BY <1>4, <1>10, <2>1, <2>2 DEF vars, BrowsingInv
  <2>3. CASE ~ Browsing
    BY <1>d, <1>10, <2>3 DEF vars
  <2> QED BY <2>2, <2>3
<1> QED BY <1>1, <1>2, <1>3, <1>6, <1>7, <1>8, <1>9, <1>10 DEF Next, Read

-----------------------------------------------------------------------------
(* The theorems *)

ViewsInv ==
    /\ WorldInv /\ HandlerInv
    /\ DetailInv /\ CircuitsInv /\ StatsInv /\ BrowsingInv

LEMMA ViewsAreInvariant == Spec => []ViewsInv
<1>1. Init => ViewsInv
  BY InitWorld, InitHandler, InitDetail, InitCircuits, InitStats, InitBrowsing DEF ViewsInv
<1>2. ViewsInv /\ [Next]_vars => ViewsInv'
  BY StepWorld, StepHandler, StepDetail, StepCircuits, StepStats, StepBrowsing DEF ViewsInv
<1> QED BY <1>1, <1>2, PTL DEF Spec

(* get_with_attempts reads the event and then its attempts: never fewer      *)
(* attempts than the event counts, and a delivered event has its success.    *)
THEOREM DetailIsCoherentHolds == Spec => []DetailIsCoherent
<1>1. ViewsInv => DetailIsCoherent
  BY DEF ViewsInv, DetailInv
<1> QED BY <1>1, ViewsAreInvariant, PTL

(* get_open_circuits yields what was open all the time, and nothing that was *)
(* open at no time, however SCAN orders the keys.                            *)
THEOREM OpenCircuitsAreListedHolds == Spec => []OpenCircuitsAreListed
<1>1. ViewsInv => OpenCircuitsAreListed
  BY DEF ViewsInv, CircuitsInv, OpenCircuitsAreListed, Answered
<1> QED BY <1>1, ViewsAreInvariant, PTL

(* The numbers of the two statistics agree with one another as far as the    *)
(* order of their statements makes them.                                     *)
THEOREM StatsAreCoherentHolds == Spec => []StatsAreCoherent
<1>1. ViewsInv => StatsAreCoherent
  <2> SUFFICES ASSUME ViewsInv PROVE StatsAreCoherent
    OBVIOUS
  <2>1. Answered("stats") \/ Answered("endpoint_stats") => Cardinality(since.events) <= Total
    BY DEF ViewsInv, StatsInv, Counts, Answered
  <2>2. Answered("stats") =>
            shown.counts["dead_lettered"] <= shown.entries + Cardinality(Discarded)
    BY DEF ViewsInv, StatsInv, Answered
  <2>3. Answered("endpoint_stats") /\ shown.counts["delivered"] > 0 => shown.latency
    BY DEF ViewsInv, StatsInv, Answered
  <2> QED BY <2>1, <2>2, <2>3 DEF StatsAreCoherent
<1> QED BY <1>1, ViewsAreInvariant, PTL

(* Whoever reads a listing page by page misses none of the rows that were    *)
(* there all the time, but at most one per row discarded meanwhile.          *)
THEOREM BrowsingMissesNothingHolds == Spec => []BrowsingMissesNothing
<1>1. ViewsInv => BrowsingMissesNothing
  <2> SUFFICES ASSUME ViewsInv, step = "done", Browsing
               PROVE  Cardinality((since.listed \cap Listing(asked)) \ shown.items)
                          <= since.removed
    BY DEF BrowsingMissesNothing, Answered, Browsing
  <2>1. /\ Cardinality(Missing) <= since.removed
        /\ Cardinality(Listing(asked)) <= Offset
    BY DEF ViewsInv, BrowsingInv
  <2>2. \A x \in Listing(asked) : Cardinality(Before(asked, x)) < Offset
    BY <2>1, PlacesDiffer, ListingIsFinite, OffsetTyped DEF ViewsInv
  <2>3. (since.listed \cap Listing(asked)) \ shown.items = Missing
    BY <2>2 DEF Missing
  <2> QED BY <2>1, <2>3
<1> QED BY <1>1, ViewsAreInvariant, PTL

=============================================================================
