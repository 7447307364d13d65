------------------------ MODULE CircuitBreakerProofs ------------------------
(***************************************************************************)
(* CircuitBreakerRedis for any number of clients and any timeouts.         *)
(***************************************************************************)
EXTENDS CircuitBreakerRedis, SequenceTheorems, TLAPS

(* The stamp is written with OPEN and removed with CLOSED in one MULTI/EXEC, *)
(* and an age only grows: the strengthening is that it is an age.           *)
StampInv ==
    /\ opened_age \in Nat \cup {NoStamp}
    /\ OpenHasTimestamp

LEMMA InitStampInv == Init => StampInv
  BY DEF Init, StampInv, OpenHasTimestamp, NoStamp

LEMMA StepStampInv == StampInv /\ [Next]_vars => StampInv'
<1> SUFFICES ASSUME StampInv, [Next]_vars
             PROVE  StampInv'
  OBVIOUS
<1> USE DEF StampInv, OpenHasTimestamp, NoStamp
<1>1. ASSUME UNCHANGED <<state, opened_age>> PROVE StampInv'
  BY <1>1
<1>2. ASSUME NEW c \in Clients,
             \/ GetState(c) \/ GetOpenedAt(c) \/ Ask(c) \/ Allowed(c) \/ Answered(c)
             \/ RecordSuccess(c) \/ ClearFailures(c) \/ RecordFailure(c)
             \/ Recorded(c) \/ Die(c)
      PROVE  StampInv'
  BY <1>1, <1>2 DEF GetState, GetOpenedAt, Ask, Allowed, Answered, RecordSuccess,
     ClearFailures, RecordFailure, Recorded, Die, redis
<1>3. ASSUME NEW c \in Clients, SetHalfOpen(c) PROVE StampInv'
  BY <1>3 DEF SetHalfOpen
<1>4. ASSUME NEW c \in Clients, Close(c) PROVE StampInv'
  BY <1>4 DEF Close
<1>5. ASSUME NEW c \in Clients, Open(c) PROVE StampInv'
  BY <1>5 DEF Open
<1>6. ASSUME NEW r \in Requests, Reset(r) PROVE StampInv'
  BY <1>6 DEF Reset
<1>7. ASSUME Tick PROVE StampInv'
  BY <1>7, BreakerAssumption DEF Tick, UpTo
<1>8. ASSUME UNCHANGED vars PROVE StampInv'
  BY <1>1, <1>8 DEF vars, redis
<1> QED
  BY <1>2, <1>3, <1>4, <1>5, <1>6, <1>7, <1>8 DEF Next, Step

(* get_state can always tell how long a circuit has been open: whatever the  *)
(* interleaving of gates, outcomes, resets and deaths.                      *)
THEOREM OpenHasTimestampHolds == Spec => []OpenHasTimestamp
<1>1. StampInv => OpenHasTimestamp
  BY DEF StampInv
<1> QED BY InitStampInv, StepStampInv, <1>1, PTL DEF Spec

-----------------------------------------------------------------------------
(* Types *)

(* Sums and minima of what is counted stay below their bounds. *)
LEMMA CappedCount ==
    ASSUME NEW limit \in Nat, NEW n \in Nat
    PROVE  UpTo(limit, n) \in 0..limit
BY DEF UpTo

LEMMA AgeCapIsNat == AgeCap \in Nat
<1>1. \A m, n \in Nat : m * n \in Nat
  OBVIOUS
<1>2. FailureThreshold - 1 \in Nat /\ FailureWindow \in Nat
  BY BreakerAssumption
<1>3. (FailureThreshold - 1) * FailureWindow \in Nat
  BY <1>1, <1>2
<1> QED BY <1>3 DEF AgeCap

LEMMA NewestAge ==
    ASSUME ages \in Seq(0..AgeCap)
    PROVE  SubSeq(<<0>> \o ages, 1, UpTo(FailureThreshold, Len(ages) + 1))
               \in Seq(0..AgeCap)
<1> DEFINE longer == <<0>> \o ages
           n == UpTo(FailureThreshold, Len(ages) + 1)
<1>1. <<0>> \in Seq(0..AgeCap)
  BY AgeCapIsNat
<1>2. longer \in Seq(0..AgeCap) /\ Len(longer) = Len(ages) + 1
  BY <1>1
<1>3. n \in 0..Len(longer)
  BY <1>2, BreakerAssumption DEF UpTo
<1> HIDE DEF longer, n
<1>4. \A i \in 1..n : longer[i] \in 0..AgeCap
  <2> SUFFICES ASSUME NEW i \in 1..n PROVE longer[i] \in 0..AgeCap
    OBVIOUS
  <2>1. i \in 1..Len(longer)
    BY <1>2, <1>3
  <2> QED BY <1>2, <2>1, ElementOfSeq
<1>5. SubSeq(longer, 1, n) \in Seq(0..AgeCap)
  BY <1>3, <1>4, SubSeqProperties
<1> QED BY <1>5 DEF longer, n

LEMMA StepTypeOK == TypeOK /\ [Next]_vars => TypeOK'
<1> SUFFICES ASSUME TypeOK, [Next]_vars
             PROVE  TypeOK'
  OBVIOUS
<1> USE BreakerAssumption DEF TypeOK, NoStamp, Goto, Return, Recovered, redis, past, client
<1>1. ASSUME NEW c \in Clients,
             GetState(c) \/ GetOpenedAt(c) \/ SetHalfOpen(c) \/ Ask(c) \/ Allowed(c)
      PROVE  TypeOK'
  <2>1. CASE GetState(c)
    BY <2>1 DEF GetState, CircuitStates
  <2>2. CASE GetOpenedAt(c)
    BY <2>2 DEF GetOpenedAt
  <2>3. CASE SetHalfOpen(c)
    BY <2>3 DEF SetHalfOpen, CircuitStates
  <2>4. CASE Ask(c) \/ Allowed(c)
    BY <2>4 DEF Ask, Allowed
  <2> QED BY <1>1, <2>1, <2>2, <2>3, <2>4
<1>2. ASSUME NEW c \in Clients, Answered(c) PROVE TypeOK'
  BY <1>2 DEF Answered, CircuitStates
<1>3. ASSUME NEW c \in Clients, RecordSuccess(c) PROVE TypeOK'
  BY <1>3 DEF RecordSuccess
<1>4. ASSUME NEW c \in Clients, Close(c) PROVE TypeOK'
  BY <1>4 DEF Close, CircuitStates
<1>5. ASSUME NEW c \in Clients, ClearFailures(c) PROVE TypeOK'
  <2>1. /\ UNCHANGED <<state, opened_age, evidence, ages, crashes>>
        /\ failures' = 0 /\ failures_ttl' = 0 /\ leftover' = FALSE
    BY <1>5 DEF ClearFailures
  <2>2. misled' \subseteq Clients
    BY <1>5 DEF ClearFailures
  <2>3. /\ pc' \in [Clients -> {"idle", "get_state", "get_opened_at", "half_open",
                                "decide", "posting", "clear"}]
        /\ op' \in [Clients -> {"none", "gate", "stats", "success", "failure"}]
        /\ seen' \in [Clients -> CircuitStates]
        /\ count' \in [Clients -> 0..FailureThreshold]
    BY <1>5 DEF ClearFailures, CircuitStates
  <2>4. leftover' \in BOOLEAN
    BY <2>1
  <2>5. failures' \in 0..FailureThreshold /\ failures_ttl' \in 0..FailureWindow
    BY <2>1
  <2>6. UNCHANGED <<state, opened_age, evidence, ages, crashes>>
    BY <2>1
  <2> QED BY <2>2, <2>3, <2>4, <2>5, <2>6
<1>6. ASSUME NEW c \in Clients, RecordFailure(c) PROVE TypeOK'
  <2>1. failures' \in 0..FailureThreshold /\ evidence' \in 0..FailureThreshold
    BY <1>6, CappedCount DEF RecordFailure
  <2>2. ages' \in Seq(0..AgeCap)
    BY <1>6, NewestAge DEF RecordFailure
  <2>3. count' \in [Clients -> 0..FailureThreshold]
    BY <1>6, <2>1 DEF RecordFailure
  <2>4. /\ pc' \in [Clients -> {"idle", "get_state", "get_opened_at", "half_open",
                                "decide", "posting", "clear"}]
        /\ op' \in [Clients -> {"none", "gate", "stats", "success", "failure"}]
    BY <1>6 DEF RecordFailure
  <2>5. failures_ttl' \in 0..FailureWindow
    BY <1>6 DEF RecordFailure
  <2>6. UNCHANGED <<state, opened_age, seen, leftover, crashes>>
    BY <1>6 DEF RecordFailure
  <2>7. misled' \subseteq Clients
    BY <1>6 DEF RecordFailure
  <2> QED BY <2>1, <2>2, <2>3, <2>4, <2>5, <2>6, <2>7
<1>7. ASSUME NEW c \in Clients, Open(c) PROVE TypeOK'
  BY <1>7 DEF Open, CircuitStates
<1>8. ASSUME NEW c \in Clients, Recorded(c) PROVE TypeOK'
  BY <1>8 DEF Recorded, CircuitStates
<1>9. ASSUME NEW c \in Clients, Die(c) PROVE TypeOK'
  <2>1. crashes' \in 0..MaxCrashes
    BY <1>9 DEF Die
  <2> QED BY <1>9, <2>1 DEF Die, CircuitStates
<1>10. ASSUME NEW r \in Requests, Reset(r) PROVE TypeOK'
  <2>1. /\ UNCHANGED <<pc, op, seen, count, ages, crashes>>
        /\ state' = "none" /\ failures' = 0 /\ failures_ttl' = 0
        /\ opened_age' = NoStamp /\ evidence' = 0 /\ leftover' = FALSE
    BY <1>10 DEF Reset
  <2>2. misled' \subseteq Clients
    BY <1>10 DEF Reset
  <2>3. leftover' \in BOOLEAN
    BY <2>1
  <2>4. /\ UNCHANGED <<pc, op, seen, count, ages, crashes>>
        /\ state' = "none" /\ failures' = 0 /\ failures_ttl' = 0
        /\ opened_age' = NoStamp /\ evidence' = 0
    BY <2>1
  <2> QED BY <2>2, <2>3, <2>4
<1>11. ASSUME Tick PROVE TypeOK'
  <2>1. opened_age' \in NoStamp..(RecoveryTimeout + 1)
    BY <1>11 DEF Tick, UpTo
  <2>2. failures_ttl' \in 0..FailureWindow /\ failures' \in 0..FailureThreshold
    BY <1>11 DEF Tick
  <2>0. ages \in Seq(0..AgeCap)
    OBVIOUS
  <2>3. ASSUME NEW i \in 1..Len(ages)
        PROVE  UpTo(AgeCap, ages[i] + 1) \in 0..AgeCap
    <3>1. ages[i] \in 0..AgeCap
      BY <2>0, ElementOfSeq
    <3>2. ages[i] + 1 \in Nat
      BY <3>1, AgeCapIsNat
    <3> QED BY <3>2, AgeCapIsNat, CappedCount
  <2>4. ages' = [i \in 1..Len(ages) |-> UpTo(AgeCap, ages[i] + 1)]
    BY <1>11 DEF Tick
  <2>5. ages' \in Seq(0..AgeCap)
    BY <2>3, <2>4
  <2> QED BY <1>11, <2>1, <2>2, <2>5 DEF Tick
<1>12. ASSUME UNCHANGED vars PROVE TypeOK'
  BY <1>12 DEF vars
<1> QED BY <1>1, <1>2, <1>3, <1>4, <1>5, <1>6, <1>7, <1>8, <1>9, <1>10, <1>11, <1>12
        DEF Next, Step

LEMMA InitTypeOK == Init => TypeOK
<1> SUFFICES ASSUME Init PROVE TypeOK
  OBVIOUS
<1>1. /\ state = "none" /\ failures = 0 /\ failures_ttl = 0 /\ opened_age = NoStamp
      /\ evidence = 0 /\ ages = << >> /\ leftover = FALSE /\ misled = {} /\ crashes = 0
  BY DEF Init
<1>2. /\ pc \in [Clients -> {"idle", "get_state", "get_opened_at", "half_open",
                             "decide", "posting", "clear"}]
      /\ op \in [Clients -> {"none", "gate", "stats", "success", "failure"}]
      /\ seen \in [Clients -> CircuitStates]
      /\ count \in [Clients -> 0..FailureThreshold]
  BY BreakerAssumption DEF Init, CircuitStates
<1>3. leftover \in BOOLEAN
  BY <1>1
<1>4. /\ state = "none" /\ failures = 0 /\ failures_ttl = 0 /\ opened_age = NoStamp
      /\ evidence = 0 /\ ages = << >> /\ misled = {} /\ crashes = 0
  BY <1>1
<1> QED BY <1>2, <1>3, <1>4, BreakerAssumption DEF TypeOK, NoStamp

(* Whatever the interleaving of commands and deaths, each key of the breaker *)
(* holds a value the code knows how to read, and each client is in a method. *)
THEOREM TypeCorrect == Spec => []TypeOK
BY InitTypeOK, StepTypeOK, PTL DEF Spec

-----------------------------------------------------------------------------
(* The failures counted: a chain in which each came within a window of the  *)
(* one before.  EXPIRE renews the window with every failure, so what is left *)
(* of it tells the age of the newest.  For any number of clients.           *)

ChainInv ==
    /\ failures <= Len(ages)
    /\ failures > 0 => ages[1] + failures_ttl <= FailureWindow
    /\ \A i \in 2..failures : ages[i] - ages[i - 1] <= FailureWindow

LEMMA InitChain == Init => ChainInv
BY BreakerAssumption DEF Init, ChainInv

LEMMA AgesAreCapped ==
    ASSUME NEW s \in Seq(0..AgeCap)
    PROVE  Len(s) \in Nat /\ \A i \in 1..Len(s) : s[i] \in 0..AgeCap /\ s[i] \in Nat
<1>1. ASSUME NEW i \in 1..Len(s) PROVE s[i] \in 0..AgeCap
  BY <1>1, ElementOfSeq
<1> QED BY <1>1, AgeCapIsNat

(* What RecordFailure puts in front moves the others one place. *)
LEMMA NewestFirst ==
    ASSUME ages \in Seq(0..AgeCap), NEW c, RecordFailure(c)
    PROVE  /\ Len(ages') = UpTo(FailureThreshold, Len(ages) + 1)
           /\ ages'[1] = 0
           /\ \A i \in 2..Len(ages') : ages'[i] = ages[i - 1]
<1> DEFINE longer == <<0>> \o ages
           n == UpTo(FailureThreshold, Len(ages) + 1)
<1>1. <<0>> \in Seq(0..AgeCap) /\ Len(<<0>>) = 1 /\ <<0>>[1] = 0
  BY AgeCapIsNat
<1>2. /\ longer \in Seq(0..AgeCap) /\ Len(longer) = Len(ages) + 1
      /\ Len(ages) \in Nat
      /\ \A i \in 1..Len(ages) + 1 :
             longer[i] = IF i <= 1 THEN <<0>>[i] ELSE ages[i - 1]
  BY <1>1, ConcatProperties
<1>3. n \in 1..Len(longer)
  BY <1>2, BreakerAssumption DEF UpTo
<1>4. ages' = SubSeq(longer, 1, n)
  BY DEF RecordFailure
<1> HIDE DEF longer, n
<1>5. \A i \in 1..n : longer[i] \in 0..AgeCap
  BY <1>2, <1>3, AgesAreCapped
<1>6. Len(ages') = n /\ \A i \in 1..n : ages'[i] = longer[i]
  BY <1>3, <1>4, <1>5, SubSeqProperties
<1>7. ages'[1] = 0
  BY <1>1, <1>2, <1>3, <1>6
<1>8. ASSUME NEW i \in 2..n PROVE ages'[i] = ages[i - 1]
  BY <1>2, <1>3, <1>6
<1> QED BY <1>6, <1>7, <1>8 DEF n

(* A second more for all of them: no gap grows, not even where the history *)
(* stops counting.                                                         *)
LEMMA GapsDoNotGrow ==
    ASSUME ages \in Seq(0..AgeCap), Tick
    PROVE  /\ Len(ages') = Len(ages)
           /\ \A i \in 1..Len(ages) : ages[i] \in Nat /\ ages'[i] \in Nat
                                       /\ ages'[i] <= ages[i] + 1
           /\ \A i \in 2..Len(ages) : ages[i] - ages[i - 1] <= FailureWindow
                  => ages'[i] - ages'[i - 1] <= FailureWindow
<1>1. Len(ages) \in Nat /\ \A i \in 1..Len(ages) : ages[i] \in 0..AgeCap
  BY AgesAreCapped
<1>2. ages' = [i \in 1..Len(ages) |-> UpTo(AgeCap, ages[i] + 1)]
  BY DEF Tick
<1>3. Len(ages') = Len(ages)
  BY <1>1, <1>2
<1>4. \A i \in 1..Len(ages) :
          ages'[i] = IF ages[i] + 1 < AgeCap THEN ages[i] + 1 ELSE AgeCap
  BY <1>2 DEF UpTo
<1>5. ASSUME NEW i \in 1..Len(ages)
      PROVE  ages[i] \in Nat /\ ages'[i] \in Nat /\ ages'[i] <= ages[i] + 1
  BY <1>1, <1>4, AgeCapIsNat
<1>6. ASSUME NEW i \in 2..Len(ages), ages[i] - ages[i - 1] <= FailureWindow
      PROVE  ages'[i] - ages'[i - 1] <= FailureWindow
  <2>1. i \in 1..Len(ages) /\ i - 1 \in 1..Len(ages)
    BY <1>1
  <2>2. ages[i] \in 0..AgeCap /\ ages[i - 1] \in 0..AgeCap
    BY <1>1, <2>1
  <2>4. ages[i] \in Nat /\ ages[i - 1] \in Nat
    BY <2>2, AgeCapIsNat
  <2>5. /\ ages'[i] = IF ages[i] + 1 < AgeCap THEN ages[i] + 1 ELSE AgeCap
        /\ ages'[i - 1] = IF ages[i - 1] + 1 < AgeCap THEN ages[i - 1] + 1 ELSE AgeCap
    BY <1>4, <2>1
  <2> DEFINE a == ages[i]
             b == ages[i - 1]
  <2>6. a \in Nat /\ b \in Nat /\ a - b <= FailureWindow /\ FailureWindow \in Nat
    BY <1>6, <2>4, BreakerAssumption
  <2>7. /\ ages'[i] = IF a + 1 < AgeCap THEN a + 1 ELSE AgeCap
        /\ ages'[i - 1] = IF b + 1 < AgeCap THEN b + 1 ELSE AgeCap
    BY <2>5
  <2> HIDE DEF a, b
  <2> QED BY <2>6, <2>7, AgeCapIsNat
<1> QED BY <1>3, <1>5, <1>6

LEMMA StepChain == TypeOK /\ ChainInv /\ [Next]_vars => ChainInv'
<1> SUFFICES ASSUME TypeOK, ChainInv, [Next]_vars PROVE ChainInv'
  OBVIOUS
<1>a. /\ failures \in 0..FailureThreshold /\ failures_ttl \in 0..FailureWindow
      /\ ages \in Seq(0..AgeCap) /\ Len(ages) \in Nat
      /\ FailureThreshold \in Nat \ {0} /\ FailureWindow \in Nat \ {0}
  BY BreakerAssumption DEF TypeOK
<1>b. ASSUME UNCHANGED <<failures, failures_ttl, ages>> PROVE ChainInv'
  BY <1>b DEF ChainInv
<1>1. ASSUME NEW c \in Clients, RecordFailure(c) PROVE ChainInv'
  <2>1. /\ failures' = UpTo(FailureThreshold, failures + 1)
        /\ failures_ttl' = FailureWindow
    BY <1>1 DEF RecordFailure
  <2>2. /\ Len(ages') = UpTo(FailureThreshold, Len(ages) + 1) /\ ages'[1] = 0
        /\ \A i \in 2..Len(ages') : ages'[i] = ages[i - 1]
    BY <1>a, <1>1, NewestFirst
  <2>3. failures' \in Nat /\ Len(ages') \in Nat /\ failures' <= Len(ages')
    BY <1>a, <2>1, <2>2 DEF UpTo, ChainInv
  <2>4. ASSUME NEW i \in 2..failures' PROVE ages'[i] - ages'[i - 1] <= FailureWindow
    <3>1. i \in 2..Len(ages') /\ i - 1 <= failures /\ i \in Nat
      BY <1>a, <2>1, <2>3 DEF UpTo
    <3>2. ages'[i] = ages[i - 1]
      BY <2>2, <3>1
    <3>3. CASE i = 2
      <4>1. failures > 0 /\ ages[1] \in 0..AgeCap
        BY <1>a, <3>1, <3>3, AgesAreCapped DEF ChainInv
      <4>2. ages[1] + failures_ttl <= FailureWindow
        BY <4>1 DEF ChainInv
      <4>3. ages'[i] = ages[1] /\ ages'[i - 1] = 0
        BY <2>2, <3>2, <3>3
      <4>4. ages[1] \in Nat
        BY <4>1, AgeCapIsNat
      <4> QED BY <1>a, <4>2, <4>3, <4>4
    <3>4. CASE i # 2
      <4>1. i - 1 \in 2..Len(ages') /\ i - 1 \in 2..failures
        BY <2>3, <3>1, <3>4
      <4>2. ages'[i - 1] = ages[(i - 1) - 1]
        BY <2>2, <4>1
      <4>3. ages[i - 1] - ages[(i - 1) - 1] <= FailureWindow
        BY <4>1 DEF ChainInv
      <4> QED BY <3>2, <4>2, <4>3
    <3> QED BY <3>3, <3>4
  <2>5. ages'[1] + failures_ttl' <= FailureWindow
    BY <1>a, <2>1, <2>2
  <2> QED BY <2>3, <2>4, <2>5 DEF ChainInv
<1>2. ASSUME failures' = 0, UNCHANGED ages PROVE ChainInv'
  BY <1>a, <1>2 DEF ChainInv
<1>3. CASE Tick
  <2>1. /\ failures_ttl' = IF failures_ttl = 0 THEN 0 ELSE failures_ttl - 1
        /\ failures' = IF failures_ttl' = 0 THEN 0 ELSE failures
    BY <1>3 DEF Tick
  <2>2. /\ Len(ages') = Len(ages)
        /\ \A i \in 1..Len(ages) : ages[i] \in Nat /\ ages'[i] \in Nat
                                    /\ ages'[i] <= ages[i] + 1
        /\ \A i \in 2..Len(ages) : ages[i] - ages[i - 1] <= FailureWindow
               => ages'[i] - ages'[i - 1] <= FailureWindow
    BY <1>a, <1>3, GapsDoNotGrow
  <2>3. CASE failures' = 0
    BY <1>a, <2>2, <2>3 DEF ChainInv
  <2>4. CASE failures' # 0
    <3>1. /\ failures' = failures /\ failures > 0 /\ failures <= Len(ages)
          /\ failures_ttl' = failures_ttl - 1
      BY <1>a, <2>1, <2>4 DEF ChainInv
    <3>2. ages'[1] + failures_ttl' <= FailureWindow
      <4>1. ages[1] + failures_ttl <= FailureWindow
        BY <3>1 DEF ChainInv
      <4>2. ages[1] \in Nat /\ ages'[1] \in Nat /\ ages'[1] <= ages[1] + 1
        BY <1>a, <2>2, <3>1
      <4> QED BY <1>a, <3>1, <4>1, <4>2
    <3>3. \A i \in 2..failures : ages'[i] - ages'[i - 1] <= FailureWindow
      BY <1>a, <2>2, <3>1 DEF ChainInv
    <3> QED BY <2>2, <3>1, <3>2, <3>3 DEF ChainInv
  <2> QED BY <2>3, <2>4
<1>4. ASSUME NEW c \in Clients,
             \/ GetState(c) \/ GetOpenedAt(c) \/ SetHalfOpen(c) \/ Ask(c) \/ Allowed(c)
             \/ Answered(c) \/ RecordSuccess(c) \/ Close(c) \/ Open(c) \/ Recorded(c)
             \/ Die(c)
      PROVE  ChainInv'
  <2>1. UNCHANGED <<failures, failures_ttl, ages>>
    BY <1>4 DEF GetState, GetOpenedAt, SetHalfOpen, Ask, Allowed, Answered, RecordSuccess,
                Close, Open, Recorded, Die, redis, past
  <2> QED BY <1>b, <2>1
<1>5. ASSUME NEW c \in Clients, ClearFailures(c) PROVE ChainInv'
  BY <1>2, <1>5 DEF ClearFailures, past
<1>6. ASSUME NEW r \in Requests, Reset(r) PROVE ChainInv'
  BY <1>2, <1>6 DEF Reset
<1>7. CASE UNCHANGED vars
  BY <1>b, <1>7 DEF vars, redis, past
<1> QED BY <1>1, <1>3, <1>4, <1>5, <1>6, <1>7 DEF Next, Step

(* The count that opens a circuit is a chain of the latest failures, each       *)
(* within a window of the one before.  It is not "5 failures in 60s"            *)
(* (README.md:185): EXPIRE renews the window with every failure, so the chain   *)
(* may be as long as FailureThreshold - 1 windows.                              *)
THEOREM CountedFailuresAreRecent == Spec => []ChainInv
<1>1. TypeOK /\ ChainInv /\ [Next]_vars => TypeOK' /\ ChainInv'
  BY StepTypeOK, StepChain
<1> QED BY <1>1, InitTypeOK, InitChain, PTL DEF Spec

-----------------------------------------------------------------------------
(* What a closed circuit may be opened on, for any clients and deaths.      *)

(* Until something is left over, the key counts no more than has happened   *)
(* since the circuit closed. *)
CountInv ==
    ~CountsThePast => failures <= evidence

(* A client that no recovery has met in its call: what it was told by INCR  *)
(* still stands, and the HALF_OPEN it has read has not become CLOSED.       *)
CallInv(c) ==
    /\ pc[c] = "get_opened_at" => seen[c] = "open"
    /\ op[c] = "failure" /\ c \notin misled =>
           /\ count[c] = FailureThreshold => evidence = FailureThreshold
           /\ pc[c] = "decide" /\ seen[c] = "half_open" => ~Closed

EvidenceInv == CountInv /\ \A c \in Clients : CallInv(c)

LEMMA StepCount == TypeOK /\ CountInv /\ [Next]_vars => CountInv'
<1> SUFFICES ASSUME TypeOK, CountInv, [Next]_vars PROVE CountInv'
  OBVIOUS
<1>a. /\ failures \in 0..FailureThreshold /\ evidence \in 0..FailureThreshold
      /\ FailureThreshold \in Nat \ {0} /\ leftover \in BOOLEAN
      /\ DOMAIN pc = Clients
  BY BreakerAssumption DEF TypeOK
<1>1. ASSUME failures' = 0, evidence' \in Nat PROVE CountInv'
  BY <1>1 DEF CountInv
<1>2. ASSUME UNCHANGED <<failures, evidence, leftover>>,
             \A c \in Clients : pc[c] = "clear" => pc'[c] = "clear"
      PROVE  CountInv'
  BY <1>2 DEF CountInv, CountsThePast
<1>3. ASSUME NEW c \in Clients,
             \/ GetState(c) \/ GetOpenedAt(c) \/ SetHalfOpen(c) \/ Ask(c) \/ Allowed(c)
             \/ RecordSuccess(c)
      PROVE  CountInv'
  <2>1. /\ UNCHANGED <<failures, evidence, leftover>>
        /\ pc[c] # "clear" /\ \A d \in Clients : d # c => pc'[d] = pc[d]
    BY <1>3, <1>a DEF GetState, GetOpenedAt, SetHalfOpen, Ask, Allowed, RecordSuccess, Goto,
                      redis, past
  <2> QED BY <1>2, <2>1
<1>4. ASSUME NEW c \in Clients, Answered(c) \/ Open(c) \/ Recorded(c) PROVE CountInv'
  <2>1. /\ UNCHANGED <<failures, evidence, leftover>>
        /\ pc[c] # "clear" /\ \A d \in Clients : d # c => pc'[d] = pc[d]
    BY <1>4, <1>a DEF Answered, Open, Recorded, Return, redis, past
  <2> QED BY <1>2, <2>1
<1>5. ASSUME NEW c \in Clients, Close(c) PROVE CountInv'
  <2>1. pc'[c] = "clear"
    BY <1>5, <1>a DEF Close, Goto
  <2> QED BY <2>1 DEF CountInv, CountsThePast
<1>6. ASSUME NEW c \in Clients, ClearFailures(c) PROVE CountInv'
  BY <1>1, <1>6, <1>a DEF ClearFailures
<1>7. ASSUME NEW c \in Clients, RecordFailure(c) PROVE CountInv'
  <2>1. /\ failures' = UpTo(FailureThreshold, failures + 1)
        /\ evidence' = UpTo(FailureThreshold, evidence + 1)
        /\ leftover' = leftover /\ pc[c] = "posting" /\ pc' = [pc EXCEPT ![c] = "get_state"]
    BY <1>7 DEF RecordFailure, Goto
  <2>2. ~CountsThePast' => ~CountsThePast
    BY <2>1, <1>a DEF CountsThePast
  <2>3. failures <= evidence => failures' <= evidence'
    BY <2>1, <1>a DEF UpTo
  <2> QED BY <2>2, <2>3 DEF CountInv
<1>8. ASSUME NEW r \in Requests, Reset(r) PROVE CountInv'
  BY <1>1, <1>8 DEF Reset, Recovered
<1>9. ASSUME NEW c \in Clients, Die(c) PROVE CountInv'
  <2>1. /\ UNCHANGED <<failures, evidence>>
        /\ leftover' = (leftover \/ (pc[c] = "clear" /\ failures > 0))
        /\ \A d \in Clients : d # c => pc'[d] = pc[d]
    BY <1>9, <1>a DEF Die, Return, redis
  <2>2. CASE failures = 0
    BY <1>1, <1>a, <2>1, <2>2
  <2>3. CASE failures > 0
    <3>1. CountsThePast => CountsThePast'
      BY <2>1, <2>3 DEF CountsThePast
    <3> QED BY <2>1, <3>1 DEF CountInv
  <2> QED BY <1>a, <2>2, <2>3
<1>10. CASE Tick
  <2>1. /\ failures' = 0 \/ failures' = failures
        /\ leftover' = (leftover /\ failures' > 0)
        /\ UNCHANGED <<pc, evidence>>
    BY <1>10 DEF Tick, client
  <2>2. CASE failures' = 0
    BY <1>1, <1>a, <2>1, <2>2
  <2>3. CASE failures' > 0 /\ failures' = failures
    BY <2>1, <2>3 DEF CountInv, CountsThePast
  <2> QED BY <1>a, <2>1, <2>2, <2>3
<1>11. CASE UNCHANGED vars
  BY <1>2, <1>11 DEF vars, redis, client, past
<1> QED BY <1>3, <1>4, <1>5, <1>6, <1>7, <1>8, <1>9, <1>10, <1>11 DEF Next, Step

LEMMA StepCalls ==
    TypeOK /\ EvidenceInv /\ [Next]_vars => \A c \in Clients : CallInv(c)'
<1> SUFFICES ASSUME TypeOK, EvidenceInv, [Next]_vars, NEW c \in Clients
             PROVE  CallInv(c)'
  BY DEF EvidenceInv
<1>a. /\ failures \in 0..FailureThreshold /\ evidence \in 0..FailureThreshold
      /\ FailureThreshold \in Nat \ {0} /\ misled \subseteq Clients
      /\ DOMAIN pc = Clients /\ DOMAIN op = Clients /\ DOMAIN seen = Clients
      /\ DOMAIN count = Clients /\ CallInv(c)
  BY BreakerAssumption DEF TypeOK, EvidenceInv
(* The client is elsewhere, or has just returned. *)
<1>b. ASSUME pc'[c] \notin {"get_opened_at", "half_open", "decide"}, op'[c] # "failure"
      PROVE  CallInv(c)'
  BY <1>b DEF CallInv
(* Another client has closed the circuit while this one records a failure. *)
<1>c. ASSUME UNCHANGED <<pc, op>> \/ (pc'[c] = pc[c] /\ op'[c] = op[c]), seen'[c] = seen[c],
             op[c] = "failure" => c \in misled'
      PROVE  CallInv(c)'
  BY <1>c, <1>a DEF CallInv
(* Nothing this client relies on has changed. *)
<1>d. ASSUME pc'[c] = pc[c], op'[c] = op[c], seen'[c] = seen[c], count'[c] = count[c],
             c \in misled => c \in misled', evidence' = evidence \/ evidence' = FailureThreshold,
             ~Closed => ~Closed'
      PROVE  CallInv(c)'
  <2> DEFINE T == FailureThreshold
  <2>1. CASE op[c] = "failure" /\ c \notin misled'
    <3>1. /\ count[c] = T => evidence = T
          /\ pc[c] = "decide" /\ seen[c] = "half_open" => ~Closed
      BY <2>1, <1>d, <1>a DEF CallInv
    <3>2. evidence = T => evidence' = T
      BY <1>d
    <3> QED BY <3>1, <3>2, <1>d, <1>a DEF CallInv
  <2>2. CASE ~(op[c] = "failure" /\ c \notin misled')
    BY <2>2, <1>d, <1>a DEF CallInv
  <2> QED BY <2>1, <2>2
<1>1. ASSUME NEW d \in Clients, GetState(d) PROVE CallInv(c)'
  <2>1. CASE d # c
    BY <1>1, <1>a, <1>d, <2>1 DEF GetState, Goto, redis, past, Closed
  <2>2. CASE d = c
    <3>1. /\ UNCHANGED <<state, op, count, evidence, misled>>
          /\ seen'[c] = IF state = "none" THEN "closed" ELSE state
          /\ pc'[c] = IF state = "open" THEN "get_opened_at" ELSE "decide"
      BY <1>1, <1>a, <2>2 DEF GetState, Goto, redis, past
    <3>2. seen'[c] = "half_open" => ~Closed'
      BY <3>1 DEF Closed
    <3> QED BY <1>a, <3>1, <3>2 DEF CallInv
  <2> QED BY <2>1, <2>2
<1>2. ASSUME NEW d \in Clients, GetOpenedAt(d) PROVE CallInv(c)'
  <2>1. CASE d # c
    BY <1>2, <1>a, <1>d, <2>1 DEF GetOpenedAt, Goto, redis, past, Closed
  <2>2. CASE d = c
    <3>1. /\ UNCHANGED <<op, seen, count, evidence, misled>>
          /\ seen[c] = "open" /\ pc'[c] \in {"half_open", "decide"}
      BY <1>2, <1>a, <2>2 DEF GetOpenedAt, Goto, redis, past, CallInv
    <3> QED BY <1>a, <3>1 DEF CallInv
  <2> QED BY <2>1, <2>2
<1>3. ASSUME NEW d \in Clients, SetHalfOpen(d) PROVE CallInv(c)'
  <2>1. state' = "half_open" /\ ~Closed'
    BY <1>3 DEF SetHalfOpen, Closed
  <2>2. CASE d # c
    BY <1>3, <1>a, <1>d, <2>1, <2>2 DEF SetHalfOpen, Goto, past
  <2>3. CASE d = c
    <3>1. UNCHANGED <<op, count, evidence, misled>> /\ pc'[c] = "decide"
      BY <1>3, <1>a, <2>3 DEF SetHalfOpen, Goto, past
    <3> QED BY <1>a, <2>1, <3>1 DEF CallInv
  <2> QED BY <2>2, <2>3
<1>4. ASSUME NEW d \in Clients, Ask(d) \/ RecordSuccess(d) PROVE CallInv(c)'
  <2>1. CASE d # c
    BY <1>4, <1>a, <1>d, <2>1 DEF Ask, RecordSuccess, Goto, redis, past, Closed
  <2>2. CASE d = c
    <3>1. pc'[c] = "get_state" /\ op'[c] # "failure"
      BY <1>4, <1>a, <2>2 DEF Ask, RecordSuccess, Goto
    <3> QED BY <1>b, <3>1
  <2> QED BY <2>1, <2>2
<1>5. ASSUME NEW d \in Clients, Allowed(d) PROVE CallInv(c)'
  <2>1. CASE d # c
    BY <1>5, <1>a, <1>d, <2>1 DEF Allowed, Goto, redis, past, Closed
  <2>2. CASE d = c
    <3>1. pc'[c] = "posting" /\ op'[c] # "failure"
      BY <1>5, <1>a, <2>2 DEF Allowed, Goto
    <3> QED BY <1>b, <3>1
  <2> QED BY <2>1, <2>2
<1>6. ASSUME NEW d \in Clients, Answered(d) \/ Open(d) \/ Recorded(d) PROVE CallInv(c)'
  <2>1. CASE d # c
    <3>1. ~Closed => ~Closed'
      BY <1>6 DEF Answered, Open, Recorded, redis, Closed
    <3> QED BY <1>6, <1>a, <1>d, <2>1, <3>1 DEF Answered, Open, Recorded, Return, redis, past
  <2>2. CASE d = c
    <3>1. pc'[c] = "idle" /\ op'[c] = "none"
      BY <1>6, <1>a, <2>2 DEF Answered, Open, Recorded, Return
    <3> QED BY <1>b, <3>1
  <2> QED BY <2>1, <2>2
<1>7. ASSUME NEW d \in Clients, Close(d) PROVE CallInv(c)'
  <2>1. CASE d # c
    BY <1>7, <1>a, <1>c, <2>1 DEF Close, Goto, Recovered
  <2>2. CASE d = c
    <3>1. pc'[c] = "clear" /\ op'[c] = "success"
      BY <1>7, <1>a, <2>2 DEF Close, Goto
    <3> QED BY <1>b, <3>1
  <2> QED BY <2>1, <2>2
<1>8. ASSUME NEW d \in Clients, ClearFailures(d) \/ Die(d) PROVE CallInv(c)'
  <2>1. CASE d # c
    <3>1. UNCHANGED <<state, evidence>>
      BY <1>8 DEF ClearFailures, Die, redis
    <3> QED BY <1>8, <1>a, <1>d, <2>1, <3>1 DEF ClearFailures, Die, Return, Closed
  <2>2. CASE d = c
    <3>1. pc'[c] = "idle" /\ op'[c] = "none"
      BY <1>8, <1>a, <2>2 DEF ClearFailures, Die, Return
    <3> QED BY <1>b, <3>1
  <2> QED BY <2>1, <2>2
<1>9. ASSUME NEW d \in Clients, RecordFailure(d) PROVE CallInv(c)'
  <2>1. /\ failures' = UpTo(FailureThreshold, failures + 1)
        /\ evidence' = UpTo(FailureThreshold, evidence + 1)
        /\ state' = state
    BY <1>9 DEF RecordFailure
  <2>2. evidence = FailureThreshold => evidence' = FailureThreshold
    BY <2>1, <1>a DEF UpTo
  <2>3. CASE d # c
    <3>1. /\ pc'[c] = pc[c] /\ op'[c] = op[c] /\ seen'[c] = seen[c] /\ count'[c] = count[c]
          /\ c \in misled' <=> c \in misled
      BY <1>9, <1>a, <2>3 DEF RecordFailure, Goto
    <3> QED BY <1>a, <2>1, <2>2, <3>1 DEF CallInv, Closed
  <2>4. CASE d = c
    <3>1. /\ pc'[c] = "get_state" /\ count'[c] = failures'
          /\ c \notin misled' => ~CountsThePast
      BY <1>9, <1>a, <2>4 DEF RecordFailure, Goto
    <3>2. ~CountsThePast /\ failures' = FailureThreshold => evidence' = FailureThreshold
      <4> SUFFICES ASSUME ~CountsThePast, failures' = FailureThreshold
                   PROVE  evidence' = FailureThreshold
        OBVIOUS
      <4>1. failures <= evidence
        BY DEF EvidenceInv, CountInv
      <4>2. /\ failures \in Nat /\ evidence \in Nat /\ FailureThreshold \in Nat
            /\ evidence <= FailureThreshold
        BY <1>a
      <4>3. failures + 1 >= FailureThreshold
        BY <2>1, <4>2 DEF UpTo
      <4>4. evidence + 1 >= FailureThreshold
        BY <4>1, <4>2, <4>3
      <4>5. evidence' = IF evidence + 1 < FailureThreshold
                        THEN evidence + 1 ELSE FailureThreshold
        BY <2>1 DEF UpTo
      <4>6. ~(evidence + 1 < FailureThreshold)
        BY <4>2, <4>4
      <4> QED BY <4>5, <4>6
    <3> QED BY <3>1, <3>2 DEF CallInv
  <2> QED BY <2>3, <2>4
<1>10. ASSUME NEW r \in Requests, Reset(r) PROVE CallInv(c)'
  BY <1>10, <1>a, <1>c DEF Reset, Recovered, client
<1>11. CASE Tick
  BY <1>11, <1>a, <1>d DEF Tick, client, Closed
<1>12. CASE UNCHANGED vars
  BY <1>12, <1>a, <1>d DEF vars, redis, client, past, Closed
<1> QED BY <1>1, <1>2, <1>3, <1>4, <1>5, <1>6, <1>7, <1>8, <1>9, <1>10, <1>11, <1>12
        DEF Next, Step

(* A closed circuit opens on a threshold of failures recorded since it closed, *)
(* however many clients interleave INCR, get_state and the commands of a       *)
(* recovery: older failures open it only through a call that overlapped the    *)
(* recovery, or after a client died before it had deleted the count.           *)
THEOREM OpensOnEvidenceHolds == Spec => OpensOnEvidence
<1> DEFINE Inv == TypeOK /\ EvidenceInv
<1>1. Init => Inv
  <2>1. Init => EvidenceInv
    BY DEF Init, EvidenceInv, CountInv, CallInv
  <2> QED BY <2>1, InitTypeOK
<1>2. Inv /\ [Next]_vars => Inv'
  <2>1. Inv /\ [Next]_vars => TypeOK' /\ CountInv'
    BY StepTypeOK, StepCount DEF EvidenceInv
  <2>2. Inv /\ [Next]_vars => \A c \in Clients : CallInv(c)'
    BY StepCalls
  <2> QED BY <2>1, <2>2 DEF EvidenceInv
<1>3. Inv /\ [Next]_vars =>
          [\A c \in Workers : Open(c) /\ Closed =>
              evidence = FailureThreshold \/ c \in misled]_vars
  <2> SUFFICES ASSUME Inv, NEW c \in Workers, Open(c), Closed, c \notin misled
               PROVE  evidence = FailureThreshold
    OBVIOUS
  <2>1. CallInv(c)
    BY DEF EvidenceInv, Clients
  <2>2. op[c] = "failure" /\ pc[c] = "decide" /\ Trips(c)
    BY DEF Open
  <2> QED BY <2>1, <2>2 DEF CallInv, Trips
<1> QED BY <1>1, <1>2, <1>3, PTL DEF Spec, OpensOnEvidence

=============================================================================
