----------------------- MODULE AttemptScheduleProofs -----------------------
(***************************************************************************)
(* AttemptSchedule for any delays, periods, timeouts and replies: what the *)
(* recursive waits amount to, by induction; the signature; and the dates.  *)
(***************************************************************************)
EXTENDS AttemptSchedule, FiniteSetTheorems, WellFoundedInduction, TLAPS

(* The library's induction theorems take an operator.  This one takes a set, *)
(* and follows from the well-foundedness of strict inclusion: intervals     *)
(* 1..n are finite sets, and the smaller interval is a strict subset.       *)
LEMMA LeastNumber ==
  ASSUME NEW S \in SUBSET Nat, S # {}
  PROVE  \E n \in S : \A m \in S : n <= m
<1> DEFINE T == {1..n : n \in S}
<1>1. IsWellFoundedOn(StrictSubsetOrdering(Nat), FiniteSubsetsOf(Nat))
  BY FS_StrictSubsetOrderingWellFounded
<1>2. T \subseteq FiniteSubsetsOf(Nat)
  BY FS_Interval DEF FiniteSubsetsOf
<1>3. T # {}
  OBVIOUS
<1> HIDE DEF T
<1>4. PICK x \in T : \A y \in T : ~ (<<y, x>> \in StrictSubsetOrdering(Nat))
  BY <1>1, <1>2, <1>3, WFMin
<1> USE DEF T
<1>5. PICK n \in S : x = 1..n
  BY <1>4
<1>6. ASSUME NEW m \in S, m < n PROVE FALSE
  <2>1. (1..m) \in T /\ (1..m) \subseteq 1..n /\ n \in 1..n /\ n \notin 1..m
    BY <1>6
  <2>2. <<1..m, 1..n>> \in StrictSubsetOrdering(Nat)
    BY <2>1 DEF StrictSubsetOrdering
  <2> QED BY <1>4, <1>5, <2>1, <2>2
<1> QED BY <1>6

(* Induction over the numbers up to a bound: G is the set of good ones. *)
LEMMA UpTo ==
  ASSUME NEW N \in Nat, NEW G, 0 \in G,
         ASSUME NEW n \in 0..N, n \in G, n < N PROVE n + 1 \in G
  PROVE  0..N \subseteq G
<1> DEFINE Bad == (0..N) \ G
<1> SUFFICES ASSUME Bad # {} PROVE FALSE
  OBVIOUS
<1>1. PICK k \in Bad : \A m \in Bad : k <= m
  <2>1. Bad \in SUBSET Nat
    OBVIOUS
  <2> HIDE DEF Bad
  <2> QED BY <2>1, LeastNumber
<1>2. k # 0 /\ k \in 1..N
  BY <1>1
<1>3. k - 1 \in 0..N /\ k - 1 < N /\ k - 1 \in G
  BY <1>1, <1>2
<1>4. (k - 1) + 1 \in G
  BY <1>3
<1> QED BY <1>1, <1>2, <1>4

-----------------------------------------------------------------------------
(* The powers of the base, and the waits *)

(* The first n + 1 powers are what the recursion says. *)
IsPower(f, n) == f = [k \in 0..n |-> IF k = 0 THEN 1 ELSE Base * f[k - 1]]

LEMMA PowerExists == \E f : IsPower(f, MaxRetries)
<1> DEFINE G == {n \in Nat : \E f : IsPower(f, n)}
<1>0. MaxRetries \in Nat
  BY ScheduleAssumption
<1>1. 0 \in G
  <2>1. IsPower([k \in 0..0 |-> 1], 0)
    BY DEF IsPower
  <2> QED BY <2>1
<1>2. ASSUME NEW n \in 0..MaxRetries, n \in G, n < MaxRetries PROVE n + 1 \in G
  <2>1. PICK f : IsPower(f, n)
    BY <1>2
  <2> DEFINE g == [k \in 0..(n + 1) |-> IF k = n + 1 THEN Base * f[n] ELSE f[k]]
  <2>2. \A k \in 0..n : f[k] = IF k = 0 THEN 1 ELSE Base * f[k - 1]
    BY <2>1 DEF IsPower
  <2>3. \A k \in 0..(n + 1) : g[k] = IF k = 0 THEN 1 ELSE Base * g[k - 1]
    BY <2>2, <1>0
  <2>4. IsPower(g, n + 1)
    BY <2>3 DEF IsPower
  <2> QED BY <2>4
<1> HIDE DEF G
<1>3. 0..MaxRetries \subseteq G
  BY <1>0, <1>1, <1>2, UpTo
<1>4. MaxRetries \in G
  BY <1>0, <1>3
<1> QED BY <1>4 DEF G

LEMMA PowerLaw ==
  /\ Power[0] = 1
  /\ \A n \in 1..MaxRetries : Power[n] = Base * Power[n - 1]
<1>1. IsPower(Power, MaxRetries)
  BY PowerExists DEF Power, IsPower
<1>2. MaxRetries \in Nat
  BY ScheduleAssumption
<1> QED BY <1>1, <1>2 DEF IsPower

LEMMA PowerType == \A n \in 0..MaxRetries : Power[n] \in Nat \ {0}
<1> DEFINE G == {n \in Nat : Power[n] \in Nat \ {0}}
<1>1. MaxRetries \in Nat /\ Base \in Nat \ {0}
  BY ScheduleAssumption
<1>2. 0 \in G
  BY PowerLaw
<1>3. ASSUME NEW n \in 0..MaxRetries, n \in G, n < MaxRetries PROVE n + 1 \in G
  <2>1. Power[n + 1] = Base * Power[n]
    BY <1>1, <1>3, PowerLaw
  <2>2. \A a, b \in Nat \ {0} : a * b \in Nat \ {0}
    OBVIOUS
  <2> QED BY <1>1, <1>3, <2>1, <2>2
<1> HIDE DEF G
<1>4. 0..MaxRetries \subseteq G
  BY <1>1, <1>2, <1>3, UpTo
<1> QED BY <1>4 DEF G

LEMMA DelayTypes ==
  /\ \A n \in 1..MaxRetries : RawDelay(n) \in Nat
  /\ InitialDelay \in Nat \ {0} /\ MaxDelay \in Nat \ {0} /\ Base \in Nat \ {0}
<1>1. /\ InitialDelay \in Nat \ {0} /\ MaxDelay \in Nat \ {0} /\ Base \in Nat \ {0}
      /\ MaxRetries \in Nat
  BY ScheduleAssumption
<1>2. ASSUME NEW n \in 1..MaxRetries PROVE RawDelay(n) \in Nat
  <2>1. Power[n - 1] \in Nat
    BY <1>1, PowerType
  <2>2. InitialDelay * Power[n - 1] \in Nat
    BY <1>1, <2>1
  <2> QED BY <1>1, <2>2 DEF RawDelay, Least
<1> QED BY <1>1, <1>2

(* Capped before or after it is multiplied: no difference. *)
LEMMA CappedProduct ==
  ASSUME NEW a \in Nat, NEW b \in Nat \ {0}, NEW m \in Nat
  PROVE  Least(b * Least(a, m), m) = Least(b * a, m)
<1>1. b * m >= m /\ b * a >= a
  OBVIOUS
<1>2. CASE a < m
  BY <1>2 DEF Least
<1>3. CASE ~(a < m)
  <2>1. b * a >= m /\ b * m >= m /\ b * a \in Nat /\ b * m \in Nat
    BY <1>1, <1>3
  <2> QED BY <1>3, <2>1 DEF Least
<1> QED BY <1>2, <1>3

LEMMA DelayDoubles ==
  \A n \in 1..MaxRetries :
      RawDelay(n) = IF n = 1 THEN Least(InitialDelay, MaxDelay)
                    ELSE Least(Base * RawDelay(n - 1), MaxDelay)
<1> SUFFICES ASSUME NEW n \in 1..MaxRetries
             PROVE  RawDelay(n) = IF n = 1 THEN Least(InitialDelay, MaxDelay)
                                  ELSE Least(Base * RawDelay(n - 1), MaxDelay)
  OBVIOUS
<1>1. MaxRetries \in Nat /\ InitialDelay \in Nat /\ MaxDelay \in Nat /\ Base \in Nat \ {0}
  BY ScheduleAssumption
<1>2. CASE n = 1
  <2>1. InitialDelay * Power[0] = InitialDelay
    BY <1>1, PowerLaw
  <2> QED BY <1>2, <2>1 DEF RawDelay
<1>3. CASE n # 1
  <2> DEFINE p == Power[n - 2]
             a == InitialDelay * p
  <2>1. n - 1 \in 1..MaxRetries /\ n - 2 \in 0..MaxRetries /\ (n - 1) - 1 = n - 2
    BY <1>1, <1>3
  <2>2. p \in Nat
    BY <2>1, PowerType
  <2>3. Power[n - 1] = Base * p
    BY <2>1, PowerLaw
  <2>4. a \in Nat
    BY <1>1, <2>2
  <2>5. InitialDelay * (Base * p) = Base * a
    BY <1>1, <2>2
  <2>6. RawDelay(n) = Least(Base * a, MaxDelay)
    BY <2>3, <2>5 DEF RawDelay
  <2>7. RawDelay(n - 1) = Least(a, MaxDelay)
    BY <2>1 DEF RawDelay
  <2> HIDE DEF a
  <2> QED BY <1>1, <1>3, <2>4, <2>6, <2>7, CappedProduct
<1> QED BY <1>2, <1>3

(* The delay compute_delay works out from a power is the wait the backoff   *)
(* promises, doubled attempt by attempt.                                    *)
LEMMA DelayIsBackoff == \A n \in 1..MaxRetries : Backoff[n] = RawDelay(n)
<1> DEFINE IsBackoff(f) ==
        f = [n \in 1..MaxRetries |->
                IF n = 1 THEN Least(InitialDelay, MaxDelay) ELSE Least(Base * f[n - 1], MaxDelay)]
           G == {n \in Nat : n # 0 => Backoff[n] = RawDelay(n)}
           raw == [n \in 1..MaxRetries |-> RawDelay(n)]
<1>0. MaxRetries \in Nat
  BY ScheduleAssumption
<1>1. IsBackoff(raw)
  <2>1. \A n \in 1..MaxRetries :
            raw[n] = IF n = 1 THEN Least(InitialDelay, MaxDelay)
                     ELSE Least(Base * raw[n - 1], MaxDelay)
    BY <1>0, DelayDoubles
  <2> QED BY <2>1
<1>2. IsBackoff(Backoff)
  BY <1>1 DEF Backoff
<1>3. \A n \in 1..MaxRetries :
          Backoff[n] = IF n = 1 THEN Least(InitialDelay, MaxDelay)
                       ELSE Least(Base * Backoff[n - 1], MaxDelay)
  BY <1>2
<1>4. 0 \in G
  OBVIOUS
<1>5. ASSUME NEW n \in 0..MaxRetries, n \in G, n < MaxRetries PROVE n + 1 \in G
  <2>1. n + 1 \in 1..MaxRetries /\ (n + 1) - 1 = n
    BY <1>0, <1>5
  <2>2. CASE n = 0
    BY <1>3, <2>1, <2>2, DelayDoubles
  <2>3. CASE n # 0
    BY <1>3, <1>5, <2>1, <2>3, DelayDoubles
  <2> QED BY <2>2, <2>3
<1> HIDE DEF G
<1>6. 0..MaxRetries \subseteq G
  BY <1>0, <1>4, <1>5, UpTo
<1> QED BY <1>0, <1>6 DEF G


-----------------------------------------------------------------------------
(* Clocks *)

LEMMA Quotient ==
  ASSUME NEW n \in Nat, NEW p \in Nat \ {0}
  PROVE  /\ n % p \in 0..(p - 1)
         /\ n \div p \in Nat
         /\ n = p * (n \div p) + (n % p)
OBVIOUS

(* A remainder is what is left of a multiple. *)
LEMMA RemainderIsUnique ==
  ASSUME NEW p \in Nat \ {0}, NEW q \in Nat, NEW r \in 0..(p - 1)
  PROVE  (p * q + r) % p = r
<1> DEFINE n == p * q + r
           q2 == n \div p
           r2 == n % p
<1>1. n \in Nat
  OBVIOUS
<1> HIDE DEF n
<1>2. r2 \in 0..(p - 1) /\ q2 \in Nat /\ n = p * q2 + r2
  BY <1>1, Quotient
<1> HIDE DEF q2, r2
<1>3. p * q + r = p * q2 + r2
  BY <1>2 DEF n
<1>4. ASSUME q2 > q PROVE FALSE
  <2>1. p * q2 >= p * q + p
    BY <1>2, <1>4
  <2> QED BY <1>2, <1>3, <2>1
<1>5. ASSUME q2 < q PROVE FALSE
  <2>1. p * q >= p * q2 + p
    BY <1>2, <1>5
  <2> QED BY <1>2, <1>3, <2>1
<1>6. q2 = q
  BY <1>2, <1>4, <1>5
<1>7. r2 = r
  BY <1>2, <1>3, <1>6
<1> QED BY <1>7 DEF r2, n

(* From one second to the next, cron comes nearer to its next run. *)
LEMMA NextRemainder ==
  ASSUME NEW n \in Nat, NEW p \in Nat \ {0}
  PROVE  (n + 1) % p = IF n % p = p - 1 THEN 0 ELSE (n % p) + 1
<1> DEFINE q == n \div p
           r == n % p
<1>1. r \in 0..(p - 1) /\ q \in Nat /\ n = p * q + r
  BY Quotient
<1> HIDE DEF q, r
<1>2. CASE r = p - 1
  <2>1. n + 1 = p * (q + 1) + 0
    BY <1>1, <1>2
  <2>2. (p * (q + 1) + 0) % p = 0
    BY <1>1, RemainderIsUnique
  <2> QED BY <1>2, <2>1, <2>2 DEF r
<1>3. CASE r # p - 1
  <2>1. n + 1 = p * q + (r + 1) /\ r + 1 \in 0..(p - 1)
    BY <1>1, <1>3
  <2>2. (p * q + (r + 1)) % p = r + 1
    BY <1>1, <2>1, RemainderIsUnique
  <2> QED BY <1>3, <2>1, <2>2 DEF r
<1> QED BY <1>2, <1>3


-----------------------------------------------------------------------------
(* Types and the signature *)

Rows ==
    [status : {"pending", "failed", "delivered", "dead_lettered"},
     attempt_count : Nat, next_retry_at : Int]

(* A header is that of the last POST, which arq does not let run longer than *)
(* the job's timeout.                                                       *)
SignInv ==
    /\ now \in Nat
    /\ started \in Nat /\ started <= now
    /\ header = IF started = 0 THEN Unsent ELSE SignPayload(Payload, Secret, started)
    /\ job = "running" => started # 0 /\ now <= started + JobTimeout
    /\ now >= CreatedAt

TypeInv ==
    /\ SignInv
    /\ event \in Rows
    /\ job \in {"none", "queued", "running", "ending"}
    /\ lease_until \in Nat
    /\ result_until \in Nat
    /\ polled \in BOOLEAN
    /\ orphaned \in BOOLEAN
    /\ promise \in [from : Int, to : Int]

(* What may be tried again is not the last attempt. *)
LEMMA RetriedAttempts ==
  ASSUME event \in Rows, NEW code, ShouldRetry(code, ThisAttempt, MaxRetries)
  PROVE  ThisAttempt \in 1..MaxRetries
BY ScheduleAssumption DEF Rows, ShouldRetry, ThisAttempt

LEMMA RepliesTyped ==
  ASSUME NEW reply \in Answers
  PROVE  reply.retry_after.seconds \in Int
<1>1. NoHeader.seconds \in Int
  BY DEF NoHeader
<1>2. \A other \in Replies : other.retry_after.seconds \in Int
  BY ScheduleAssumption DEF RetryAfters
<1> QED BY <1>1, <1>2 DEF Answers

(* The next date lies where the promise says: the delay is a Retry-After, or *)
(* the backoff with its jitter.                                             *)
LEMMA DelayKeepsPromise ==
  ASSUME TypeInv, NEW reply \in Answers, ThisAttempt \in 1..MaxRetries,
         NEW delay \in NextDelay(ThisAttempt, reply)
  PROVE  /\ delay \in Int
         /\ Promised(ThisAttempt, reply) \in [from : Int, to : Int]
         /\ Promised(ThisAttempt, reply).from <= now + delay
         /\ now + delay <= Promised(ThisAttempt, reply).to
<1>1. RawDelay(ThisAttempt) \in Nat /\ Backoff[ThisAttempt] = RawDelay(ThisAttempt)
  BY DelayTypes, DelayIsBackoff
<1>2. reply.retry_after.seconds \in Int /\ now \in Nat
  BY RepliesTyped DEF TypeInv, SignInv
<1>3. CASE Overrides(reply)
  BY <1>2, <1>3 DEF NextDelay, Promised
<1>4. CASE ~Overrides(reply)
  <2> DEFINE raw == RawDelay(ThisAttempt)
  <2>1. delay \in raw..(raw + raw \div 4)
    BY <1>4 DEF NextDelay, ComputeDelay
  <2>2. Promised(ThisAttempt, reply) =
            [from |-> now + raw, to |-> now + raw + raw \div 4]
    BY <1>1, <1>4 DEF Promised
  <2>3. raw \in Nat /\ raw \div 4 \in Int
    BY <1>1
  <2> HIDE DEF raw
  <2> QED BY <1>2, <2>1, <2>2, <2>3
<1> QED BY <1>3, <1>4

LEMMA InitTypeInv == Init => TypeInv
<1> SUFFICES ASSUME Init PROVE TypeInv
  OBVIOUS
<1>1. StaleAge \in Nat
  BY ScheduleAssumption
<1>2. SignInv
  BY DEF Init, SignInv, CreatedAt
<1>3. event \in Rows
  BY DEF Init, Rows
<1>4. promise \in [from : Int, to : Int]
  BY <1>1 DEF Init, CreatedAt
<1> QED BY <1>2, <1>3, <1>4 DEF Init, TypeInv

LEMMA StepTypeInv == TypeInv /\ [Next]_vars => TypeInv'
<1> SUFFICES ASSUME TypeInv, [Next]_vars
             PROVE  TypeInv'
  OBVIOUS
<1> USE DEF TypeInv, arq, post
<1>0. /\ JobTimeout \in Nat /\ LeaseMargin \in Nat /\ RecoveryTimeout \in Nat
      /\ KeepResult \in Nat /\ PollPeriod \in Nat \ {0}
  BY ScheduleAssumption
<1>1. ASSUME UNCHANGED vars PROVE TypeInv'
  BY <1>1 DEF vars, SignInv
<1>2. ASSUME Post PROVE TypeInv'
  <2>1. SignInv'
    BY <1>0, <1>2 DEF Post, SignInv, SignedAt, CreatedAt
  <2> QED BY <1>0, <1>2, <2>1 DEF Post, Claim, SignInv
<1>3. ASSUME PutOff PROVE TypeInv'
  <2>1. SignInv'
    BY <1>3 DEF PutOff, SignInv
  <2>2. now + RecoveryTimeout \in Int
    BY <1>0 DEF SignInv
  <2>3. event' \in Rows
    BY <1>3, <2>2 DEF PutOff, Rows
  <2>4. promise' \in [from : Int, to : Int]
    BY <1>3, <2>2 DEF PutOff
  <2> QED BY <1>0, <1>3, <2>1, <2>3, <2>4 DEF PutOff, Claim, SignInv
<1>4. ASSUME NothingToDo PROVE TypeInv'
  <2>1. SignInv'
    BY <1>4 DEF NothingToDo, SignInv
  <2> QED BY <1>0, <1>4, <2>1 DEF NothingToDo, Claim, SignInv
<1>5. ASSUME NEW reply \in Answers, Conclude(reply) PROVE TypeInv'
  <2>1. SignInv'
    BY <1>5 DEF Conclude, SignInv
  <2>2. event' \in Rows /\ promise' \in [from : Int, to : Int] /\ orphaned' \in BOOLEAN
    <3>1. CASE /\ Succeeded(reply.code) \/ ~ShouldRetry(reply.code, ThisAttempt, MaxRetries)
               /\ \E status \in {"delivered", "dead_lettered"} :
                     event' = [event EXCEPT !.status = status, !.attempt_count = ThisAttempt]
               /\ UNCHANGED <<promise, orphaned>>
      <4>1. ThisAttempt \in Nat
        BY DEF Rows, ThisAttempt
      <4> QED BY <3>1, <4>1 DEF Rows
    <3>2. CASE /\ ShouldRetry(reply.code, ThisAttempt, MaxRetries)
               /\ \E delay \in NextDelay(ThisAttempt, reply) :
                     event' = [status |-> "failed", attempt_count |-> ThisAttempt,
                               next_retry_at |-> now + delay]
               /\ promise' = Promised(ThisAttempt, reply)
               /\ orphaned' = FALSE
      <4>1. ThisAttempt \in 1..MaxRetries /\ ThisAttempt \in Nat
        BY <3>2, RetriedAttempts DEF Rows, ThisAttempt
      <4>2. PICK delay \in NextDelay(ThisAttempt, reply) :
                event' = [status |-> "failed", attempt_count |-> ThisAttempt,
                          next_retry_at |-> now + delay]
        BY <3>2
      <4>3. now + delay \in Int /\ Promised(ThisAttempt, reply) \in [from : Int, to : Int]
        BY <4>1, DelayKeepsPromise DEF SignInv
      <4> QED BY <3>2, <4>1, <4>2, <4>3 DEF Rows
    <3>3. CASE UNCHANGED <<event, promise, orphaned>>
      BY <3>3
    <3> QED BY <1>5, <3>1, <3>2, <3>3 DEF Conclude
  <2> QED BY <1>5, <2>1, <2>2 DEF Conclude
<1>6. ASSUME TimeOut PROVE TypeInv'
  BY <1>6 DEF TimeOut, SignInv
<1>7. ASSUME Finish PROVE TypeInv'
  BY <1>0, <1>7 DEF Finish, SignInv
<1>8. ASSUME Die PROVE TypeInv'
  BY <1>8 DEF Die, SignInv
<1>9. ASSUME Poll PROVE TypeInv'
  BY <1>9 DEF Poll, SignInv
<1>10. ASSUME Tick PROVE TypeInv'
  <2>1. SignInv'
    BY <1>0, <1>10 DEF Tick, SignInv, CreatedAt
  <2> QED BY <1>10, <2>1 DEF Tick
<1> QED BY <1>1, <1>2, <1>3, <1>4, <1>5, <1>6, <1>7, <1>8, <1>9, <1>10 DEF Next

(* However many retries and hours after the event was created, the receiver *)
(* accepts each attempt while its POST is under way, and /inbound/verify as *)
(* long as the tolerance lasts, for this body only.                         *)
THEOREM SignatureHoldsAlways == Spec => []SignatureHolds
<1>1. TypeInv => SignatureHolds
  <2> SUFFICES ASSUME TypeInv PROVE SignatureHolds
    OBVIOUS
  <2>0. /\ Tolerance \in Nat /\ JobTimeout \in Nat /\ Skew \in Nat
        /\ now \in Nat /\ started \in Nat /\ started <= now
    BY ScheduleAssumption, SignatureAssumption DEF TypeInv, SignInv
  <2>1. CASE started = 0
    <3>1. header = Unsent /\ job # "running"
      BY <2>1 DEF TypeInv, SignInv
    <3> QED BY <2>1, <3>1 DEF SignatureHolds, Unsent, InboundAnswer, VerifySignature
  <2>2. CASE started # 0
    <3>1. header = [parsed |-> TRUE, t |-> started, v1 |-> Hmac(Secret, started, Payload)]
      BY <2>2 DEF TypeInv, SignInv, SignPayload
    <3>2. \A body, clock : VerifySignature(body, header, Secret, clock)
              <=> /\ Distance(clock, started) <= Tolerance
                  /\ body = Payload
      BY <3>1 DEF VerifySignature, Hmac
    <3>3. ASSUME job = "running", JobTimeout + Skew <= Tolerance, NEW skew \in -Skew..Skew
          PROVE  VerifySignature(Payload, header, Secret, now + skew)
      <4>1. now <= started + JobTimeout
        BY <3>3 DEF TypeInv, SignInv
      <4> QED BY <2>0, <3>2, <3>3, <4>1 DEF Distance
    <3>4. Distance(now, started) = now - started
      BY <2>0 DEF Distance
    <3>5. \A body : LET inbound == InboundAnswer(body, header, Secret, now, now) IN
              /\ inbound.valid <=> body = Payload /\ now - started <= Tolerance
              /\ inbound.age = now - started
      BY <2>2, <3>1, <3>2, <3>4 DEF InboundAnswer
    <3> QED BY <2>2, <3>3, <3>5 DEF SignatureHolds
  <2> QED BY <2>1, <2>2
<1> QED BY InitTypeInv, StepTypeInv, <1>1, PTL DEF Spec

-----------------------------------------------------------------------------
(* The dates *)

(* When cron has run the poller for the last time. *)
LastPoll == IF now % PollPeriod = 0 /\ ~polled THEN now - PollPeriod
            ELSE now - (now % PollPeriod)

(* The row's date lies within the promise, so that what the poller offers is *)
(* due and what it has not offered is not; and a job which waits is due, or *)
(* was left behind.                                                         *)
DateInv ==
    /\ event.status = "pending" =>
          promise = [from |-> CreatedAt, to |-> CreatedAt + StaleAge + 1]
    /\ event.status = "failed" =>
          /\ event.next_retry_at <= promise.to
          /\ promise.from <= event.next_retry_at \/ orphaned
    /\ job = "queued" => promise.from <= now \/ orphaned
    /\ job = "none" /\ ~Settled => LastPoll <= Most(promise.to, result_until)

LEMMA LastPollIsPast ==
  ASSUME TypeInv
  PROVE  LastPoll \in Int /\ LastPoll <= now /\ now <= LastPoll + PollPeriod
<1>1. now \in Nat /\ PollPeriod \in Nat \ {0}
  BY ScheduleAssumption DEF TypeInv, SignInv
<1>2. now % PollPeriod \in 0..(PollPeriod - 1)
  BY <1>1, Quotient
<1> QED BY <1>1, <1>2 DEF LastPoll

LEMMA InitDateInv == Init => DateInv
<1> SUFFICES ASSUME Init PROVE DateInv
  OBVIOUS
<1> QED BY DEF Init, DateInv, CreatedAt

(* What keeps the row, the promise and the clock keeps the dates. *)
LEMMA StepDateInv == TypeInv /\ DateInv /\ [Next]_vars => DateInv'
<1> SUFFICES ASSUME TypeInv, DateInv, [Next]_vars
             PROVE  DateInv'
  OBVIOUS
<1> USE DEF arq, post
<1>0. /\ now \in Nat /\ event \in Rows /\ promise \in [from : Int, to : Int]
      /\ result_until \in Nat /\ RecoveryTimeout \in Nat /\ StaleAge \in Nat
      /\ KeepResult \in Nat /\ PollPeriod \in Nat \ {0} /\ polled \in BOOLEAN
      /\ job \in {"none", "queued", "running", "ending"}
  BY ScheduleAssumption DEF TypeInv, SignInv
<1>1. ASSUME UNCHANGED vars PROVE DateInv'
  BY <1>1 DEF vars, DateInv, Settled, LastPoll
<1>2. ASSUME Post \/ NothingToDo \/ TimeOut PROVE DateInv'
  <2>1. /\ UNCHANGED <<event, promise, orphaned>>
        /\ job' \in {"running", "ending"}
    BY <1>2 DEF Post, NothingToDo, TimeOut
  <2> QED BY <2>1 DEF DateInv
<1>3. ASSUME PutOff PROVE DateInv'
  <2>1. /\ event' = [event EXCEPT !.status = "failed", !.next_retry_at = now + RecoveryTimeout]
        /\ promise' = [promise EXCEPT !.to = now + RecoveryTimeout]
        /\ job = "queued" /\ job' = "ending" /\ UNCHANGED <<now, orphaned>>
    BY <1>3 DEF PutOff, Claim
  <2>2. /\ event'.status = "failed" /\ event'.next_retry_at = now + RecoveryTimeout
        /\ promise'.to = now + RecoveryTimeout /\ promise'.from = promise.from
    BY <1>0, <2>1 DEF Rows
  <2>3. promise.from <= now \/ orphaned
    BY <2>1 DEF DateInv
  <2>4. promise.from \in Int
    BY <1>0
  <2> QED BY <1>0, <2>1, <2>2, <2>3, <2>4 DEF DateInv
<1>4. ASSUME NEW reply \in Answers, Conclude(reply) PROVE DateInv'
  <2>1. job' = "ending" /\ UNCHANGED now
    BY <1>4 DEF Conclude
  <2>2. CASE event'.status \in {"delivered", "dead_lettered"}
    BY <2>1, <2>2 DEF DateInv
  <2>3. CASE UNCHANGED <<event, promise, orphaned>>
    BY <2>1, <2>3 DEF DateInv
  <2>4. CASE /\ ShouldRetry(reply.code, ThisAttempt, MaxRetries)
             /\ \E delay \in NextDelay(ThisAttempt, reply) :
                   event' = [status |-> "failed", attempt_count |-> ThisAttempt,
                             next_retry_at |-> now + delay]
             /\ promise' = Promised(ThisAttempt, reply)
    <3>1. PICK delay \in NextDelay(ThisAttempt, reply) :
              event' = [status |-> "failed", attempt_count |-> ThisAttempt,
                        next_retry_at |-> now + delay]
      BY <2>4
    <3>2. ThisAttempt \in 1..MaxRetries
      BY <1>0, <2>4, RetriedAttempts
    <3>3. promise'.from <= now + delay /\ now + delay <= promise'.to
      BY <2>4, <3>2, DelayKeepsPromise
    <3>4. event'.status = "failed" /\ event'.next_retry_at = now + delay
      BY <3>1
    <3> QED BY <2>1, <3>3, <3>4 DEF DateInv
  <2>5. CASE /\ event' \in {[event EXCEPT !.status = status, !.attempt_count = ThisAttempt] :
                              status \in {"delivered", "dead_lettered"}}
    BY <1>0, <2>2, <2>5 DEF Rows
  <2> QED BY <1>4, <2>3, <2>4, <2>5 DEF Conclude
<1>5. ASSUME Finish PROVE DateInv'
  <2>1. /\ job' = "none" /\ result_until' = now + KeepResult
        /\ UNCHANGED <<now, event, polled, promise, orphaned>>
    BY <1>5 DEF Finish
  <2>2. LastPoll' = LastPoll /\ LastPoll <= now /\ LastPoll \in Int
    BY <2>1, LastPollIsPast DEF LastPoll
  <2>3. promise.to \in Int
    BY <1>0
  <2>4. LastPoll' <= Most(promise.to, now + KeepResult)
    BY <1>0, <2>2, <2>3 DEF Most
  <2> QED BY <2>1, <2>4 DEF DateInv
<1>6. ASSUME Die PROVE DateInv'
  BY <1>6 DEF Die, DateInv
<1>7. ASSUME Poll PROVE DateInv'
  <2>1. /\ now % PollPeriod = 0 /\ polled'
        /\ job' = IF Due /\ job = "none" /\ now >= result_until THEN "queued" ELSE job
        /\ UNCHANGED <<now, event, result_until, orphaned, promise>>
    BY <1>7 DEF Poll
  <2>2. LastPoll' = now
    BY <1>0, <2>1 DEF LastPoll
  <2>3. promise.from \in Int /\ promise.to \in Int /\ event.next_retry_at \in Int
    BY <1>0 DEF Rows
  <2>4. Due => promise.from <= now \/ orphaned
    BY <1>0, <2>3 DEF Due, DateInv, CreatedAt
  <2>5. ~Settled /\ ~Due => now <= promise.to
    BY <1>0, <2>3 DEF Due, DateInv, Settled, Rows, CreatedAt
  <2>6. ASSUME job' = "none", ~Settled PROVE now <= Most(promise.to, result_until)
    BY <1>0, <2>1, <2>3, <2>5, <2>6 DEF Most
  <2> QED BY <2>1, <2>2, <2>4, <2>6 DEF DateInv, Settled
<1>8. ASSUME Tick PROVE DateInv'
  <2>1. /\ now % PollPeriod = 0 => polled
        /\ now' = now + 1 /\ ~polled'
        /\ UNCHANGED <<event, job, result_until, orphaned, promise>>
    BY <1>8 DEF Tick
  <2>2. now' % PollPeriod =
            IF now % PollPeriod = PollPeriod - 1 THEN 0 ELSE (now % PollPeriod) + 1
    BY <1>0, <2>1, NextRemainder
  <2>3. now % PollPeriod \in 0..(PollPeriod - 1)
    BY <1>0, Quotient
  <2>4. LastPoll' = LastPoll
    BY <1>0, <2>1, <2>2, <2>3 DEF LastPoll
  <2>5. promise.from \in Int
    BY <1>0
  <2> QED BY <1>0, <2>1, <2>4, <2>5 DEF DateInv, Settled
<1> QED BY <1>1, <1>2, <1>3, <1>4, <1>5, <1>6, <1>7, <1>8 DEF Next

LEMMA DatesHold == Spec => [](TypeInv /\ DateInv)
BY InitTypeInv, StepTypeInv, InitDateInv, StepDateInv, PTL DEF Spec

(* No attempt is made before the wait that was promised is over, whatever the *)
(* delays and replies, but by a job a dead worker has left behind.          *)
THEOREM NotBeforePromisedHolds == Spec => NotBeforePromised
<1>1. ASSUME TypeInv, DateInv, job' = "running", job = "queued"
      PROVE  now >= promise.from \/ orphaned
  <2>1. now \in Int /\ promise.from \in Int
    BY <1>1 DEF TypeInv, SignInv
  <2> QED BY <1>1, <2>1 DEF DateInv
<1> QED BY <1>1, DatesHold, PTL DEF NotBeforePromised

(* And none is late by more than a period of the poller. *)
THEOREM NextAttemptIsTimelyHolds == Spec => []NextAttemptIsTimely
<1>1. TypeInv /\ DateInv => NextAttemptIsTimely
  <2> SUFFICES ASSUME TypeInv, DateInv, ~Settled, job = "none"
               PROVE  now <= Most(promise.to, result_until) + PollPeriod
    BY DEF NextAttemptIsTimely
  <2>1. LastPoll \in Int /\ now <= LastPoll + PollPeriod
    BY LastPollIsPast
  <2>2. LastPoll <= Most(promise.to, result_until)
    BY DEF DateInv
  <2>3. /\ promise.to \in Int /\ result_until \in Int /\ now \in Int
        /\ PollPeriod \in Int
    BY ScheduleAssumption DEF TypeInv, SignInv
  <2> QED BY <2>1, <2>2, <2>3 DEF Most
<1> QED BY <1>1, DatesHold, PTL

=============================================================================
