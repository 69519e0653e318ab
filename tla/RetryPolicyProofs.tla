--------------------------- MODULE RetryPolicyProofs --------------------------
(* Proofs about RetryPolicy, for every set of errors and every base and cap of *)
(* the delays.  Each entry of the history is shown to be what ingestProcessor  *)
(* throws for an error of an attempt, and its delay what computeBackoff gives  *)
(* that attempt (HistorySound): what the policy promises of the delays is then *)
(* a fact about those two functions.                                           *)
EXTENDS RetryPolicy, SequenceTheorems, TLAPS

\* The delays a retry after the made-th attempt may be given.
DelaysAfter(made) ==
  {ComputeBackoff(made, Thrown(e).retryAfterMs, jitter)
     : e \in Errors, jitter \in Jitters(Exponential(made))}

Entries == [thrown : {Thrown(e) : e \in Errors},
            delay : {None} \cup UNION {DelaysAfter(made) : made \in 1 .. Attempts}]

TypeInv ==
  /\ state \in {"active", "delayed", "completed", "failed"}
  /\ history \in Seq(Entries)
  /\ attemptsMade = Len(history) /\ attemptsMade <= Attempts
  /\ state \in {"active", "delayed"} => attemptsMade < Attempts

\* A delay was given to an error worth another try, by the attempt's number.
Delayed(i, entry) ==
  /\ ~entry.thrown.unrecoverable
  /\ \E jitter \in Jitters(Exponential(i)) :
       entry.delay = ComputeBackoff(i, entry.thrown.retryAfterMs, jitter)

HistorySound == \A i \in Retried : Delayed(i, history[i])

IInv ==
  /\ TypeInv
  /\ HistorySound
  /\ OneDeadLetter

-------------------------------------------------------------------------------
(* The step.                                                                   *)

LEMMA HistoryTypes ==
  ASSUME TypeInv
  PROVE  /\ DOMAIN history = 1 .. Len(history) /\ Len(history) \in Nat
         /\ \A i \in DOMAIN history : history[i] \in Entries
         /\ \A i \in DOMAIN history : \E e \in Errors : history[i].thrown = Thrown(e)
<1> DEFINE S == Entries
<1>1. history \in Seq(S) BY DEF TypeInv
<1> HIDE DEF S
<1>2. DOMAIN history = 1 .. Len(history) /\ Len(history) \in Nat
  BY <1>1, LenProperties
<1>3. \A i \in 1 .. Len(history) : history[i] \in S BY <1>1, ElementOfSeq
<1>4. \A x \in S : \E e \in Errors : x.thrown = Thrown(e) BY DEF S, Entries
<1> QED BY <1>2, <1>3, <1>4 DEF S

\* One more entry, and those before it as they were.
LEMMA Appended ==
  ASSUME TypeInv, NEW x \in Entries, history' = Append(history, x),
         HistorySound, x.delay # None => Delayed(Len(history) + 1, x)
  PROVE  /\ history' \in Seq(Entries) /\ Len(history') = Len(history) + 1
         /\ HistorySound'
<1> DEFINE S == Entries
<1>1. history \in Seq(S) /\ x \in S BY DEF TypeInv
<1> HIDE DEF S
<1>2. /\ history' \in Seq(S) /\ Len(history') = Len(history) + 1
      /\ \A i \in 1 .. Len(history) : history'[i] = history[i]
      /\ history'[Len(history) + 1] = x
  BY <1>1, AppendProperties
<1>3. DOMAIN history' = 1 .. Len(history') BY <1>2, LenProperties
<1>4. \A i \in DOMAIN history' : i \in DOMAIN history \/ i = Len(history) + 1
  BY <1>2, <1>3, HistoryTypes
<1>5. ASSUME NEW i \in Retried' PROVE Delayed(i, history'[i])
  <2>1. CASE i \in DOMAIN history
    <3>1. history'[i] = history[i] BY <1>2, <2>1, HistoryTypes
    <3>2. i \in Retried BY <1>5, <2>1, <3>1 DEF Retried
    <3> QED BY <3>1, <3>2 DEF HistorySound
  <2>2. CASE i = Len(history) + 1
    BY <1>2, <1>5, <2>2 DEF Retried
  <2> QED BY <1>4, <1>5, <2>1, <2>2 DEF Retried
<1> QED BY <1>2, <1>5 DEF HistorySound, S

LEMMA InitIInv == Init => IInv
<1> SUFFICES ASSUME Init PROVE IInv
  OBVIOUS
<1>1. history = <<>> /\ attemptsMade = 0 /\ state = "active" /\ deadLetter = {}
  BY DEF Init
<1>2. history \in Seq(Entries) /\ Len(history) = 0 /\ DOMAIN history = {}
  BY <1>1, EmptySeq
<1>3. TypeInv BY <1>1, <1>2, AttemptsAssumption DEF TypeInv
<1>4. HistorySound BY <1>2 DEF HistorySound, Retried
<1> QED BY <1>1, <1>3, <1>4 DEF IInv, OneDeadLetter

LEMMA StepIInv == IInv /\ [Next]_vars => IInv'
<1> SUFFICES ASSUME IInv, [Next]_vars PROVE IInv'
  OBVIOUS
<1>0. TypeInv /\ HistorySound /\ OneDeadLetter BY DEF IInv
<1>n. attemptsMade = Len(history) /\ Len(history) \in Nat /\ Attempts \in Nat
  BY <1>0, HistoryTypes, AttemptsAssumption DEF TypeInv
<1>1. CASE Succeed
  BY <1>0, <1>1 DEF Succeed, IInv, TypeInv, HistorySound, Retried, Delayed, OneDeadLetter
<1>2. ASSUME NEW e \in Errors, Retry(e) PROVE IInv'
  <2> DEFINE t == Thrown(e)
             made == attemptsMade + 1
  <2>1. PICK jitter \in Jitters(Exponential(made)) :
          history' = Append(history, [thrown |-> t,
                                      delay |-> ComputeBackoff(made, t.retryAfterMs, jitter)])
    BY <1>2 DEF Retry
  <2> DEFINE x == [thrown |-> t, delay |-> ComputeBackoff(made, t.retryAfterMs, jitter)]
  <2>2. /\ ~t.unrecoverable /\ made < Attempts /\ made \in 1 .. Attempts
        /\ state = "active" /\ state' = "delayed" /\ attemptsMade' = made
    BY <1>2, <1>n DEF Retry
  <2>3. x.delay \in DelaysAfter(made) BY DEF DelaysAfter
  <2>4. x \in Entries BY <2>2, <2>3 DEF Entries
  <2>5. Delayed(made, x) BY <2>2 DEF Delayed
  <2> HIDE DEF x
  <2>6. /\ history' \in Seq(Entries) /\ Len(history') = Len(history) + 1
        /\ HistorySound'
    BY <1>0, <1>n, <2>1, <2>4, <2>5, Appended DEF x
  <2>7. TypeInv' BY <1>0, <1>n, <2>2, <2>6 DEF TypeInv, Entries, DelaysAfter
  <2>8. deadLetter' = deadLetter /\ deadLetter = {}
    BY <1>0, <1>2, <1>n, <2>2 DEF Retry, IsTerminal, OneDeadLetter
  <2> QED BY <2>2, <2>6, <2>7, <2>8 DEF IInv, OneDeadLetter
<1>3. ASSUME NEW e \in Errors, GiveUp(e) PROVE IInv'
  <2> DEFINE t == Thrown(e)
             made == attemptsMade + 1
             x == [thrown |-> t, delay |-> None]
  <2>1. /\ state = "active" /\ state' = "failed" /\ attemptsMade' = made
        /\ history' = Append(history, x)
    BY <1>3 DEF GiveUp
  <2>2. x \in Entries /\ x.delay = None BY DEF Entries
  <2> HIDE DEF x
  <2>3. /\ history' \in Seq(Entries) /\ Len(history') = Len(history) + 1
        /\ HistorySound'
    BY <1>0, <2>1, <2>2, Appended
  <2>4. TypeInv' BY <1>0, <1>n, <2>1, <2>3 DEF TypeInv, Entries, DelaysAfter
  <2>5. deadLetter' = deadLetter \cup {made} /\ deadLetter = {}
    BY <1>0, <1>3, <2>1 DEF GiveUp, IsTerminal, OneDeadLetter
  <2> QED BY <2>1, <2>3, <2>4, <2>5 DEF IInv, OneDeadLetter
<1>4. CASE NextAttempt
  BY <1>0, <1>4 DEF NextAttempt, IInv, TypeInv, HistorySound, Retried, Delayed, OneDeadLetter
<1>5. CASE UNCHANGED vars
  BY <1>0, <1>5 DEF vars, IInv, TypeInv, HistorySound, Retried, Delayed, OneDeadLetter
<1> QED BY <1>1, <1>2, <1>3, <1>4, <1>5 DEF Next

\* IInv is inductive, so every reachable state satisfies it.
THEOREM Inductive == Spec => []IInv
BY InitIInv, StepIInv, PTL DEF Spec

-------------------------------------------------------------------------------
(* What the policy promises.                                                   *)

\* A retried attempt ended with an error that is worth another try.
LEMMA RetriedEntry ==
  ASSUME IInv, NEW i \in Retried
  PROVE  /\ i \in 1 .. Len(history) /\ Delayed(i, history[i])
         /\ \E e \in Errors : /\ history[i].thrown = Thrown(e)
                              /\ ClassifyError(e).kind # "logical"
<1>1. i \in DOMAIN history /\ TypeInv /\ Delayed(i, history[i])
  BY DEF IInv, HistorySound, Retried
<1>2. PICK e \in Errors : history[i].thrown = Thrown(e) BY <1>1, HistoryTypes
<1>3. ~Thrown(e).unrecoverable BY <1>1, <1>2 DEF Delayed
<1>4. ClassifyError(e).kind # "logical" BY <1>3 DEF Thrown
<1> QED BY <1>1, <1>2, <1>4, HistoryTypes

\* Nothing but 5xx, 429, network blips and our own transient tag is retried.
THEOREM OnlyTransientIsRetried == Spec => []OnlyTransientRetried
<1>1. IInv => OnlyTransientRetried
  <2> SUFFICES ASSUME IInv, NEW i \in Retried
               PROVE  LET e == history[i].thrown.error
                      IN  /\ ~e.zod \/ e.tag = "transient"
                          /\ \/ e.tag = "transient"
                             \/ e.network
                             \/ e.status = 429 \/ e.status \in 500 .. 599
    BY DEF OnlyTransientRetried
  <2>1. PICK e \in Errors : history[i].thrown = Thrown(e) /\ ClassifyError(e).kind # "logical"
    BY RetriedEntry
  <2>2. history[i].thrown.error = e BY <2>1 DEF Thrown
  <2>3. /\ ~e.zod \/ e.tag = "transient"
        /\ \/ e.tag = "transient"
           \/ e.network
           \/ e.status = 429 \/ e.status \in 500 .. 599
    BY <2>1 DEF ClassifyError, ByStatus, Logical
  <2> QED BY <2>2, <2>3
<1> QED BY <1>1, Inductive, PTL

\* One dead letter, for the attempt BullMQ gave up at.
THEOREM OneDeadLetterIsWritten == Spec => []OneDeadLetter
BY Inductive, PTL DEF IInv

\* Of the powers of two the schedule is built from the provers know numerals only:
\* hence the bound below, twice the code's number of attempts.
LEMMA PowersDouble ==
  /\ 2 ^ 0 = 1 /\ 2 ^ 1 = 2 /\ 2 ^ 2 = 4 /\ 2 ^ 3 = 8 /\ 2 ^ 4 = 16
  /\ 2 ^ 5 = 32 /\ 2 ^ 6 = 64 /\ 2 ^ 7 = 128 /\ 2 ^ 8 = 256 /\ 2 ^ 9 = 512
OBVIOUS

\* The schedule without jitter and cap doubles from each attempt to the next.
LEMMA ExponentialDoubles ==
  ASSUME NEW i \in 1 .. 10, NEW j \in 1 .. 10
  PROVE  /\ Exponential(i) \in Nat
         /\ i < j => 2 * Exponential(i) <= Exponential(j)
<1> DEFINE P(k) == 2 ^ (k - 1)
<1>1. /\ P(1) = 1 /\ P(2) = 2 /\ P(3) = 4 /\ P(4) = 8 /\ P(5) = 16
      /\ P(6) = 32 /\ P(7) = 64 /\ P(8) = 128 /\ P(9) = 256 /\ P(10) = 512
  BY PowersDouble
<1>2. \A k : Exponential(k) = BaseMs * P(k) BY DEF Exponential
<1> HIDE DEF P
<1>3. \A k \in 1 .. 10 : \/ k = 1 \/ k = 2 \/ k = 3 \/ k = 4 \/ k = 5
                         \/ k = 6 \/ k = 7 \/ k = 8 \/ k = 9 \/ k = 10
  OBVIOUS
<1>4. P(i) \in Nat /\ P(j) \in Nat BY <1>1, <1>3
<1>5. i < j => 2 * P(i) <= P(j) BY <1>1, <1>3
<1>6. BaseMs \in Nat BY DelaysAssumption
<1>7. \A x, y \in Nat : x <= y => BaseMs * x <= BaseMs * y BY <1>6
<1>8. BaseMs * (2 * P(i)) = 2 * (BaseMs * P(i)) BY <1>4, <1>6
<1>9. BaseMs * P(i) \in Nat BY <1>4, <1>6
<1> QED BY <1>2, <1>4, <1>5, <1>7, <1>8, <1>9

\* Where there is no Retry-After the delay is the schedule's.
LEMMA OurDelay ==
  ASSUME Attempts <= 10, IInv, NEW i \in Retried, history[i].thrown.retryAfterMs = None
  PROVE  /\ i \in 1 .. 10 /\ Exponential(i) \in Nat
         /\ \E jitter \in Nat : /\ 4 * jitter < Exponential(i)
                                /\ history[i].delay = Capped(Exponential(i) + jitter)
<1>1. i \in 1 .. Len(history) /\ Len(history) \in Nat /\ Delayed(i, history[i])
  BY RetriedEntry, HistoryTypes DEF IInv
<1>2. i \in 1 .. 10 BY <1>1, AttemptsAssumption DEF IInv, TypeInv
<1>3. Exponential(i) \in Nat BY <1>2, ExponentialDoubles
<1>4. PICK jitter \in Jitters(Exponential(i)) :
        history[i].delay = ComputeBackoff(i, None, jitter)
  BY <1>1 DEF Delayed
<1>5. jitter \in Nat /\ 4 * jitter < Exponential(i) BY <1>3, <1>4 DEF Jitters
<1> QED BY <1>2, <1>3, <1>4, <1>5 DEF ComputeBackoff

\* A rate limit's Retry-After is the delay: its seconds, or exactly the time to its
\* date, or none for a date that has passed; without one the schedule's cap holds.
THEOREM RateLimitIsHonoured ==
  ASSUME Attempts <= 10 PROVE Spec => []RateLimitHonoured
<1>1. IInv => RateLimitHonoured
  <2> SUFFICES ASSUME IInv, NEW i \in Retried, NEW e \in Errors,
                      history[i].thrown = Thrown(e),
                      e.tag = "none", e.status = 429, ~e.network, ~e.zod, e.retryAfterMs = None
               PROVE  CASE e.header.form = "seconds" -> history[i].delay = 1000 * e.header.n
                        [] e.header.form = "date"    ->
                             history[i].delay = AtLeastNow(e.header.n)
                        [] OTHER                     -> history[i].delay <= CapMs
    <3>1. ASSUME IInv, NEW i \in Retried
          PROVE  \E e \in Errors : /\ history[i].thrown = Thrown(e)
                                   /\ history[i].thrown.error = e
      <4>1. PICK e \in Errors : history[i].thrown = Thrown(e) BY <3>1, RetriedEntry
      <4> QED BY <4>1 DEF Thrown
    <3> QED BY <3>1 DEF RateLimitHonoured
  <2>1. Thrown(e).retryAfterMs = ParseRetryAfter(e.header)
    BY DEF Thrown, ClassifyError, ByStatus, Transient, Logical, None
  <2>2. PICK jitter \in Jitters(Exponential(i)) :
          history[i].delay = ComputeBackoff(i, ParseRetryAfter(e.header), jitter)
    BY <2>1, RetriedEntry DEF Delayed
  <2>3. e.header.n \in Int BY ErrorsAssumption DEF Error
  <2>4. ASSUME e.header.form = "seconds" PROVE history[i].delay = 1000 * e.header.n
    BY <2>2, <2>3, <2>4 DEF ParseRetryAfter, ComputeBackoff, None
  <2>5. ASSUME e.header.form = "date"
        PROVE  history[i].delay = AtLeastNow(e.header.n)
    BY <2>2, <2>3, <2>5 DEF ParseRetryAfter, AtLeastNow, ComputeBackoff, None
  <2>6. ASSUME e.header.form \notin {"seconds", "date"} PROVE history[i].delay <= CapMs
    <3>1. history[i].thrown.retryAfterMs = None BY <2>1, <2>6 DEF ParseRetryAfter
    <3> QED BY <3>1, OurDelay, DelaysAssumption DEF Capped
  <2> QED BY <2>4, <2>5, <2>6
<1> QED BY <1>1, Inductive, PTL

\* Within twice the code's number of attempts the schedule never shrinks, however the
\* jitter falls, and stays below its cap.
THEOREM ScheduleNeverShrinks ==
  ASSUME Attempts <= 10 PROVE Spec => []ScheduleGrows
<1>1. IInv => ScheduleGrows
  <2> SUFFICES ASSUME IInv, NEW i \in Retried, NEW j \in Retried,
                      history[i].thrown.retryAfterMs = None,
                      history[j].thrown.retryAfterMs = None
               PROVE  /\ history[i].delay <= CapMs
                      /\ i < j => history[i].delay <= history[j].delay
    BY DEF ScheduleGrows
  <2>1. PICK k \in Nat : /\ 4 * k < Exponential(i)
                         /\ history[i].delay = Capped(Exponential(i) + k)
    BY OurDelay
  <2>2. PICK l \in Nat : /\ 4 * l < Exponential(j)
                         /\ history[j].delay = Capped(Exponential(j) + l)
    BY OurDelay
  <2>3. /\ Exponential(i) \in Nat /\ Exponential(j) \in Nat /\ i \in 1 .. 10 /\ j \in 1 .. 10
        /\ i < j => 2 * Exponential(i) <= Exponential(j)
    BY OurDelay, ExponentialDoubles
  <2>4. CapMs \in Nat BY DelaysAssumption
  <2> QED BY <2>1, <2>2, <2>3, <2>4 DEF Capped
<1> QED BY <1>1, Inductive, PTL

===============================================================================
