------------------------------ MODULE RetryPolicy -----------------------------
(* One ingest job and the errors its attempts end with: what classifyError     *)
(* makes of an error, what ingestProcessor throws, when BullMQ runs the next   *)
(* attempt (computeBackoff), and whether the `failed` listener takes the       *)
(* failure for the last one (errors.ts, backoff.ts, ingestProcessor.ts,        *)
(* ingestWorker.ts).  IngestQueue keeps only the outcome of this.              *)
EXTENDS Integers, Sequences

CONSTANTS
  Attempts,     \* ingestJobOptions.attempts (5 in the code)
  BaseMs,       \* baseMs (config.backoffBaseMs)
  CapMs,        \* capMs (30000 in the code)
  Errors        \* the errors an attempt may end with

ASSUME AttemptsAssumption == Attempts \in Nat \ {0}
ASSUME DelaysAssumption == BaseMs \in Nat \ {0} /\ CapMs \in Nat

VARIABLES
  state,        \* the job's state in BullMQ
  attemptsMade,
  history,      \* what each failed attempt threw, and the delay that followed
  deadLetter    \* the attempts for which the listener wrote a dead letter

vars == <<state, attemptsMade, history, deadLetter>>

None == -1

\* A Retry-After header: seconds, or an HTTP-date as its distance from now in
\* ms, or none, or neither.
Absent     == [form |-> "absent", n |-> 0]
Junk       == [form |-> "junk", n |-> 0]
Seconds(n) == [form |-> "seconds", n |-> n]
Date(ms)   == [form |-> "date", n |-> ms]

\* What classifyError looks at: the `kind` of our own classes, whether it is a
\* ZodError, whether its code is one of NETWORK_CODES, statusCode or status (None
\* for neither), its own retryAfterMs, and the header.
Error ==
  [tag : {"none", "transient", "logical"}, zod : BOOLEAN, network : BOOLEAN,
   status : Nat \cup {None}, retryAfterMs : Nat \cup {None},
   header : [form : {"absent", "junk", "seconds", "date"}, n : Int]]

ASSUME ErrorsAssumption == Errors \subseteq Error

-------------------------------------------------------------------------------
(* errors.ts                                                                   *)

\* Math.max(0, date - now)
AtLeastNow(ms) == IF ms > 0 THEN ms ELSE 0

\* Mutant of ParseRetryAfter: seconds are taken for milliseconds.
ParseRetryAfterRaw(h) ==
  CASE h.form = "seconds" -> h.n
    [] h.form = "date"    -> AtLeastNow(h.n)
    [] OTHER              -> None

\* Seconds, or a date that is not in the past.
ParseRetryAfter(h) ==
  CASE h.form = "seconds" -> h.n * 1000
    [] h.form = "date"    -> AtLeastNow(h.n)
    [] OTHER              -> None

Logical == [kind |-> "logical", retryAfterMs |-> None]

Transient(ms) == [kind |-> "transient", retryAfterMs |-> ms]

\* Mutant of ByStatus: every status is worth another try.
ByStatusAny(e) ==
  IF e.status = 429
  THEN Transient(IF e.retryAfterMs # None THEN e.retryAfterMs ELSE ParseRetryAfter(e.header))
  ELSE Transient(e.retryAfterMs)

\* 429 and 5xx are worth another try; only 429 has its header read.
ByStatus(e) ==
  IF e.status = 429
  THEN Transient(IF e.retryAfterMs # None THEN e.retryAfterMs ELSE ParseRetryAfter(e.header))
  ELSE IF e.status \in 500 .. 599 THEN Transient(e.retryAfterMs)
  ELSE Logical

\* The tag of our own classes, then Zod, the network codes, the status; what is
\* not understood is not retried.
ClassifyError(e) ==
  IF e.tag = "transient" THEN Transient(e.retryAfterMs)
  ELSE IF e.tag = "logical" \/ e.zod THEN Logical
  ELSE IF e.network THEN Transient(None)
  ELSE IF e.status # None THEN ByStatus(e)
  ELSE Logical

\* ingestProcessor: logical errors become unrecoverable; on the others the parsed
\* Retry-After is surfaced, unless the error has one of its own.
Thrown(e) ==
  LET c == ClassifyError(e)
  IN  [error         |-> e,
       unrecoverable |-> c.kind = "logical",
       retryAfterMs  |-> IF c.kind = "logical" THEN None
                         ELSE IF e.retryAfterMs # None THEN e.retryAfterMs
                         ELSE c.retryAfterMs]

-------------------------------------------------------------------------------
(* backoff.ts                                                                  *)

Exponential(made) == BaseMs * 2 ^ (made - 1)

\* What floor(rng() * exponential * jitterRatio) may be: rng() is below 1, and
\* jitterRatio is a quarter.
Jitters(exponential) == {ms \in 0 .. exponential : 4 * ms < exponential}

\* Mutant of Capped: no cap.
Uncapped(ms) == ms

Capped(ms) == IF ms < CapMs THEN ms ELSE CapMs

ComputeBackoff(made, retryAfterMs, jitter) ==
  IF retryAfterMs # None THEN retryAfterMs ELSE Capped(Exponential(made) + jitter)

-------------------------------------------------------------------------------
(* The job.                                                                    *)

Init ==
  /\ state = "active"
  /\ attemptsMade = 0
  /\ history = <<>>
  /\ deadLetter = {}

Succeed ==
  /\ state = "active"
  /\ state' = "completed"
  /\ UNCHANGED <<attemptsMade, history, deadLetter>>

\* Mutant of IsTerminal: the attempts are counted as they were before this one.
IsTerminalLate(thrown, made) == thrown.unrecoverable \/ made > Attempts

\* isTerminalFailure.
IsTerminal(thrown, made) == thrown.unrecoverable \/ made >= Attempts

\* BullMQ: another attempt, after the delay the backoffStrategy gives it.
Retry(e) ==
  LET t == Thrown(e)
      made == attemptsMade + 1
  IN  /\ state = "active"
      /\ ~t.unrecoverable /\ made < Attempts
      /\ state' = "delayed"
      /\ attemptsMade' = made
      /\ \E jitter \in Jitters(Exponential(made)) :
           history' = Append(history,
             [thrown |-> t, delay |-> ComputeBackoff(made, t.retryAfterMs, jitter)])
      /\ deadLetter' = IF IsTerminal(t, made) THEN deadLetter \cup {made} ELSE deadLetter

GiveUp(e) ==
  LET t == Thrown(e)
      made == attemptsMade + 1
  IN  /\ state = "active"
      /\ t.unrecoverable \/ made >= Attempts
      /\ state' = "failed"
      /\ attemptsMade' = made
      /\ history' = Append(history, [thrown |-> t, delay |-> None])
      /\ deadLetter' = IF IsTerminal(t, made) THEN deadLetter \cup {made} ELSE deadLetter

\* The delay is over.
NextAttempt ==
  /\ state = "delayed"
  /\ state' = "active"
  /\ UNCHANGED <<attemptsMade, history, deadLetter>>

Next ==
  \/ Succeed
  \/ \E e \in Errors : Retry(e) \/ GiveUp(e)
  \/ NextAttempt

Spec == Init /\ [][Next]_vars

-------------------------------------------------------------------------------
(* Properties.                                                                 *)

Retried == {i \in DOMAIN history : history[i].delay # None}

\* Nothing but 5xx, 429, network blips and our own transient tag is ever retried
\* ("never blindly retry a malformed payload").
OnlyTransientRetried ==
  \A i \in Retried :
    LET e == history[i].thrown.error
    IN  /\ ~e.zod \/ e.tag = "transient"
        /\ \/ e.tag = "transient"
           \/ e.network
           \/ e.status = 429 \/ e.status \in 500 .. 599

\* A rate limit's Retry-After is the delay, in whichever form it comes: so many
\* seconds, or the time to the date, and a date that has passed means now.  Without
\* one that can be read the schedule decides, within its cap.
RateLimitHonoured ==
  \A i \in Retried :
    LET e == history[i].thrown.error
    IN  e.tag = "none" /\ e.status = 429 /\ ~e.network /\ ~e.zod /\ e.retryAfterMs = None =>
          CASE e.header.form = "seconds" -> history[i].delay = 1000 * e.header.n
            [] e.header.form = "date"    -> history[i].delay = AtLeastNow(e.header.n)
            [] OTHER                     -> history[i].delay <= CapMs

\* Where the schedule is ours it does not outgrow the cap, and it never shrinks
\* from one attempt to a later one, however the jitter falls and whatever
\* Retry-Afters lie between.
ScheduleGrows ==
  \A i, j \in {k \in Retried : history[k].thrown.retryAfterMs = None} :
    /\ history[i].delay <= CapMs
    /\ i < j => history[i].delay <= history[j].delay

\* One dead letter, for the attempt BullMQ gave up at, and none before.
OneDeadLetter ==
  deadLetter = IF state = "failed" THEN {attemptsMade} ELSE {}

===============================================================================
