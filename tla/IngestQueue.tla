------------------------------ MODULE IngestQueue -----------------------------
(* The ingest queue: BullMQ jobs, the worker's slots that run ingestProcessor, *)
(* the `failed` listener that writes dead letters, and their replay.           *)
(*                                                                             *)
(*   Enqueue -> Take -> Process -> Land/Answer -> Settle -> Create -> Park     *)
(*                 ^                                 |          |              *)
(*                 +------------ Promote <- retry ---+          +-> Replay     *)
(*                                                                             *)
(* BullMQ is external and modelled from the way the code uses it: a job is     *)
(* held under a lock, a settled attempt is one atomic script that checks the   *)
(* lock, and a job whose lock is gone is taken back by the stalled check.      *)
(* ingestEvent is the abstract spine of EventSpine, which EventIngest          *)
(* implements: it may land its row and then fail to answer.                    *)
EXTENDS Naturals, Sequences, FiniteSets

CONSTANTS
  Slots,        \* the worker's concurrency slots
  Payloads,     \* job payloads: [tenant, ev, fault], `fault` as in FaultKinds
  Attempts,     \* ingestJobOptions.attempts (5 in the code)
  MaxStalls,    \* BullMQ's maxStalledCount (1 by default)
  MaxJobs,      \* bound: jobs added, replays included
  Budget,       \* bound: how often each kind of failure, and any, may strike
  NoSlot        \* "nobody" as the holder of a lock

\* none: a good record.  invalid: no model to normalize it by, or refused by the
\* schema.  transient, logical: `poison` in the payload.  demo: demoFault.
FaultKinds == {"none", "invalid", "transient", "logical", "demo"}
\* "any" stands for all of them together.
Failures == {"crash", "shutdown", "db", "lock", "api", "outage", "any"}

ASSUME AttemptsAssumption == Attempts \in Nat \ {0}
ASSUME MaxStallsAssumption == MaxStalls \in Nat
ASSUME MaxJobsAssumption == MaxJobs \in Nat
ASSUME BudgetAssumption == Budget \in [Failures -> Nat]
ASSUME NoSlotAssumption == NoSlot \notin Slots

VARIABLES
  jobs,         \* sequence of jobs, indexed by job id
  slot,         \* slot[s]: what the slot is doing, with which job
  handlers,     \* `failed` listeners that have not finished
  deadLetters,  \* sequence of dead_letter documents, indexed by _id
  parked,       \* the dead letters that have a job on the dlq queue
  replaying,    \* the dead letters whose replay is added but not yet stamped
  failMode,     \* the external outage toggle (getFailMode)
  spine,        \* the rows of the event spine
  left          \* failures that may still strike

vars == <<jobs, slot, handlers, deadLetters, parked, replaying, failMode, spine, left>>

Spine == INSTANCE EventSpine
  WITH Tenants  <- {p.tenant : p \in Payloads},
       Entities <- {p.ev.externalId : p \in Payloads},
       Versions <- {p.ev.version : p \in Payloads},
       Hashes   <- {p.ev.contentHash : p \in Payloads},
       Inputs   <- {p.ev : p \in Payloads},
       acked    <- {[tenant |-> jobs[j].payload.tenant, ev |-> jobs[j].payload.ev]
                     : j \in {i \in DOMAIN jobs : jobs[i].state = "completed"}}

JobIds == DOMAIN jobs
DocIds == DOMAIN deadLetters

Jobs == [payload : Payloads, attemptsMade : 0 .. Attempts, stalls : Nat,
         state : {"wait", "active", "delayed", "completed", "failed"},
         lock : Slots \cup {NoSlot}]

Idle == [pc |-> "idle", job |-> 0, outcome |-> "none"]

NewJob(p) == [payload |-> p, attemptsMade |-> 0, stalls |-> 0,
              state |-> "wait", lock |-> NoSlot]

Job(s) == jobs[slot[s].job]

Holds(s) == Job(s).lock = s

MayStrike(kind) == left[kind] > 0 /\ left["any"] > 0

Strike(kind) ==
  /\ MayStrike(kind)
  /\ left' = [left EXCEPT ![kind] = @ - 1, !["any"] = @ - 1]

-------------------------------------------------------------------------------
(* Retry policy.  BullMQ decides whether to retry from the attempts made before *)
(* this one; the listener reads the counter the script has incremented.         *)

\* Mutant of ShouldRetry: one attempt more than configured.
ShouldRetryLate(outcome, attemptsMade) ==
  outcome = "transient" /\ attemptsMade < Attempts

\* UnrecoverableError is never retried, another error while attempts are left.
ShouldRetry(outcome, attemptsMade) ==
  outcome = "transient" /\ attemptsMade + 1 < Attempts

\* Mutants of isTerminalFailure: an attempt early, an attempt late.
IsTerminalEarly(outcome, attemptsMade) ==
  outcome = "logical" \/ attemptsMade + 1 >= Attempts
IsTerminalLate(outcome, attemptsMade) ==
  outcome = "logical" \/ attemptsMade > Attempts

\* isTerminalFailure: UnrecoverableError, or the attempts are used up.
IsTerminal(outcome, attemptsMade) ==
  outcome = "logical" \/ attemptsMade >= Attempts

-------------------------------------------------------------------------------
(* Jobs and slots.                                                             *)

Init ==
  /\ jobs = <<>>
  /\ slot = [s \in Slots |-> Idle]
  /\ handlers = {}
  /\ deadLetters = <<>>
  /\ parked = {}
  /\ replaying = {}
  /\ failMode = "none"
  /\ spine = {}
  /\ left = Budget

Add(p) ==
  /\ Len(jobs) < MaxJobs
  /\ jobs' = Append(jobs, NewJob(p))
  /\ UNCHANGED <<slot, handlers, deadLetters, parked, replaying, failMode, spine, left>>

\* A producer (webhook sync, reconcile, backfill) adds a job: its payload has a
\* record and nothing else.
Enqueue(p) == p.fault \in {"none", "invalid"} /\ Add(p)

\* scripts/inject-failure.ts adds a job that is poisoned or has a self-healing fault.
Inject(p) == p.fault \in {"transient", "logical", "demo"} /\ Add(p)

\* Its mode `duplicate` calls ingestEvent itself, before it adds the job: the record
\* is a new one of each run of the script.
Seed(p) ==
  /\ p.fault = "demo"
  /\ \A j \in JobIds : jobs[j].payload # p
  /\ \A row \in spine : ~Spine!SameVersion(row, p.tenant, p.ev)
  /\ spine' = spine \cup {Spine!Row(p.tenant, p.ev)}
  /\ UNCHANGED <<jobs, slot, handlers, deadLetters, parked, replaying, failMode, left>>

\* A slot takes a waiting job under a lock.  One that stalled too often is failed
\* with an UnrecoverableError instead of being run.
Take(s, j) ==
  /\ slot[s] = Idle
  /\ jobs[j].state = "wait"
  /\ jobs' = [jobs EXCEPT ![j].state = "active", ![j].lock = s]
  /\ slot' = [slot EXCEPT ![s] =
                IF jobs[j].stalls > MaxStalls
                THEN [pc |-> "settle", job |-> j, outcome |-> "logical"]
                ELSE [pc |-> "run", job |-> j, outcome |-> "none"]]
  /\ UNCHANGED <<handlers, deadLetters, parked, replaying, failMode, spine, left>>

HasDeadLetter(p) == \E d \in DocIds : deadLetters[d].payload = p

\* Mutant of Verdict: a validation error is not recognised as logical.
VerdictUnclassified(p) ==
  IF p.fault = "demo" /\ ~HasDeadLetter(p) THEN "transient"
  ELSE IF failMode # "none" THEN failMode
  ELSE IF p.fault \in {"transient", "invalid", "logical"} THEN "transient"
  ELSE "ingest"

\* Mutant of Verdict: the self-healing fault never heals.
VerdictDemoStays(p) ==
  IF p.fault = "demo" THEN "transient"
  ELSE IF failMode # "none" THEN failMode
  ELSE IF p.fault = "transient" THEN "transient"
  ELSE IF p.fault \in {"logical", "invalid"} THEN "logical"
  ELSE "ingest"

\* The demo outage, the injected one (failMode over the payload's), then the
\* normalizer and the schema.
Verdict(p) ==
  IF p.fault = "demo" /\ ~HasDeadLetter(p) THEN "transient"
  ELSE IF failMode # "none" THEN failMode
  ELSE IF p.fault = "transient" THEN "transient"
  ELSE IF p.fault \in {"logical", "invalid"} THEN "logical"
  ELSE "ingest"

\* ingestProcessor up to its call of ingestEvent.
Process(s) ==
  /\ slot[s].pc = "run"
  /\ slot' = IF Verdict(Job(s).payload) = "ingest"
             THEN [slot EXCEPT ![s].pc = "ingest"]
             ELSE [slot EXCEPT ![s].pc = "settle", ![s].outcome = Verdict(Job(s).payload)]
  /\ UNCHANGED <<jobs, handlers, deadLetters, parked, replaying, failMode, spine, left>>

\* ingestEvent lands its row ...
Land(s) ==
  LET p == Job(s).payload
  IN  /\ slot[s].pc = "ingest"
      /\ \A row \in spine : ~Spine!SameVersion(row, p.tenant, p.ev)
      /\ spine' = spine \cup {Spine!Row(p.tenant, p.ev)}
      /\ UNCHANGED <<jobs, slot, handlers, deadLetters, parked, replaying, failMode, left>>

\* Mutant of Answer: the processor does not wait for ingestEvent.
AnswerUnawaited(s) ==
  /\ slot[s].pc = "ingest"
  /\ slot' = [slot EXCEPT ![s].pc = "settle", ![s].outcome = "ok"]
  /\ UNCHANGED <<jobs, handlers, deadLetters, parked, replaying, failMode, spine, left>>

\* ... and answers once its input is represented.
Answer(s) ==
  /\ slot[s].pc = "ingest"
  /\ Spine!Represented(spine, Job(s).payload.tenant, Job(s).payload.ev)
  /\ slot' = [slot EXCEPT ![s].pc = "settle", ![s].outcome = "ok"]
  /\ UNCHANGED <<jobs, handlers, deadLetters, parked, replaying, failMode, spine, left>>

\* A driver error of a query in the processor.  It carries neither a network
\* code nor an HTTP status, so classifyError takes it for a logical failure.
DbError(s) ==
  /\ slot[s].pc \in {"run", "ingest"}
  /\ slot[s].pc = "run" => Job(s).payload.fault = "demo"
  /\ Strike("db")
  /\ slot' = [slot EXCEPT ![s].pc = "settle", ![s].outcome = "logical"]
  /\ UNCHANGED <<jobs, handlers, deadLetters, parked, replaying, failMode, spine>>

Complete(s) ==
  /\ slot[s].pc = "settle" /\ slot[s].outcome = "ok" /\ Holds(s)
  /\ jobs' = [jobs EXCEPT ![slot[s].job].state = "completed",
                          ![slot[s].job].lock = NoSlot]
  /\ slot' = [slot EXCEPT ![s] = Idle]
  /\ UNCHANGED <<handlers, deadLetters, parked, replaying, failMode, spine, left>>

\* A failed attempt: BullMQ counts it and moves the job to delayed or failed;
\* then the `failed` event runs the listener, which starts a dead letter when
\* the failure is terminal.
Fail(s) ==
  LET j       == slot[s].job
      outcome == slot[s].outcome
      made    == jobs[j].attemptsMade + 1
  IN  /\ slot[s].pc = "settle" /\ outcome # "ok" /\ Holds(s)
      /\ jobs' = [jobs EXCEPT
                    ![j].state = IF ShouldRetry(outcome, jobs[j].attemptsMade)
                                 THEN "delayed" ELSE "failed",
                    ![j].attemptsMade = made,
                    ![j].lock = NoSlot]
      /\ handlers' = IF IsTerminal(outcome, made)
                     THEN handlers \cup {[pc |-> "create", job |-> j, doc |-> 0,
                                          outcome |-> outcome, attemptsMade |-> made]}
                     ELSE handlers
      /\ slot' = [slot EXCEPT ![s] = Idle]
      /\ UNCHANGED <<deadLetters, parked, replaying, failMode, spine, left>>

\* Mutant of LostLock: the attempt of a slot without the lock counts.
LostLockCompletes(s) ==
  /\ slot[s].pc = "settle" /\ ~Holds(s)
  /\ jobs' = [jobs EXCEPT ![slot[s].job].state = "completed"]
  /\ slot' = [slot EXCEPT ![s] = Idle]
  /\ UNCHANGED <<handlers, deadLetters, parked, replaying, failMode, spine, left>>

\* The script finds the lock missing or another's: nothing moves, no event.
LostLock(s) ==
  /\ slot[s].pc = "settle" /\ ~Holds(s)
  /\ slot' = [slot EXCEPT ![s] = Idle]
  /\ UNCHANGED <<jobs, handlers, deadLetters, parked, replaying, failMode, spine, left>>

\* The backoff delay of a job has passed.
Promote(j) ==
  /\ jobs[j].state = "delayed"
  /\ jobs' = [jobs EXCEPT ![j].state = "wait"]
  /\ UNCHANGED <<slot, handlers, deadLetters, parked, replaying, failMode, spine, left>>

\* The lock of a running job is not renewed in time: its slot goes on regardless.
LockExpires(s) ==
  /\ slot[s] # Idle /\ Holds(s)
  /\ Strike("lock")
  /\ jobs' = [jobs EXCEPT ![slot[s].job].lock = NoSlot]
  /\ UNCHANGED <<slot, handlers, deadLetters, parked, replaying, failMode, spine>>

\* The stalled check puts an active job without a lock back to wait.
Stalled(j) ==
  /\ jobs[j].state = "active" /\ jobs[j].lock = NoSlot
  /\ jobs' = [jobs EXCEPT ![j].state = "wait", ![j].stalls = @ + 1]
  /\ UNCHANGED <<slot, handlers, deadLetters, parked, replaying, failMode, spine, left>>

-------------------------------------------------------------------------------
(* Dead letters.                                                               *)

Create(h) ==
  /\ h.pc = "create"
  /\ deadLetters' = Append(deadLetters,
       [job |-> h.job, payload |-> jobs[h.job].payload, outcome |-> h.outcome,
        attemptsMade |-> h.attemptsMade, replayed |-> FALSE])
  /\ handlers' = (handlers \ {h}) \cup
                   {[h EXCEPT !.pc = "park", !.doc = Len(deadLetters) + 1]}
  /\ UNCHANGED <<jobs, slot, parked, replaying, failMode, spine, left>>

Park(h) ==
  /\ h.pc = "park"
  /\ parked' = parked \cup {h.doc}
  /\ handlers' = handlers \ {h}
  /\ UNCHANGED <<jobs, slot, deadLetters, replaying, failMode, spine, left>>

\* DeadLetter.create or dlqQueue.add throws: the listener logs it and is done.
HandlerError(h) ==
  /\ Strike("db")
  /\ handlers' = handlers \ {h}
  /\ UNCHANGED <<jobs, slot, deadLetters, parked, replaying, failMode, spine>>

\* Mutant of ReplayAdd: the add is not awaited, and fails.
ReplayAddLost(d) ==
  /\ Len(jobs) < MaxJobs
  /\ replaying' = replaying \cup {d}
  /\ UNCHANGED <<jobs, slot, handlers, deadLetters, parked, failMode, spine, left>>

\* replayDeadLetter enqueues the payload as it is ...
ReplayAdd(d) ==
  /\ Len(jobs) < MaxJobs
  /\ jobs' = Append(jobs, NewJob(deadLetters[d].payload))
  /\ replaying' = replaying \cup {d}
  /\ UNCHANGED <<slot, handlers, deadLetters, parked, failMode, spine, left>>

\* ... and then stamps replayedAt.
ReplayStamp(d) ==
  /\ d \in replaying
  /\ deadLetters' = [deadLetters EXCEPT ![d].replayed = TRUE]
  /\ replaying' = replaying \ {d}
  /\ UNCHANGED <<jobs, slot, handlers, parked, failMode, spine, left>>

\* The save fails, or the API process dies before it.
ReplayAbort(d) ==
  /\ d \in replaying
  /\ Strike("api")
  /\ replaying' = replaying \ {d}
  /\ UNCHANGED <<jobs, slot, handlers, deadLetters, parked, failMode, spine>>

-------------------------------------------------------------------------------
(* The worker process.                                                         *)

\* Mutant of Crash: locks do not run out.
CrashKeepsLocks ==
  /\ Strike("crash")
  /\ slot' = [s \in Slots |-> Idle]
  /\ handlers' = {}
  /\ UNCHANGED <<jobs, deadLetters, parked, replaying, failMode, spine>>

\* The process dies: slots and listeners are gone, the locks run out.
Crash ==
  /\ Strike("crash")
  /\ slot' = [s \in Slots |-> Idle]
  /\ handlers' = {}
  /\ jobs' = [j \in JobIds |-> [jobs[j] EXCEPT !.lock = NoSlot]]
  /\ UNCHANGED <<deadLetters, parked, replaying, failMode, spine>>

\* SIGTERM: worker.close() waits for the running jobs, not for the listeners,
\* and process.exit(0) ends those.
Shutdown ==
  /\ \A s \in Slots : slot[s] = Idle
  /\ handlers # {}
  /\ Strike("shutdown")
  /\ handlers' = {}
  /\ UNCHANGED <<jobs, slot, deadLetters, parked, replaying, failMode, spine>>

OutageBegins ==
  /\ Strike("outage")
  /\ failMode' = "transient"
  /\ UNCHANGED <<jobs, slot, handlers, deadLetters, parked, replaying, spine>>

OutageEnds ==
  /\ failMode # "none"
  /\ failMode' = "none"
  /\ UNCHANGED <<jobs, slot, handlers, deadLetters, parked, replaying, spine, left>>

-------------------------------------------------------------------------------

SlotStep(s) ==
  \/ \E j \in JobIds : Take(s, j)
  \/ Process(s)
  \/ Land(s)
  \/ Answer(s)
  \/ Complete(s)
  \/ Fail(s)
  \/ LostLock(s)

RedisStep == \E j \in JobIds : Promote(j) \/ Stalled(j)

HandlerStep == \E h \in handlers : Create(h) \/ Park(h)

Failure ==
  \/ \E s \in Slots : DbError(s) \/ LockExpires(s)
  \/ \E h \in handlers : HandlerError(h)
  \/ \E d \in DocIds : ReplayAbort(d)
  \/ Crash
  \/ Shutdown
  \/ OutageBegins

Next ==
  \/ \E p \in Payloads : Enqueue(p) \/ Inject(p) \/ Seed(p)
  \/ \E s \in Slots : SlotStep(s)
  \/ RedisStep
  \/ HandlerStep
  \/ \E d \in DocIds : ReplayAdd(d) \/ ReplayStamp(d)
  \/ OutageEnds
  \/ Failure

Spec == Init /\ [][Next]_vars

\* The worker's loop, BullMQ's timers and the listeners run as long as the
\* process does; nobody owes an enqueue, a replay, an outage or a failure.
Fairness ==
  /\ \A s \in Slots : WF_vars(SlotStep(s))
  /\ WF_vars(RedisStep)
  /\ WF_vars(HandlerStep)

FairSpec == Spec /\ Fairness

-------------------------------------------------------------------------------
(* Properties.                                                                 *)

\* Types; attempts never exceed the limit, however locks are lost and jobs are taken
\* over.  A job's stalls may: one that stalled too often and loses its lock again
\* before its slot fails it stalls once more.
TypeOK ==
  /\ jobs \in Seq(Jobs) /\ Len(jobs) <= MaxJobs
  /\ slot \in [Slots -> [pc : {"idle", "run", "ingest", "settle"}, job : 0 .. Len(jobs),
                         outcome : {"none", "ok", "transient", "logical"}]]
  /\ \A h \in handlers : h.pc \in {"create", "park"} /\ h.job \in JobIds
  /\ \A d \in DocIds : deadLetters[d].job \in JobIds
  /\ parked \subseteq DocIds /\ replaying \subseteq DocIds
  /\ left \in [Failures -> Nat]

\* A job is completed only when its record is in the spine, also when it ran in
\* two slots at once, crashed halfway or was replayed.
CompletedRepresented ==
  \A j \in JobIds :
    jobs[j].state = "completed" =>
      Spine!Represented(spine, jobs[j].payload.tenant, jobs[j].payload.ev)

\* Retries, stalled takeovers, crashes and replays implement the spine: rows are
\* appended once per version, and a completed job is an acknowledged input.
ImplementsSpine == Spine!Spec

\* The guard in the `failed` listener ("whether we write one DLQ doc or none"):
\* dead letters are written for jobs BullMQ has given up on, one for each, and
\* a transient failure is one only after all its attempts.
DeadLettersSound ==
  /\ \A d \in DocIds :
       LET doc == deadLetters[d] IN
         /\ jobs[doc.job].state = "failed"
         /\ doc.attemptsMade = jobs[doc.job].attemptsMade
         /\ doc.outcome = "transient" => doc.attemptsMade = Attempts
  /\ \A d1, d2 \in DocIds : deadLetters[d1].job = deadLetters[d2].job => d1 = d2

\* A job BullMQ has given up on is in dead_letter, or its listener is about to
\* write it there ("on terminal failure, persists full context").
NoSilentDrop ==
  \A j \in JobIds :
    jobs[j].state = "failed" =>
      \/ \E d \in DocIds : deadLetters[d].job = j
      \/ \E h \in handlers : h.job = j /\ h.pc = "create"

Struck(kind) == left[kind] < Budget[kind]

\* Only a process that ends or a write that fails costs a dead letter: lost locks,
\* takeovers, outages and replays never do.
DropNeedsFault == Struck("crash") \/ Struck("shutdown") \/ Struck("db") \/ NoSilentDrop

\* Without an outage a malformed payload is tried once: validation errors are
\* never retried, whatever else fails and whoever takes the job over.
LogicalFailsAtOnce ==
  \/ Struck("outage")
  \/ \A j \in JobIds :
       jobs[j].payload.fault \in {"invalid", "logical"} =>
         jobs[j].attemptsMade <= 1 /\ jobs[j].state # "delayed"

\* The stamp replayedAt tells the truth: the payload was enqueued again, verbatim,
\* after the job that failed.
StampedWasReplayed ==
  \A d \in DocIds :
    deadLetters[d].replayed =>
      \E j \in JobIds : /\ j > deadLetters[d].job
                        /\ jobs[j].payload = deadLetters[d].payload

\* Once settled a job stays settled the way it was: a slot whose lock was taken
\* away cannot turn a failed job into a completed one, nor the reverse.
SettledOnce ==
  [][\A j \in JobIds :
       jobs[j].state \in {"completed", "failed"} => jobs'[j].state = jobs[j].state]_jobs

\* Every job added is settled in the end, through crashes, lost locks, outages
\* and driver errors.
EverySettles ==
  \A j \in 1 .. MaxJobs :
    (j \in JobIds) ~> (j \in JobIds /\ jobs[j].state \in {"completed", "failed"})

\* The self-healing fault heals: once the record is a dead letter and neither the
\* database nor the injected outage fails it, a job for it that has not been tried
\* yet (the replay) completes, unless it is lost from its slots more often than
\* BullMQ allows.
HealsOnceDeadLettered ==
  \A j \in 1 .. MaxJobs :
    (/\ j \in JobIds /\ jobs[j].state = "wait" /\ jobs[j].attemptsMade = 0
     /\ jobs[j].payload.fault = "demo" /\ HasDeadLetter(jobs[j].payload)
     /\ failMode = "none" /\ ~MayStrike("outage") /\ ~MayStrike("db"))
      ~> (j \in JobIds /\ (jobs[j].state = "completed" \/ jobs[j].stalls > MaxStalls))

===============================================================================
