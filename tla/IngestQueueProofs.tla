--------------------------- MODULE IngestQueueProofs --------------------------
(* Proofs about IngestQueue, for every set of slots and payloads, every number *)
(* of attempts and stalls, and every budget of failures.  The properties are   *)
(* strengthened to IInv: what the types leave open (TypeInv), that a lock is   *)
(* held on running jobs only (JobsSound), what a `failed` listener knows of    *)
(* its job between its two writes (LettersSound), that a replay under way has  *)
(* its job (ReplaysSound), that a slot which is about to answer has its record *)
(* in the spine (AnswersSound), and where a malformed payload may be           *)
(* (MalformedSound).                                                           *)
EXTENDS IngestQueue, SequenceTheorems, FiniteSetTheorems, TLAPS

Frames == [pc : {"run", "ingest", "settle"}, job : JobIds,
           outcome : {"none", "ok", "transient", "logical"}]

Handlers == [pc : {"create", "park"}, job : JobIds, doc : Nat,
             outcome : {"transient", "logical"}, attemptsMade : 0 .. Attempts]

Docs == [job : Nat, payload : Payloads, outcome : {"transient", "logical"},
         attemptsMade : 0 .. Attempts, replayed : BOOLEAN]

TypeInv ==
  /\ jobs \in Seq(Jobs) /\ Len(jobs) <= MaxJobs
  /\ slot \in [Slots -> Frames \cup {Idle}]
  /\ \A s \in Slots : slot[s].pc = "settle" => slot[s].outcome # "none"
  /\ handlers \subseteq Handlers
  /\ \A h \in handlers : h.pc = "park" => h.doc \in DocIds
  /\ deadLetters \in Seq(Docs)
  /\ \A d \in DocIds : deadLetters[d].job \in JobIds
  /\ parked \subseteq DocIds /\ replaying \subseteq DocIds
  /\ failMode \in {"none", "transient"}
  /\ left \in [Failures -> Nat]
  /\ \A k \in Failures : left[k] <= Budget[k]

Settled(j) == jobs[j].state \in {"completed", "failed"}

\* A lock is held on a running job only, and a job that is not settled has an
\* attempt left.
JobsSound ==
  \A j \in JobIds :
    /\ jobs[j].lock \in Slots => jobs[j].state = "active"
    /\ ~Settled(j) => jobs[j].attemptsMade < Attempts

\* What BullMQ has told the listener of a job it has given up on,
\* with the jobs as a parameter.
GivenUp(rows, j, outcome, made) ==
  /\ rows[j].state = "failed"
  /\ rows[j].attemptsMade = made
  /\ outcome = "transient" => made = Attempts

LettersSound ==
  /\ \A d \in DocIds :
       GivenUp(jobs, deadLetters[d].job, deadLetters[d].outcome, deadLetters[d].attemptsMade)
  /\ \A d1, d2 \in DocIds : deadLetters[d1].job = deadLetters[d2].job => d1 = d2
  /\ \A h \in handlers : GivenUp(jobs, h.job, h.outcome, h.attemptsMade)
  /\ \A h \in handlers : h.pc = "create" => \A d \in DocIds : deadLetters[d].job # h.job
  /\ \A h \in handlers : h.pc = "park" => deadLetters[h.doc].job = h.job
  /\ \A g, h \in handlers : g.job = h.job => g = h

Replayed(d) ==
  \E j \in JobIds : j > deadLetters[d].job /\ jobs[j].payload = deadLetters[d].payload

ReplaysSound ==
  \A d \in DocIds : deadLetters[d].replayed \/ d \in replaying => Replayed(d)

InSpineOf(rows, p) == Spine!Represented(rows, p.tenant, p.ev)

InSpine(p) == InSpineOf(spine, p)

AnswersSound ==
  \A s \in Slots : slot[s].pc = "settle" /\ slot[s].outcome = "ok" => InSpine(Job(s).payload)

Malformed(p) == p.fault \in {"invalid", "logical"}

\* As long as there was no outage a malformed payload is not past the checks and
\* its attempt, once over, has failed for good.
MalformedSound ==
  \/ Struck("outage")
  \/ /\ failMode = "none"
     /\ \A s \in Slots :
          slot[s].pc # "idle" /\ Malformed(Job(s).payload) =>
            \/ slot[s].pc = "run"
            \/ slot[s].pc = "settle" /\ slot[s].outcome = "logical"
     /\ \A j \in JobIds :
          Malformed(jobs[j].payload) =>
            /\ jobs[j].state # "delayed"
            /\ ~Settled(j) => jobs[j].attemptsMade = 0
            /\ jobs[j].attemptsMade <= 1

IInv ==
  /\ TypeInv
  /\ JobsSound
  /\ LettersSound
  /\ ReplaysSound
  /\ DropNeedsFault
  /\ AnswersSound
  /\ CompletedRepresented
  /\ MalformedSound

-------------------------------------------------------------------------------
(* What a step does to the jobs.                                               *)

\* What is known of a sequence of jobs after one of them was rewritten.
LEMMA JobRewritten ==
  ASSUME TypeInv, NEW j \in JobIds, NEW f \in Jobs, jobs' = [jobs EXCEPT ![j] = f]
  PROVE  /\ jobs' \in Seq(Jobs) /\ Len(jobs') = Len(jobs) /\ JobIds' = JobIds
         /\ jobs'[j] = f
         /\ \A i \in JobIds : i # j => jobs'[i] = jobs[i]
<1>1. jobs \in Seq(Jobs) /\ JobIds = 1 .. Len(jobs)
  BY LenProperties DEF TypeInv, JobIds
<1>2. /\ jobs' \in Seq(Jobs) /\ Len(jobs') = Len(jobs)
      /\ \A i \in 1 .. Len(jobs) : jobs'[i] = IF i = j THEN f ELSE jobs[i]
  BY <1>1, ExceptSeq
<1>3. JobIds' = 1 .. Len(jobs') BY <1>2, LenProperties DEF JobIds
<1> QED BY <1>1, <1>2, <1>3

\* A job id names a job.
LEMMA JobTypes ==
  ASSUME TypeInv
  PROVE  /\ JobIds = 1 .. Len(jobs) /\ Len(jobs) \in Nat
         /\ \A j \in JobIds : jobs[j] \in Jobs
BY LenProperties, ElementOfSeq DEF TypeInv, JobIds

\* The _id of a dead letter names one.
LEMMA DocTypes ==
  ASSUME TypeInv
  PROVE  /\ DocIds = 1 .. Len(deadLetters) /\ Len(deadLetters) \in Nat
         /\ \A d \in DocIds : deadLetters[d] \in Docs
<1> DEFINE S == Docs
<1>1. deadLetters \in Seq(S) BY DEF TypeInv
<1> HIDE DEF S
<1>2. DocIds = 1 .. Len(deadLetters) /\ Len(deadLetters) \in Nat
  BY <1>1, LenProperties DEF DocIds
<1>3. \A d \in 1 .. Len(deadLetters) : deadLetters[d] \in S
  BY <1>1, ElementOfSeq
<1> QED BY <1>2, <1>3 DEF S

\* A slot at work has a frame, and the job it names.
LEMMA BusySlot ==
  ASSUME TypeInv, NEW s \in Slots, slot[s].pc # "idle"
  PROVE  slot[s] \in Frames /\ slot[s].job \in JobIds
<1>1. slot[s] \in Frames BY DEF TypeInv, Idle
<1> QED BY <1>1 DEF Frames

\* An idle slot is not at work.
LEMMA IdleSlot ==
  ASSUME TypeInv
  PROVE  /\ Idle.pc = "idle" /\ Idle.outcome = "none"
         /\ \A s \in Slots : slot[s] = Idle <=> slot[s].pc = "idle"
BY DEF TypeInv, Frames, Idle

\* A new job waits behind those there are.
Added(p) ==
  /\ jobs' \in Seq(Jobs) /\ Len(jobs') = Len(jobs) + 1
  /\ JobIds' = JobIds \cup {Len(jobs) + 1}
  /\ jobs'[Len(jobs) + 1] = NewJob(p)
  /\ \A i \in JobIds : jobs'[i] = jobs[i]

LEMMA JobAdded ==
  ASSUME TypeInv, NEW p \in Payloads, jobs' = Append(jobs, NewJob(p))
  PROVE  Added(p)
<1>1. jobs \in Seq(Jobs) /\ JobIds = 1 .. Len(jobs) /\ Len(jobs) \in Nat
  BY LenProperties DEF TypeInv, JobIds
<1>2. NewJob(p) \in Jobs BY AttemptsAssumption DEF NewJob, Jobs
<1>3. /\ jobs' \in Seq(Jobs) /\ Len(jobs') = Len(jobs) + 1
      /\ \A i \in 1 .. Len(jobs) : jobs'[i] = jobs[i]
      /\ jobs'[Len(jobs) + 1] = NewJob(p)
  BY <1>1, <1>2, AppendProperties
<1>4. JobIds' = 1 .. Len(jobs') BY <1>3, LenProperties DEF JobIds
<1>5. 1 .. Len(jobs) + 1 = 1 .. Len(jobs) \cup {Len(jobs) + 1} BY <1>1
<1> QED BY <1>1, <1>3, <1>4, <1>5 DEF Added

\* A job moved: its payload stays, the other jobs are as they were.
Moved(j, state, made, lock) ==
  /\ jobs' \in Seq(Jobs) /\ Len(jobs') = Len(jobs) /\ JobIds' = JobIds
  /\ \A i \in JobIds : i # j => jobs'[i] = jobs[i]
  /\ jobs'[j].payload = jobs[j].payload
  /\ jobs'[j].state = state
  /\ jobs'[j].attemptsMade = made
  /\ jobs'[j].lock = lock

LEMMA TakeMoves ==
  ASSUME TypeInv, NEW s \in Slots, NEW j \in JobIds, Take(s, j)
  PROVE  Moved(j, "active", jobs[j].attemptsMade, s)
<1> DEFINE f == [jobs[j] EXCEPT !.state = "active", !.lock = s]
<1>1. jobs[j] \in Jobs BY JobTypes
<1>2. f \in Jobs BY <1>1 DEF Jobs
<1>3. /\ f.payload = jobs[j].payload /\ f.state = "active"
      /\ f.attemptsMade = jobs[j].attemptsMade /\ f.lock = s
  BY <1>1 DEF Jobs
<1>4. jobs' = [jobs EXCEPT ![j] = f] BY DEF Take
<1> HIDE DEF f
<1> QED BY <1>2, <1>3, <1>4, JobRewritten DEF Moved

LEMMA CompleteMoves ==
  ASSUME TypeInv, NEW s \in Slots, Complete(s)
  PROVE  LET j == slot[s].job
         IN  j \in JobIds /\ Moved(j, "completed", jobs[j].attemptsMade, NoSlot)
<1> DEFINE j == slot[s].job
           f == [jobs[j] EXCEPT !.state = "completed", !.lock = NoSlot]
<1>0. j \in JobIds BY BusySlot DEF Complete
<1>1. jobs[j] \in Jobs BY <1>0, JobTypes
<1>2. f \in Jobs BY <1>1 DEF Jobs
<1>3. /\ f.payload = jobs[j].payload /\ f.state = "completed"
      /\ f.attemptsMade = jobs[j].attemptsMade /\ f.lock = NoSlot
  BY <1>1 DEF Jobs
<1>4. jobs' = [jobs EXCEPT ![j] = f] BY DEF Complete
<1> HIDE DEF f
<1> QED BY <1>0, <1>2, <1>3, <1>4, JobRewritten DEF Moved

\* A slot that holds its job's lock is the one that runs it.
LEMMA HolderRuns ==
  ASSUME TypeInv, JobsSound, NEW s \in Slots, slot[s].pc # "idle", Holds(s)
  PROVE  LET j == slot[s].job
         IN  /\ j \in JobIds /\ jobs[j].state = "active"
             /\ jobs[j].attemptsMade < Attempts /\ jobs[j].attemptsMade + 1 \in 0 .. Attempts
<1> DEFINE j == slot[s].job
<1>0. j \in JobIds BY BusySlot
<1>1. jobs[j].state = "active" /\ jobs[j].attemptsMade < Attempts
  BY <1>0 DEF JobsSound, Holds, Job, Settled
<1>2. jobs[j].attemptsMade \in Nat /\ Attempts \in Nat
  BY <1>0, JobTypes, AttemptsAssumption DEF Jobs
<1> QED BY <1>0, <1>1, <1>2

LEMMA FailMoves ==
  ASSUME TypeInv, JobsSound, NEW s \in Slots, Fail(s)
  PROVE  LET j == slot[s].job
         IN  /\ j \in JobIds
             /\ Moved(j, IF ShouldRetry(slot[s].outcome, jobs[j].attemptsMade)
                         THEN "delayed" ELSE "failed",
                      jobs[j].attemptsMade + 1, NoSlot)
<1> DEFINE j == slot[s].job
           state == IF ShouldRetry(slot[s].outcome, jobs[j].attemptsMade)
                    THEN "delayed" ELSE "failed"
           f == [jobs[j] EXCEPT !.state = state,
                                !.attemptsMade = jobs[j].attemptsMade + 1, !.lock = NoSlot]
<1>0. j \in JobIds /\ jobs[j].attemptsMade + 1 \in 0 .. Attempts
  BY HolderRuns DEF Fail
<1>1. jobs[j] \in Jobs BY <1>0, JobTypes
<1>2. jobs' = [jobs EXCEPT ![j] = f] BY DEF Fail
<1>3. state \in {"delayed", "failed"} OBVIOUS
<1> HIDE DEF state
<1>4. f \in Jobs BY <1>0, <1>1, <1>3 DEF Jobs
<1>5. /\ f.payload = jobs[j].payload /\ f.state = state
      /\ f.attemptsMade = jobs[j].attemptsMade + 1 /\ f.lock = NoSlot
  BY <1>1 DEF Jobs
<1> HIDE DEF f
<1>6. Moved(j, state, jobs[j].attemptsMade + 1, NoSlot)
  BY <1>0, <1>2, <1>4, <1>5, JobRewritten DEF Moved
<1> QED BY <1>0, <1>6 DEF state

LEMMA PromoteMoves ==
  ASSUME TypeInv, NEW j \in JobIds, Promote(j)
  PROVE  Moved(j, "wait", jobs[j].attemptsMade, jobs[j].lock)
<1> DEFINE f == [jobs[j] EXCEPT !.state = "wait"]
<1>1. jobs[j] \in Jobs BY JobTypes
<1>2. f \in Jobs BY <1>1 DEF Jobs
<1>3. /\ f.payload = jobs[j].payload /\ f.state = "wait"
      /\ f.attemptsMade = jobs[j].attemptsMade /\ f.lock = jobs[j].lock
  BY <1>1 DEF Jobs
<1>4. jobs' = [jobs EXCEPT ![j] = f] BY DEF Promote
<1> HIDE DEF f
<1> QED BY <1>2, <1>3, <1>4, JobRewritten DEF Moved

LEMMA LockExpiresMoves ==
  ASSUME TypeInv, NEW s \in Slots, LockExpires(s)
  PROVE  LET j == slot[s].job
         IN  j \in JobIds /\ Moved(j, jobs[j].state, jobs[j].attemptsMade, NoSlot)
<1> DEFINE j == slot[s].job
           f == [jobs[j] EXCEPT !.lock = NoSlot]
<1>0. j \in JobIds BY BusySlot, IdleSlot DEF LockExpires
<1>1. jobs[j] \in Jobs BY <1>0, JobTypes
<1>2. f \in Jobs BY <1>1 DEF Jobs
<1>3. /\ f.payload = jobs[j].payload /\ f.state = jobs[j].state
      /\ f.attemptsMade = jobs[j].attemptsMade /\ f.lock = NoSlot
  BY <1>1 DEF Jobs
<1>4. jobs' = [jobs EXCEPT ![j] = f] BY DEF LockExpires
<1> HIDE DEF f
<1> QED BY <1>0, <1>2, <1>3, <1>4, JobRewritten DEF Moved

LEMMA StalledMoves ==
  ASSUME TypeInv, NEW j \in JobIds, Stalled(j)
  PROVE  Moved(j, "wait", jobs[j].attemptsMade, NoSlot)
<1> DEFINE f == [jobs[j] EXCEPT !.state = "wait", !.stalls = jobs[j].stalls + 1]
<1>1. jobs[j] \in Jobs BY JobTypes
<1>2. f \in Jobs
  <2>1. jobs[j].stalls + 1 \in Nat BY <1>1 DEF Jobs
  <2> QED BY <1>1, <2>1 DEF Jobs
<1>3. /\ f.payload = jobs[j].payload /\ f.state = "wait"
      /\ f.attemptsMade = jobs[j].attemptsMade /\ f.lock = NoSlot
  BY <1>1 DEF Jobs, Stalled
<1>4. jobs' = [jobs EXCEPT ![j] = f] BY DEF Stalled
<1> HIDE DEF f
<1> QED BY <1>2, <1>3, <1>4, JobRewritten DEF Moved

\* After a crash every job is where it was, without a lock.
Unlocked ==
  /\ jobs' \in Seq(Jobs) /\ Len(jobs') = Len(jobs) /\ JobIds' = JobIds
  /\ \A j \in JobIds : /\ jobs'[j].payload = jobs[j].payload
                       /\ jobs'[j].state = jobs[j].state
                       /\ jobs'[j].attemptsMade = jobs[j].attemptsMade
                       /\ jobs'[j].lock = NoSlot

LEMMA CrashUnlocks ==
  ASSUME TypeInv, Crash
  PROVE  Unlocked
<1>1. JobIds = 1 .. Len(jobs) /\ Len(jobs) \in Nat /\ \A j \in JobIds : jobs[j] \in Jobs
  BY JobTypes
<1>2. jobs' = [j \in 1 .. Len(jobs) |-> [jobs[j] EXCEPT !.lock = NoSlot]]
  BY <1>1 DEF Crash
<1>3. \A j \in 1 .. Len(jobs) : [jobs[j] EXCEPT !.lock = NoSlot] \in Jobs
  BY <1>1 DEF Jobs
<1>4. jobs' \in [1 .. Len(jobs) -> Jobs] BY <1>2, <1>3
<1>5. jobs' \in Seq(Jobs) BY <1>1, <1>4, SeqDef
<1>6. JobIds' = 1 .. Len(jobs) /\ JobIds' = 1 .. Len(jobs') /\ Len(jobs') \in Nat
  BY <1>4, <1>5, LenProperties DEF JobIds
<1>7. Len(jobs') = Len(jobs) BY <1>1, <1>6
<1>8. \A j \in JobIds : /\ jobs'[j].payload = jobs[j].payload
                        /\ jobs'[j].state = jobs[j].state
                        /\ jobs'[j].attemptsMade = jobs[j].attemptsMade
                        /\ jobs'[j].lock = NoSlot
  BY <1>1, <1>2 DEF Jobs
<1> QED BY <1>1, <1>5, <1>6, <1>7, <1>8 DEF Unlocked

-------------------------------------------------------------------------------
(* Next, seen from one job.                                                    *)

\* The steps that touch the jobs at all.
LEMMA JobsMove ==
  ASSUME TypeInv, [Next]_vars
  PROVE  \/ UNCHANGED jobs
         \/ Len(jobs) < MaxJobs /\ \E p \in Payloads : Added(p)
         \/ \E s \in Slots, j \in JobIds : Take(s, j)
         \/ \E s \in Slots : Complete(s) \/ Fail(s) \/ LockExpires(s)
         \/ \E j \in JobIds : Promote(j) \/ Stalled(j)
         \/ Crash
<1>1. ASSUME NEW p \in Payloads, Add(p)
      PROVE  Len(jobs) < MaxJobs /\ Added(p)
  BY <1>1, JobAdded DEF Add
<1>2. ASSUME NEW d \in DocIds, ReplayAdd(d)
      PROVE  Len(jobs) < MaxJobs /\ \E p \in Payloads : Added(p)
  <2>1. deadLetters[d].payload \in Payloads BY DocTypes DEF Docs
  <2> QED BY <1>2, <2>1, JobAdded DEF ReplayAdd
<1>3. \/ UNCHANGED jobs
      \/ \E p \in Payloads : Add(p)
      \/ \E d \in DocIds : ReplayAdd(d)
      \/ \E s \in Slots, j \in JobIds : Take(s, j)
      \/ \E s \in Slots : Complete(s) \/ Fail(s) \/ LockExpires(s)
      \/ \E j \in JobIds : Promote(j) \/ Stalled(j)
      \/ Crash
  BY DEF Next, SlotStep, RedisStep, HandlerStep, Failure, Enqueue, Inject, Seed, Process,
         Land, Answer, DbError, LostLock, Create, Park, HandlerError, ReplayStamp,
         ReplayAbort, Shutdown, OutageBegins, OutageEnds, vars
<1> QED BY <1>1, <1>2, <1>3

\* A job that is there stays, with its payload, and goes one edge of its life.
JobEdge(j) ==
  /\ j \in JobIds'
  /\ jobs'[j].payload = jobs[j].payload
  /\ \/ /\ jobs'[j].state = jobs[j].state
        /\ jobs'[j].attemptsMade = jobs[j].attemptsMade
        /\ jobs'[j].lock \in {jobs[j].lock, NoSlot}
     \/ /\ jobs[j].state = "wait" /\ jobs'[j].state = "active"
        /\ jobs'[j].attemptsMade = jobs[j].attemptsMade
     \/ /\ jobs[j].state = "delayed" /\ jobs'[j].state = "wait"
        /\ jobs'[j].attemptsMade = jobs[j].attemptsMade
        /\ jobs'[j].lock = jobs[j].lock
     \/ /\ jobs[j].state = "active" /\ jobs'[j].state = "wait"
        /\ jobs'[j].attemptsMade = jobs[j].attemptsMade
        /\ jobs'[j].lock = NoSlot
     \/ /\ jobs[j].state = "active" /\ jobs'[j].state = "completed"
        /\ jobs'[j].attemptsMade = jobs[j].attemptsMade
        /\ jobs'[j].lock = NoSlot
        /\ \E s \in Slots : Complete(s) /\ slot[s].job = j
     \/ /\ jobs[j].state = "active"
        /\ jobs'[j].attemptsMade = jobs[j].attemptsMade + 1
        /\ jobs'[j].lock = NoSlot
        /\ \E s \in Slots :
             /\ Fail(s) /\ slot[s].job = j
             /\ jobs'[j].state = IF ShouldRetry(slot[s].outcome, jobs[j].attemptsMade)
                                 THEN "delayed" ELSE "failed"

LEMMA JobsStep ==
  ASSUME TypeInv, JobsSound, [Next]_vars
  PROVE  /\ jobs' \in Seq(Jobs) /\ Len(jobs') <= MaxJobs
         /\ \A j \in JobIds : JobEdge(j)
         /\ JobIds \subseteq JobIds'
         /\ \A j \in JobIds' \ JobIds : \E p \in Payloads : jobs'[j] = NewJob(p)
<1> DEFINE Goal == /\ jobs' \in Seq(Jobs) /\ Len(jobs') <= MaxJobs
                   /\ \A j \in JobIds : JobEdge(j)
                   /\ \A j \in JobIds' \ JobIds : \E p \in Payloads : jobs'[j] = NewJob(p)
<1>0. Len(jobs) \in Nat /\ Len(jobs) <= MaxJobs /\ MaxJobs \in Nat
  BY JobTypes, MaxJobsAssumption DEF TypeInv
<1>1. CASE UNCHANGED jobs
  BY <1>0, <1>1 DEF JobEdge, JobIds, TypeInv
<1>2. ASSUME NEW p \in Payloads, Added(p), Len(jobs) < MaxJobs PROVE Goal
  <2>1. Len(jobs) + 1 <= MaxJobs BY <1>0, <1>2
  <2> QED BY <1>2, <2>1 DEF Added, JobEdge
\* It is enough to know the edge of the one job that moved.
<1>m. ASSUME NEW j \in JobIds, NEW state, NEW made, NEW lock,
             Moved(j, state, made, lock), JobEdge(j)
      PROVE  Goal
  BY <1>0, <1>m DEF Moved, JobEdge
<1>3. ASSUME NEW s \in Slots, NEW j \in JobIds, Take(s, j) PROVE Goal
  <2>1. Moved(j, "active", jobs[j].attemptsMade, s) BY <1>3, TakeMoves
  <2>2. JobEdge(j) BY <1>3, <2>1 DEF Moved, JobEdge, Take
  <2> QED BY <2>1, <2>2, <1>m
<1>4. ASSUME NEW s \in Slots, Complete(s) PROVE Goal
  <2> DEFINE j == slot[s].job
  <2>1. j \in JobIds /\ Moved(j, "completed", jobs[j].attemptsMade, NoSlot)
    BY <1>4, CompleteMoves
  <2>2. jobs[j].state = "active" BY <1>4, HolderRuns DEF Complete
  <2>3. JobEdge(j) BY <1>4, <2>1, <2>2 DEF Moved, JobEdge
  <2> QED BY <2>1, <2>3, <1>m
<1>5. ASSUME NEW s \in Slots, Fail(s) PROVE Goal
  <2> DEFINE j == slot[s].job
             state == IF ShouldRetry(slot[s].outcome, jobs[j].attemptsMade)
                      THEN "delayed" ELSE "failed"
  <2>1. j \in JobIds /\ Moved(j, state, jobs[j].attemptsMade + 1, NoSlot)
    BY <1>5, FailMoves
  <2>2. jobs[j].state = "active" BY <1>5, HolderRuns DEF Fail
  <2>3. JobEdge(j) BY <1>5, <2>1, <2>2 DEF Moved, JobEdge
  <2> QED BY <2>1, <2>3, <1>m
<1>6. ASSUME NEW s \in Slots, LockExpires(s) PROVE Goal
  <2> DEFINE j == slot[s].job
  <2>1. j \in JobIds /\ Moved(j, jobs[j].state, jobs[j].attemptsMade, NoSlot)
    BY <1>6, LockExpiresMoves
  <2>2. JobEdge(j) BY <2>1 DEF Moved, JobEdge
  <2> QED BY <2>1, <2>2, <1>m
<1>7. ASSUME NEW j \in JobIds, Promote(j) PROVE Goal
  <2>1. Moved(j, "wait", jobs[j].attemptsMade, jobs[j].lock) BY <1>7, PromoteMoves
  <2>2. JobEdge(j) BY <1>7, <2>1 DEF Moved, JobEdge, Promote
  <2> QED BY <2>1, <2>2, <1>m
<1>8. ASSUME NEW j \in JobIds, Stalled(j) PROVE Goal
  <2>1. Moved(j, "wait", jobs[j].attemptsMade, NoSlot) BY <1>8, StalledMoves
  <2>2. JobEdge(j) BY <1>8, <2>1 DEF Moved, JobEdge, Stalled
  <2> QED BY <2>1, <2>2, <1>m
<1>9. CASE Crash
  <2>1. Unlocked BY <1>9, CrashUnlocks
  <2> QED BY <1>0, <2>1 DEF Unlocked, JobEdge
<1>10. Goal
  BY <1>1, <1>2, <1>3, <1>4, <1>5, <1>6, <1>7, <1>8, <1>9, JobsMove
<1> QED BY <1>10 DEF JobEdge

\* Payloads never change, and a settled job stays the way it was settled.
LEMMA JobsKept ==
  ASSUME TypeInv, JobsSound, [Next]_vars, NEW j \in JobIds
  PROVE  /\ j \in JobIds' /\ jobs'[j].payload = jobs[j].payload
         /\ Settled(j) => /\ jobs'[j].state = jobs[j].state
                          /\ jobs'[j].attemptsMade = jobs[j].attemptsMade
<1>1. JobEdge(j) BY JobsStep
<1> QED BY <1>1 DEF JobEdge, Settled

\* Locks stay with running jobs, and an attempt is left to whatever runs again.
LEMMA JobsSoundStep == TypeInv /\ JobsSound /\ [Next]_vars => JobsSound'
<1> SUFFICES ASSUME TypeInv, JobsSound, [Next]_vars, NEW j \in JobIds'
             PROVE  /\ jobs'[j].lock \in Slots => jobs'[j].state = "active"
                    /\ ~Settled(j)' => jobs'[j].attemptsMade < Attempts
  BY DEF JobsSound
<1>1. CASE j \in JobIds
  <2>1. JobEdge(j) BY <1>1, JobsStep
  <2>2. /\ jobs[j].lock \in Slots => jobs[j].state = "active"
        /\ ~Settled(j) => jobs[j].attemptsMade < Attempts
    BY <1>1 DEF JobsSound
  <2>3. \A s \in Slots : jobs'[j].state = "delayed"
                         /\ jobs'[j].state = (IF ShouldRetry(slot[s].outcome, jobs[j].attemptsMade)
                                              THEN "delayed" ELSE "failed")
                         => jobs[j].attemptsMade + 1 < Attempts
    BY DEF ShouldRetry
  <2> QED BY <2>1, <2>2, <2>3, NoSlotAssumption DEF JobEdge, Settled
<1>2. CASE j \notin JobIds
  <2>1. PICK p \in Payloads : jobs'[j] = NewJob(p) BY <1>2, JobsStep
  <2> QED BY <2>1, NoSlotAssumption, AttemptsAssumption DEF NewJob, Settled
<1> QED BY <1>1, <1>2

-------------------------------------------------------------------------------
(* Next, seen from one slot.                                                   *)

\* The steps that touch a slot.
SlotMove(s) ==
  \/ \E j \in JobIds : Take(s, j)
  \/ Process(s) \/ Answer(s) \/ DbError(s)
  \/ Complete(s) \/ Fail(s) \/ LostLock(s)

LEMMA SlotsMove ==
  ASSUME [Next]_vars
  PROVE  UNCHANGED slot \/ Crash \/ \E s \in Slots : SlotMove(s)
BY DEF Next, SlotStep, RedisStep, HandlerStep, Failure, Enqueue, Inject, Seed, Add, SlotMove,
       Land, LockExpires, Promote, Stalled, Create, Park, HandlerError, ReplayAdd,
       ReplayStamp, ReplayAbort, Shutdown, OutageBegins, OutageEnds, vars

\* A slot that takes a job runs it, or fails one that stalled too often; it goes on to
\* ingestEvent, to a failed attempt or to a good one; in the end it is idle again.
SlotEdge(s) ==
  LET f == slot[s]
      g == slot'[s]
  IN  \/ g = f
      \/ g = Idle
      \/ /\ f.pc = "idle" /\ g.job \in JobIds
         /\ g.pc = "run" \/ (g.pc = "settle" /\ g.outcome = "logical")
      \/ /\ f.pc = "run" /\ g.job = f.job /\ g.pc = "ingest"
         /\ Verdict(Job(s).payload) = "ingest"
      \/ /\ f.pc = "run" /\ g.job = f.job /\ g.pc = "settle"
         /\ g.outcome = Verdict(Job(s).payload) /\ g.outcome # "ingest"
      \/ /\ f.pc = "ingest" /\ g.job = f.job /\ g.pc = "settle" /\ g.outcome = "ok"
         /\ InSpine(Job(s).payload)
      \/ /\ f.pc \in {"run", "ingest"} /\ g.job = f.job
         /\ g.pc = "settle" /\ g.outcome = "logical"

LEMMA SlotsStep ==
  ASSUME TypeInv, [Next]_vars
  PROVE  /\ slot' \in [Slots -> Frames \cup {Idle}]
         /\ \A s \in Slots : SlotEdge(s)
         /\ \A s \in Slots : slot'[s].pc = "settle" => slot'[s].outcome # "none"
<1> DEFINE Sound(f) == f.pc = "settle" => f.outcome # "none"
           Goal == /\ slot' \in [Slots -> Frames \cup {Idle}]
                   /\ \A s \in Slots : SlotEdge(s)
                   /\ \A s \in Slots : Sound(slot'[s])
<1>0. /\ slot \in [Slots -> Frames \cup {Idle}]
      /\ \A s \in Slots : Sound(slot[s])
  BY DEF TypeInv
<1>i. Sound(Idle) BY DEF Idle
<1>1. CASE UNCHANGED slot
  BY <1>0, <1>1 DEF SlotEdge
<1>2. CASE Crash
  <2>1. slot' = [s \in Slots |-> Idle] BY <1>2 DEF Crash
  <2> QED BY <2>1, <1>i DEF SlotEdge
\* It is enough that the slot that moved has a sound frame and took an edge.
<1>o. ASSUME NEW s \in Slots, NEW f \in Frames \cup {Idle}, slot' = [slot EXCEPT ![s] = f],
             Sound(f), slot'[s] = f => SlotEdge(s)
      PROVE  Goal
  <2>1. slot'[s] = f /\ \A r \in Slots : r # s => slot'[r] = slot[r]
    BY <1>0, <1>o
  <2>2. slot' \in [Slots -> Frames \cup {Idle}] BY <1>0, <1>o
  <2> HIDE DEF Sound
  <2>3. \A r \in Slots : Sound(slot'[r]) BY <1>0, <1>o, <2>1
  <2>4. \A r \in Slots : SlotEdge(r) BY <1>o, <2>1 DEF SlotEdge
  <2> QED BY <2>2, <2>3, <2>4
<1>3. ASSUME NEW s \in Slots, NEW j \in JobIds, Take(s, j) PROVE Goal
  <2> DEFINE f == IF jobs[j].stalls > MaxStalls
                  THEN [pc |-> "settle", job |-> j, outcome |-> "logical"]
                  ELSE [pc |-> "run", job |-> j, outcome |-> "none"]
  <2>1. f \in Frames /\ Sound(f) /\ f.job = j
    BY DEF Frames
  <2>2. f.pc = "run" \/ (f.pc = "settle" /\ f.outcome = "logical") OBVIOUS
  <2>3. slot[s].pc = "idle" /\ slot' = [slot EXCEPT ![s] = f]
    BY <1>3, IdleSlot DEF Take
  <2> HIDE DEF f, Sound
  <2>4. slot'[s] = f => SlotEdge(s) BY <2>1, <2>2, <2>3 DEF SlotEdge
  <2> QED BY <2>1, <2>3, <2>4, <1>o
<1>4. ASSUME NEW s \in Slots, Process(s) PROVE Goal
  <2>0. slot[s] \in Frames /\ slot[s].pc = "run" BY <1>4, BusySlot DEF Process
  <2> DEFINE v == Verdict(Job(s).payload)
             f == [slot[s] EXCEPT !.pc = "ingest"]
             g == [slot[s] EXCEPT !.pc = "settle", !.outcome = v]
  <2>1. v \in {"transient", "logical", "ingest"}
    BY DEF Verdict, TypeInv
  <2>2. CASE v = "ingest"
    <3>1. f \in Frames /\ f.pc = "ingest" /\ f.job = slot[s].job BY <2>0 DEF Frames
    <3>2. slot' = [slot EXCEPT ![s] = f] BY <1>4, <2>2 DEF Process
    <3> HIDE DEF f
    <3>3. slot'[s] = f => SlotEdge(s) BY <2>0, <2>2, <3>1 DEF SlotEdge
    <3> QED BY <3>1, <3>2, <3>3, <1>o
  <2>3. CASE v # "ingest"
    <3> HIDE DEF v
    <3>1. g \in Frames /\ g.pc = "settle" /\ g.outcome = v /\ g.job = slot[s].job
      BY <2>0, <2>1, <2>3 DEF Frames
    <3>2. slot' = [slot EXCEPT ![s] = g] BY <1>4, <2>3 DEF Process, v
    <3> HIDE DEF g
    <3>3. slot'[s] = g => SlotEdge(s) BY <2>0, <2>3, <3>1 DEF SlotEdge, v
    <3>4. Sound(g) BY <2>1, <3>1
    <3> QED BY <3>1, <3>2, <3>3, <3>4, <1>o
  <2> QED BY <2>2, <2>3
<1>5. ASSUME NEW s \in Slots, Answer(s) PROVE Goal
  <2>0. slot[s] \in Frames /\ slot[s].pc = "ingest" BY <1>5, BusySlot DEF Answer
  <2> DEFINE f == [slot[s] EXCEPT !.pc = "settle", !.outcome = "ok"]
  <2>1. f \in Frames /\ f.pc = "settle" /\ f.outcome = "ok" /\ f.job = slot[s].job
    BY <2>0 DEF Frames
  <2>2. slot' = [slot EXCEPT ![s] = f] BY <1>5 DEF Answer
  <2> HIDE DEF f
  <2>3. slot'[s] = f => SlotEdge(s) BY <1>5, <2>0, <2>1 DEF SlotEdge, Answer, InSpine, InSpineOf
  <2> QED BY <2>1, <2>2, <2>3, <1>o
<1>6. ASSUME NEW s \in Slots, DbError(s) PROVE Goal
  <2>0. slot[s] \in Frames /\ slot[s].pc \in {"run", "ingest"} BY <1>6, BusySlot DEF DbError
  <2> DEFINE f == [slot[s] EXCEPT !.pc = "settle", !.outcome = "logical"]
  <2>1. f \in Frames /\ f.pc = "settle" /\ f.outcome = "logical" /\ f.job = slot[s].job
    BY <2>0 DEF Frames
  <2>2. slot' = [slot EXCEPT ![s] = f] BY <1>6 DEF DbError
  <2> HIDE DEF f
  <2>3. slot'[s] = f => SlotEdge(s) BY <2>0, <2>1 DEF SlotEdge
  <2> QED BY <2>1, <2>2, <2>3, <1>o
<1>7. ASSUME NEW s \in Slots, Complete(s) \/ Fail(s) \/ LostLock(s) PROVE Goal
  <2>1. slot' = [slot EXCEPT ![s] = Idle] BY <1>7 DEF Complete, Fail, LostLock
  <2>2. slot'[s] = Idle => SlotEdge(s) BY DEF SlotEdge
  <2> QED BY <2>1, <2>2, <1>i, <1>o
<1> QED BY <1>1, <1>2, <1>3, <1>4, <1>5, <1>6, <1>7, SlotsMove DEF SlotMove

-------------------------------------------------------------------------------
(* Next, seen from the budget of failures.                                     *)

LEMMA StrikeFalls ==
  ASSUME left \in [Failures -> Nat], NEW kind \in Failures \ {"any"}, Strike(kind)
  PROVE  /\ left' \in [Failures -> Nat]
         /\ \A k \in Failures : left'[k] <= left[k]
         /\ left'[kind] < left[kind]
<1>1. left[kind] > 0 /\ left["any"] > 0 /\ "any" \in Failures
  BY DEF Strike, MayStrike, Failures
<1>2. /\ left[kind] - 1 \in Nat /\ left["any"] - 1 \in Nat
      /\ left[kind] \in Nat /\ left["any"] \in Nat
  BY <1>1
<1>3. left' \in [Failures -> Nat] BY <1>1, <1>2 DEF Strike
<1>4. left'[kind] = left[kind] - 1 /\ left'["any"] = left["any"] - 1
  BY <1>1 DEF Strike
<1>5. \A k \in Failures \ {kind, "any"} : left'[k] = left[k] BY DEF Strike
<1>6. \A k \in Failures : left'[k] <= left[k] BY <1>2, <1>4, <1>5
<1> QED BY <1>2, <1>3, <1>4, <1>6

\* The failures that strike in a step, by kind.
LEMMA StrikesMove ==
  ASSUME [Next]_vars
  PROVE  UNCHANGED left \/ \E kind \in Failures \ {"any"} : Strike(kind)
<1>1. /\ \A s \in Slots : DbError(s) => Strike("db")
      /\ \A s \in Slots : LockExpires(s) => Strike("lock")
      /\ \A h \in handlers : HandlerError(h) => Strike("db")
      /\ \A d \in DocIds : ReplayAbort(d) => Strike("api")
      /\ Crash => Strike("crash")
      /\ Shutdown => Strike("shutdown")
      /\ OutageBegins => Strike("outage")
  BY DEF DbError, LockExpires, HandlerError, ReplayAbort, Crash, Shutdown, OutageBegins
<1>2. UNCHANGED left \/ Failure
  BY DEF Next, SlotStep, RedisStep, HandlerStep, Enqueue, Inject, Seed, Add, Take, Process,
         Land, Answer, Complete, Fail, LostLock, Promote, Stalled, Create, Park,
         ReplayAdd, ReplayStamp, OutageEnds, vars
<1> QED BY <1>1, <1>2 DEF Failure, Failures

\* What has struck has struck.
LEMMA LeftStep ==
  ASSUME TypeInv, [Next]_vars
  PROVE  /\ left' \in [Failures -> Nat]
         /\ \A k \in Failures : left'[k] <= Budget[k]
         /\ \A k \in Failures : Struck(k) => Struck(k)'
         /\ \A k \in Failures \ {"any"} : Strike(k) => Struck(k)'
<1>0. /\ left \in [Failures -> Nat] /\ Budget \in [Failures -> Nat]
      /\ \A k \in Failures : left[k] <= Budget[k]
  BY BudgetAssumption DEF TypeInv
<1>1. left' \in [Failures -> Nat] /\ \A k \in Failures : left'[k] <= left[k]
  BY <1>0, StrikesMove, StrikeFalls
<1>2. \A k \in Failures \ {"any"} : Strike(k) => left'[k] < left[k]
  BY <1>0, StrikeFalls
<1>3. \A k \in Failures : left'[k] \in Nat /\ left[k] \in Nat /\ Budget[k] \in Nat
  BY <1>0, <1>1
<1> QED BY <1>0, <1>1, <1>2, <1>3 DEF Struck

-------------------------------------------------------------------------------
(* Next, seen from the listeners and the dead letters.                         *)

\* The listener that Fail(s) starts, what it writes first, and what is left of it
\* after that.
Started(s) ==
  [pc |-> "create", job |-> slot[s].job, doc |-> 0, outcome |-> slot[s].outcome,
   attemptsMade |-> jobs[slot[s].job].attemptsMade + 1]

Letter(h) ==
  [job |-> h.job, payload |-> jobs[h.job].payload, outcome |-> h.outcome,
   attemptsMade |-> h.attemptsMade, replayed |-> FALSE]

Written(h) == [h EXCEPT !.pc = "park", !.doc = Len(deadLetters) + 1]

Starts(s) ==
  Fail(s) /\ IsTerminal(slot[s].outcome, jobs[slot[s].job].attemptsMade + 1)

LEMMA HandlersMove ==
  ASSUME [Next]_vars
  PROVE  \/ handlers' \subseteq handlers
         \/ \E s \in Slots : Starts(s) /\ handlers' = handlers \cup {Started(s)}
         \/ \E h \in handlers : Create(h) /\ handlers' = (handlers \ {h}) \cup {Written(h)}
<1>1. ASSUME NEW s \in Slots, Fail(s)
      PROVE  \/ handlers' \subseteq handlers
             \/ Starts(s) /\ handlers' = handlers \cup {Started(s)}
  BY <1>1 DEF Fail, Started, Starts
<1>2. ASSUME NEW h \in handlers, Create(h)
      PROVE  handlers' = (handlers \ {h}) \cup {Written(h)}
  BY <1>2 DEF Create, Written
<1>3. \/ handlers' \subseteq handlers
      \/ \E s \in Slots : Fail(s)
      \/ \E h \in handlers : Create(h)
  BY DEF Next, SlotStep, RedisStep, HandlerStep, Failure, Enqueue, Inject, Seed, Add, Take,
         Process, Land, Answer, DbError, Complete, LostLock, Promote, LockExpires, Stalled,
         Park, HandlerError, ReplayAdd, ReplayStamp, ReplayAbort, Crash, Shutdown,
         OutageBegins, OutageEnds, vars
<1> QED BY <1>1, <1>2, <1>3

LEMMA DocsMove ==
  ASSUME [Next]_vars
  PROVE  \/ UNCHANGED deadLetters
         \/ \E h \in handlers : Create(h)
         \/ \E d \in DocIds : ReplayStamp(d)
BY DEF Next, SlotStep, RedisStep, HandlerStep, Failure, Enqueue, Inject, Seed, Add, Take,
       Process, Land, Answer, DbError, Complete, Fail, LostLock, Promote, LockExpires,
       Stalled, Park, HandlerError, ReplayAdd, ReplayAbort, Crash, Shutdown,
       OutageBegins, OutageEnds, vars

\* Dead letters are only added, by a listener, and only their stamp is ever changed.
LEMMA DocsStep ==
  ASSUME TypeInv, [Next]_vars
  PROVE  /\ deadLetters' \in Seq(Docs) /\ DocIds \subseteq DocIds'
         /\ \A d \in DocIds :
              /\ deadLetters'[d].job = deadLetters[d].job
              /\ deadLetters'[d].payload = deadLetters[d].payload
              /\ deadLetters'[d].outcome = deadLetters[d].outcome
              /\ deadLetters'[d].attemptsMade = deadLetters[d].attemptsMade
              /\ deadLetters'[d].replayed => deadLetters[d].replayed \/ d \in replaying
         /\ \A d \in DocIds' \ DocIds :
              d = Len(deadLetters) + 1 /\ \E h \in handlers :
                                            Create(h) /\ deadLetters'[d] = Letter(h)
<1> DEFINE Kept == \A d \in DocIds :
                     /\ deadLetters'[d].job = deadLetters[d].job
                     /\ deadLetters'[d].payload = deadLetters[d].payload
                     /\ deadLetters'[d].outcome = deadLetters[d].outcome
                     /\ deadLetters'[d].attemptsMade = deadLetters[d].attemptsMade
                     /\ deadLetters'[d].replayed => deadLetters[d].replayed \/ d \in replaying
           New == \A d \in DocIds' \ DocIds :
                    d = Len(deadLetters) + 1 /\ \E h \in handlers :
                                                  Create(h) /\ deadLetters'[d] = Letter(h)
           S == Docs
<1>0. /\ deadLetters \in Seq(S) /\ DocIds = 1 .. Len(deadLetters) /\ Len(deadLetters) \in Nat
      /\ \A d \in DocIds : deadLetters[d] \in S
  BY DocTypes DEF TypeInv
<1>1. CASE UNCHANGED deadLetters
  BY <1>0, <1>1 DEF DocIds
<1>2. ASSUME NEW h \in handlers, Create(h)
      PROVE  deadLetters' \in Seq(S) /\ DocIds \subseteq DocIds' /\ Kept /\ New
  <2>1. deadLetters' = Append(deadLetters, Letter(h)) BY <1>2 DEF Create, Letter
  <2>2. Letter(h) \in S
    BY JobTypes DEF TypeInv, Handlers, Letter, Docs, Jobs
  <2> HIDE DEF S
  <2>3. /\ deadLetters' \in Seq(S) /\ Len(deadLetters') = Len(deadLetters) + 1
        /\ \A d \in 1 .. Len(deadLetters) : deadLetters'[d] = deadLetters[d]
        /\ deadLetters'[Len(deadLetters) + 1] = Letter(h)
    BY <1>0, <2>1, <2>2, AppendProperties
  <2>4. DocIds' = 1 .. Len(deadLetters') BY <2>3, LenProperties DEF DocIds
  <2>5. DocIds' = DocIds \cup {Len(deadLetters) + 1} BY <1>0, <2>3, <2>4
  <2>6. Kept BY <1>0, <2>3
  <2> HIDE DEF Kept
  <2>7. New BY <1>2, <2>3, <2>5
  <2> QED BY <2>3, <2>5, <2>6, <2>7
<1>3. ASSUME NEW d \in DocIds, ReplayStamp(d)
      PROVE  deadLetters' \in Seq(S) /\ DocIds \subseteq DocIds' /\ Kept /\ New
  <2> DEFINE doc == [deadLetters[d] EXCEPT !.replayed = TRUE]
  <2>1. doc \in S BY <1>0 DEF Docs
  <2>2. deadLetters' = [deadLetters EXCEPT ![d] = doc] BY <1>3 DEF ReplayStamp
  <2>3. /\ doc.job = deadLetters[d].job /\ doc.payload = deadLetters[d].payload
        /\ doc.outcome = deadLetters[d].outcome
        /\ doc.attemptsMade = deadLetters[d].attemptsMade
    BY <1>0 DEF Docs
  <2> HIDE DEF S, doc
  <2>4. /\ deadLetters' \in Seq(S) /\ Len(deadLetters') = Len(deadLetters)
        /\ \A i \in 1 .. Len(deadLetters) :
             deadLetters'[i] = IF i = d THEN doc ELSE deadLetters[i]
    BY <1>0, <2>1, <2>2, ExceptSeq
  <2>5. DocIds' = DocIds BY <1>0, <2>4, LenProperties DEF DocIds
  <2>6. d \in replaying BY <1>3 DEF ReplayStamp
  <2>7. Kept BY <1>0, <2>3, <2>4, <2>6
  <2> QED BY <2>4, <2>5, <2>7
<1> QED BY <1>1, <1>2, <1>3, DocsMove

\* The outcome of a failed attempt, and the listener it starts.
LEMMA StartedHandler ==
  ASSUME TypeInv, JobsSound, NEW s \in Slots, Starts(s)
  PROVE  LET h == Started(s)
         IN  /\ h \in Handlers /\ h.pc = "create" /\ h.job = slot[s].job
             /\ h.outcome = slot[s].outcome
             /\ h.attemptsMade = jobs[slot[s].job].attemptsMade + 1
<1>1. slot[s] \in Frames /\ slot[s].outcome \in {"transient", "logical"}
  BY BusySlot DEF Starts, Fail, Frames, TypeInv
<1>2. slot[s].job \in JobIds /\ jobs[slot[s].job].attemptsMade + 1 \in 0 .. Attempts
  BY HolderRuns DEF Starts, Fail
<1> QED BY <1>1, <1>2 DEF Started, Handlers

LEMMA WrittenHandler ==
  ASSUME TypeInv, NEW h \in handlers, Create(h)
  PROVE  LET g == Written(h)
         IN  /\ g \in Handlers /\ g.pc = "park" /\ g.job = h.job
             /\ g.doc = Len(deadLetters) + 1
             /\ g.outcome = h.outcome /\ g.attemptsMade = h.attemptsMade
             /\ g.doc \in DocIds' /\ deadLetters'[g.doc] = Letter(h)
<1>0. h \in Handlers BY DEF TypeInv
<1>1. Len(deadLetters) + 1 \in Nat BY DocTypes
<1>2. deadLetters' = Append(deadLetters, Letter(h)) BY DEF Create, Letter
<1>3. Letter(h) \in Docs
  BY <1>0, JobTypes DEF Handlers, Letter, Docs, Jobs
<1>4. Len(deadLetters) + 1 \in DocIds' /\ deadLetters'[Len(deadLetters) + 1] = Letter(h)
  <2> DEFINE S == Docs
  <2>1. deadLetters \in Seq(S) /\ Letter(h) \in S BY <1>3 DEF TypeInv
  <2> HIDE DEF S
  <2>2. /\ deadLetters' \in Seq(S) /\ Len(deadLetters') = Len(deadLetters) + 1
        /\ deadLetters'[Len(deadLetters) + 1] = Letter(h)
    BY <1>2, <2>1, AppendProperties
  <2>3. DocIds' = 1 .. Len(deadLetters') BY <2>2, LenProperties DEF DocIds
  <2> QED BY <1>1, <2>2, <2>3, DocTypes
<1> QED BY <1>0, <1>1, <1>4 DEF Written, Handlers

\* The dead letters that are parked or being replayed exist, and stay.
LEMMA FlagsStep ==
  ASSUME TypeInv, [Next]_vars
  PROVE  /\ parked' \subseteq DocIds' /\ replaying' \subseteq DocIds'
         /\ failMode' \in {"none", "transient"}
<1>1. DocIds \subseteq DocIds' BY DocsStep
<1>2. parked' = parked \/ \E h \in handlers : Park(h)
  BY DEF Next, SlotStep, RedisStep, HandlerStep, Failure, Enqueue, Inject, Seed, Add, Take,
         Process, Land, Answer, DbError, Complete, Fail, LostLock, Promote, LockExpires,
         Stalled, Create, HandlerError, ReplayAdd, ReplayStamp, ReplayAbort, Crash,
         Shutdown, OutageBegins, OutageEnds, vars
<1>3. \A h \in handlers : Park(h) => h.doc \in DocIds /\ parked' = parked \cup {h.doc}
  BY DEF Park, TypeInv
<1>4. parked' \subseteq DocIds' BY <1>1, <1>2, <1>3 DEF TypeInv
<1>5. replaying' \subseteq replaying \/ \E d \in DocIds : replaying' = replaying \cup {d}
  BY DEF Next, SlotStep, RedisStep, HandlerStep, Failure, Enqueue, Inject, Seed, Add, Take,
         Process, Land, Answer, DbError, Complete, Fail, LostLock, Promote, LockExpires,
         Stalled, Create, Park, HandlerError, ReplayAdd, ReplayStamp, ReplayAbort, Crash,
         Shutdown, OutageBegins, OutageEnds, vars
<1>6. replaying' \subseteq DocIds' BY <1>1, <1>5 DEF TypeInv
<1>7. failMode' \in {failMode, "transient", "none"}
  BY DEF Next, SlotStep, RedisStep, HandlerStep, Failure, Enqueue, Inject, Seed, Add, Take,
         Process, Land, Answer, DbError, Complete, Fail, LostLock, Promote, LockExpires,
         Stalled, Create, Park, HandlerError, ReplayAdd, ReplayStamp, ReplayAbort, Crash,
         Shutdown, OutageBegins, OutageEnds, vars
<1> QED BY <1>4, <1>6, <1>7 DEF TypeInv

LEMMA TypeStep == TypeInv /\ JobsSound /\ [Next]_vars => TypeInv'
<1> SUFFICES ASSUME TypeInv, JobsSound, [Next]_vars PROVE TypeInv'
  OBVIOUS
<1>1. jobs' \in Seq(Jobs) /\ Len(jobs') <= MaxJobs /\ JobIds \subseteq JobIds'
  BY JobsStep
<1>2. (slot \in [Slots -> Frames \cup {Idle}])'
  BY <1>1, SlotsStep DEF Frames
<1>3. \A s \in Slots : slot'[s].pc = "settle" => slot'[s].outcome # "none"
  BY SlotsStep
<1>4. Handlers \subseteq Handlers' BY <1>1 DEF Handlers
<1>5. DocIds \subseteq DocIds' BY DocsStep
<1>6. /\ handlers' \subseteq Handlers'
      /\ \A h \in handlers' : h.pc = "park" => h.doc \in DocIds'
  <2>0. /\ handlers \subseteq Handlers
        /\ \A h \in handlers : h.pc = "park" => h.doc \in DocIds
    BY DEF TypeInv
  <2>1. ASSUME NEW h \in handlers'
        PROVE  \/ h \in handlers
               \/ h \in Handlers /\ (h.pc = "park" => h.doc \in DocIds')
    BY HandlersMove, StartedHandler, WrittenHandler
  <2> QED BY <1>4, <1>5, <2>0, <2>1
<1>7. deadLetters' \in Seq(Docs) BY DocsStep
<1>8. \A d \in DocIds' : deadLetters'[d].job \in JobIds'
  <2>1. \A d \in DocIds : deadLetters'[d].job \in JobIds BY DocsStep DEF TypeInv
  <2>2. \A h \in handlers : Letter(h).job \in JobIds BY DEF TypeInv, Letter, Handlers
  <2>3. \A d \in DocIds' \ DocIds : deadLetters'[d].job \in JobIds BY <2>2, DocsStep
  <2> QED BY <1>1, <2>1, <2>3
<1>9. Docs' = Docs /\ Jobs' = Jobs BY DEF Docs, Jobs
<1> QED BY <1>1, <1>2, <1>3, <1>6, <1>7, <1>8, <1>9, FlagsStep, LeftStep DEF TypeInv

-------------------------------------------------------------------------------
(* The dead letters.                                                           *)

\* What BullMQ has said of a job it has given up on stays true.
LEMMA StillGivenUp ==
  ASSUME TypeInv, JobsSound, [Next]_vars, NEW j \in JobIds, NEW outcome, NEW made,
         GivenUp(jobs, j, outcome, made)
  PROVE  GivenUp(jobs', j, outcome, made)
BY JobsKept DEF GivenUp, Settled

\* A listener starts for a job BullMQ has just given up on: it was running, so it
\* had neither a listener nor a dead letter.
LEMMA StartedGivenUp ==
  ASSUME TypeInv, JobsSound, NEW s \in Slots, Starts(s)
  PROVE  LET h == Started(s)
         IN GivenUp(jobs', h.job, h.outcome, h.attemptsMade) /\ jobs[h.job].state = "active"
<1> DEFINE j == slot[s].job
           outcome == slot[s].outcome
           made == jobs[j].attemptsMade
<1>1. /\ Moved(j, IF ShouldRetry(outcome, made) THEN "delayed" ELSE "failed", made + 1, NoSlot)
      /\ j \in JobIds
  BY FailMoves DEF Starts
<1>2. jobs[j].state = "active" /\ made \in Nat /\ made < Attempts
  BY <1>1, HolderRuns, JobTypes DEF Starts, Fail, Jobs
<1>3. outcome \in {"transient", "logical"}
  BY BusySlot DEF Starts, Fail, Frames, TypeInv
<1>4. outcome = "transient" => made + 1 = Attempts /\ ~ShouldRetry(outcome, made)
  BY <1>2, AttemptsAssumption DEF Starts, IsTerminal, ShouldRetry
<1>5. ~ShouldRetry(outcome, made) BY <1>3, <1>4 DEF ShouldRetry
<1>6. jobs'[j].state = "failed" /\ jobs'[j].attemptsMade = made + 1
  BY <1>1, <1>5 DEF Moved
<1> QED BY <1>2, <1>4, <1>6, StartedHandler DEF GivenUp

LEMMA LettersStep == TypeInv /\ JobsSound /\ LettersSound /\ [Next]_vars => LettersSound'
<1> SUFFICES ASSUME TypeInv, JobsSound, LettersSound, [Next]_vars PROVE LettersSound'
  OBVIOUS
<1>0. /\ \A h \in handlers : h \in Handlers /\ h.job \in JobIds
      /\ \A h \in handlers : h.pc = "park" => h.doc \in DocIds
      /\ \A d \in DocIds : deadLetters[d].job \in JobIds
  BY DEF TypeInv, Handlers
\* What was true of the letters and listeners there were.
<1>d. \A d \in DocIds :
        /\ deadLetters'[d].job = deadLetters[d].job
        /\ GivenUp(jobs', deadLetters'[d].job, deadLetters'[d].outcome,
                   deadLetters'[d].attemptsMade)
  BY <1>0, DocsStep, StillGivenUp DEF LettersSound
<1>h. \A h \in handlers : GivenUp(jobs', h.job, h.outcome, h.attemptsMade)
  BY <1>0, StillGivenUp DEF LettersSound
<1>k. DocIds \subseteq DocIds' BY DocsStep
<1>1. CASE handlers' \subseteq handlers /\ DocIds' = DocIds
  BY <1>0, <1>1, <1>d, <1>h DEF LettersSound
<1>2. ASSUME NEW s \in Slots, Starts(s), handlers' = handlers \cup {Started(s)}
      PROVE  LettersSound'
  <2> DEFINE g == Started(s)
  <2>1. g.pc = "create" /\ GivenUp(jobs', g.job, g.outcome, g.attemptsMade)
    BY <1>2, StartedHandler, StartedGivenUp
  <2>2. jobs[g.job].state = "active" BY <1>2, StartedGivenUp
  <2>3. /\ \A h \in handlers : h.job # g.job
        /\ \A d \in DocIds : deadLetters[d].job # g.job
    BY <2>2 DEF LettersSound, GivenUp
  <2>4. DocIds' = DocIds BY <1>2 DEF Starts, Fail, DocIds
  <2> HIDE DEF g
  <2> QED BY <1>0, <1>2, <1>d, <1>h, <2>1, <2>3, <2>4 DEF LettersSound, g
<1>3. ASSUME NEW h \in handlers, Create(h), handlers' = (handlers \ {h}) \cup {Written(h)}
      PROVE  LettersSound'
  <2> DEFINE g == Written(h)
             new == Len(deadLetters) + 1
  <2>1. /\ g.pc = "park" /\ g.job = h.job /\ g.doc = new /\ new \in DocIds'
        /\ g.outcome = h.outcome /\ g.attemptsMade = h.attemptsMade
        /\ deadLetters'[new] = Letter(h)
    BY <1>3, WrittenHandler
  <2>2. /\ deadLetters'[new].job = h.job /\ deadLetters'[new].outcome = h.outcome
        /\ deadLetters'[new].attemptsMade = h.attemptsMade
    BY <2>1 DEF Letter
  <2>3. \A d \in DocIds' : d \in DocIds \/ d = new BY DocsStep
  <2>4. h.pc = "create" BY <1>3 DEF Create
  <2>5. \A d \in DocIds : deadLetters'[d].job # h.job
    BY <2>4, <1>d DEF LettersSound
  <2>6. \A f \in handlers : f.job = h.job => f = h BY DEF LettersSound
  <2>7. \A f \in handlers' : f = g \/ (f \in handlers /\ f.job # h.job)
    BY <1>3, <2>6
  <2> HIDE DEF g, new
  <2>8. /\ \A d \in DocIds' : GivenUp(jobs', deadLetters'[d].job, deadLetters'[d].outcome,
                                      deadLetters'[d].attemptsMade)
        /\ \A d1, d2 \in DocIds' : deadLetters'[d1].job = deadLetters'[d2].job => d1 = d2
    <3>1. GivenUp(jobs', deadLetters'[new].job, deadLetters'[new].outcome,
                  deadLetters'[new].attemptsMade)
      BY <1>h, <2>2
    <3>2. \A d1, d2 \in DocIds : deadLetters'[d1].job = deadLetters'[d2].job => d1 = d2
      BY <1>d DEF LettersSound
    <3> QED BY <1>d, <2>2, <2>3, <2>5, <3>1, <3>2
  <2>9. \A f \in handlers' : GivenUp(jobs', f.job, f.outcome, f.attemptsMade)
    BY <1>h, <2>1, <2>7
  <2>10. \A f \in handlers' : f.pc = "create" => \A d \in DocIds' : deadLetters'[d].job # f.job
    BY <1>d, <2>1, <2>2, <2>3, <2>7 DEF LettersSound
  <2>11. \A f \in handlers' : f.pc = "park" => deadLetters'[f.doc].job = f.job
    BY <1>0, <1>d, <2>1, <2>2, <2>7 DEF LettersSound
  <2>12. \A e, f \in handlers' : e.job = f.job => e = f
    BY <2>1, <2>7 DEF LettersSound
  <2> QED BY <2>8, <2>9, <2>10, <2>11, <2>12 DEF LettersSound
<1>4. DocIds' = DocIds \/ \E h \in handlers : Create(h)
  BY DocsStep, DocsMove
<1>5. ASSUME NEW h \in handlers, Create(h)
      PROVE  handlers' = (handlers \ {h}) \cup {Written(h)}
  BY <1>5 DEF Create, Written
<1> QED BY <1>1, <1>2, <1>3, <1>4, <1>5, HandlersMove

-------------------------------------------------------------------------------
(* The replays.                                                                *)

\* A replay is under way from the add of its job on.
LEMMA ReplaysMove ==
  ASSUME [Next]_vars
  PROVE  \/ replaying' \subseteq replaying
         \/ \E d \in DocIds : ReplayAdd(d) /\ replaying' = replaying \cup {d}
BY DEF Next, SlotStep, RedisStep, HandlerStep, Failure, Enqueue, Inject, Seed, Add, Take,
       Process, Land, Answer, DbError, Complete, Fail, LostLock, Promote, LockExpires,
       Stalled, Create, Park, HandlerError, ReplayAdd, ReplayStamp, ReplayAbort, Crash,
       Shutdown, OutageBegins, OutageEnds, vars

\* The job of a replay has the payload of its dead letter and a later id.
LEMMA ReplayAdds ==
  ASSUME TypeInv, [Next]_vars, NEW d \in DocIds, ReplayAdd(d)
  PROVE  Replayed(d)'
<1>1. deadLetters[d] \in Docs /\ deadLetters[d].job \in JobIds
  BY DocTypes DEF TypeInv
<1>2. Added(deadLetters[d].payload)
  BY <1>1, JobAdded DEF ReplayAdd, Docs
<1>3. JobIds = 1 .. Len(jobs) /\ Len(jobs) \in Nat BY JobTypes
<1>4. Len(jobs) + 1 > deadLetters[d].job BY <1>1, <1>3
<1>5. UNCHANGED deadLetters BY DEF ReplayAdd
<1>6. jobs'[Len(jobs) + 1].payload = deadLetters[d].payload
  BY <1>2 DEF Added, NewJob
<1> QED BY <1>2, <1>4, <1>5, <1>6 DEF Added, Replayed

LEMMA ReplaysStep == TypeInv /\ JobsSound /\ ReplaysSound /\ [Next]_vars => ReplaysSound'
<1> SUFFICES ASSUME TypeInv, JobsSound, ReplaysSound, [Next]_vars, NEW d \in DocIds',
                    deadLetters'[d].replayed \/ d \in replaying'
             PROVE  Replayed(d)'
  BY DEF ReplaysSound
<1>1. d \in DocIds
  <2>1. replaying' \subseteq DocIds BY ReplaysMove DEF TypeInv
  <2>2. \A h \in handlers : ~Letter(h).replayed BY DEF Letter
  <2> QED BY <2>1, <2>2, DocsStep
<1>2. CASE Replayed(d)
  BY <1>1, <1>2, JobsKept, DocsStep DEF Replayed
<1>3. CASE ~Replayed(d)
  <2>1. ~deadLetters[d].replayed /\ d \notin replaying BY <1>1, <1>3 DEF ReplaysSound
  <2>2. d \in replaying' BY <1>1, <2>1, DocsStep
  <2>3. ReplayAdd(d) BY <2>1, <2>2, ReplaysMove
  <2> QED BY <1>1, <2>3, ReplayAdds
<1> QED BY <1>2, <1>3

-------------------------------------------------------------------------------
(* What is dropped.                                                            *)

\* A listener that has not written its dead letter ends by writing it, or a failure
\* strikes.
LEMMA ListenerEnds ==
  ASSUME [Next]_vars, NEW h \in handlers, h.pc = "create", h \notin handlers'
  PROVE  Create(h) \/ Strike("crash") \/ Strike("shutdown") \/ Strike("db")
<1>1. \/ handlers \subseteq handlers'
      \/ \E g \in handlers : (Create(g) \/ Park(g) \/ HandlerError(g)) /\ g = h
      \/ Crash \/ Shutdown
  <2>1. \A g \in handlers : Create(g) \/ Park(g) \/ HandlerError(g) => handlers \ {g} \subseteq handlers'
    BY DEF Create, Park, HandlerError
  <2>2. \A s \in Slots : Fail(s) => handlers \subseteq handlers' BY DEF Fail
  <2>3. \/ handlers' = handlers
        \/ \E s \in Slots : Fail(s)
        \/ \E g \in handlers : Create(g) \/ Park(g) \/ HandlerError(g)
        \/ Crash \/ Shutdown
    BY DEF Next, SlotStep, RedisStep, HandlerStep, Failure, Enqueue, Inject, Seed, Add, Take,
           Process, Land, Answer, DbError, Complete, LostLock, Promote, LockExpires, Stalled,
           ReplayAdd, ReplayStamp, ReplayAbort, OutageBegins, OutageEnds, vars
  <2> QED BY <2>1, <2>2, <2>3
<1> QED BY <1>1 DEF Park, HandlerError, Crash, Shutdown

\* A job that BullMQ gives up on starts a listener: what is not retried is terminal.
LEMMA GivingUpStarts ==
  ASSUME TypeInv, JobsSound, NEW s \in Slots, Fail(s),
         ~ShouldRetry(slot[s].outcome, jobs[slot[s].job].attemptsMade)
  PROVE  Started(s) \in handlers'
<1> DEFINE made == jobs[slot[s].job].attemptsMade
<1>1. slot[s].outcome \in {"transient", "logical"}
  BY BusySlot DEF Fail, Frames, TypeInv
<1>2. made \in Nat BY HolderRuns, JobTypes DEF Fail, Jobs
<1>3. IsTerminal(slot[s].outcome, made + 1)
  BY <1>1, <1>2, AttemptsAssumption DEF IsTerminal, ShouldRetry
<1> QED BY <1>3 DEF Fail, Started

LEMMA DropStep ==
  TypeInv /\ JobsSound /\ DropNeedsFault /\ [Next]_vars => DropNeedsFault'
<1> SUFFICES ASSUME TypeInv, JobsSound, DropNeedsFault, [Next]_vars,
                    ~Struck("crash")', ~Struck("shutdown")', ~Struck("db")'
             PROVE  NoSilentDrop'
  BY DEF DropNeedsFault
<1>1. /\ ~Strike("crash") /\ ~Strike("shutdown") /\ ~Strike("db")
      /\ NoSilentDrop
  BY LeftStep DEF DropNeedsFault, Failures
<1> SUFFICES ASSUME NEW j \in JobIds', jobs'[j].state = "failed"
             PROVE  \/ \E d \in DocIds' : deadLetters'[d].job = j
                    \/ \E h \in handlers' : h.job = j /\ h.pc = "create"
  BY DEF NoSilentDrop
<1>2. j \in JobIds
  <2>1. \A p \in Payloads : NewJob(p).state = "wait" BY DEF NewJob
  <2> QED BY <2>1, JobsStep
<1>3. CASE jobs[j].state = "failed"
  <2>1. \/ \E d \in DocIds : deadLetters[d].job = j
        \/ \E h \in handlers : h.job = j /\ h.pc = "create"
    BY <1>1, <1>2, <1>3 DEF NoSilentDrop
  <2>2. ASSUME NEW h \in handlers, h.job = j, h.pc = "create", h \notin handlers'
        PROVE  \E d \in DocIds' : deadLetters'[d].job = j
    <3>1. Create(h) BY <1>1, <2>2, ListenerEnds
    <3>2. Written(h).doc \in DocIds' /\ deadLetters'[Written(h).doc] = Letter(h)
      BY <3>1, WrittenHandler
    <3>3. Letter(h).job = j BY <2>2 DEF Letter
    <3> QED BY <3>2, <3>3
  <2> QED BY <2>1, <2>2, DocsStep
<1>4. CASE jobs[j].state # "failed"
  <2>1. JobEdge(j) BY <1>2, JobsStep
  <2>2. PICK s \in Slots : /\ Fail(s) /\ slot[s].job = j
                           /\ ~ShouldRetry(slot[s].outcome, jobs[j].attemptsMade)
    BY <1>4, <2>1 DEF JobEdge
  <2>3. Started(s) \in handlers' BY <2>2, GivingUpStarts
  <2> QED BY <2>2, <2>3 DEF Started
<1> QED BY <1>3, <1>4

-------------------------------------------------------------------------------
(* The answers.                                                                *)

\* Rows are only added to the spine, so an input that is represented stays so.
LEMMA SpineGrows ==
  ASSUME [Next]_vars
  PROVE  \A p : InSpineOf(spine, p) => InSpineOf(spine', p)
<1>1. spine \subseteq spine'
  BY DEF Next, SlotStep, RedisStep, HandlerStep, Failure, Enqueue, Inject, Seed, Add, Take,
         Process, Land, Answer, DbError, Complete, Fail, LostLock, Promote, LockExpires,
         Stalled, Create, Park, HandlerError, ReplayAdd, ReplayStamp, ReplayAbort, Crash,
         Shutdown, OutageBegins, OutageEnds, vars
<1> QED BY <1>1 DEF InSpineOf, Spine!Represented

\* The job of a slot at work is the one it took.
LEMMA SameJob ==
  ASSUME TypeInv, JobsSound, [Next]_vars, NEW s \in Slots, slot[s].pc # "idle",
         slot'[s].job = slot[s].job
  PROVE  jobs'[slot'[s].job].payload = Job(s).payload
BY BusySlot, JobsKept DEF Job

LEMMA AnswersStep == TypeInv /\ JobsSound /\ AnswersSound /\ [Next]_vars => AnswersSound'
<1> SUFFICES ASSUME TypeInv, JobsSound, AnswersSound, [Next]_vars, NEW s \in Slots,
                    slot'[s].pc = "settle", slot'[s].outcome = "ok"
             PROVE  InSpineOf(spine', jobs'[slot'[s].job].payload)
  BY DEF AnswersSound, InSpine, InSpineOf, Job
<1>1. /\ slot[s].pc # "idle" /\ slot'[s].job = slot[s].job
      /\ InSpine(Job(s).payload)
  <2>1. SlotEdge(s) BY SlotsStep
  <2>2. Verdict(Job(s).payload) # "ok" BY DEF Verdict, TypeInv
  <2>3. Idle.pc = "idle" BY IdleSlot
  <2> QED BY <2>1, <2>2, <2>3 DEF SlotEdge, AnswersSound
<1>2. jobs'[slot'[s].job].payload = Job(s).payload BY <1>1, SameJob
<1> QED BY <1>1, <1>2, SpineGrows DEF InSpine

\* A job is completed by a slot whose attempt was answered.
LEMMA CompletedStep ==
  TypeInv /\ JobsSound /\ AnswersSound /\ CompletedRepresented /\ [Next]_vars
    => CompletedRepresented'
<1> SUFFICES ASSUME TypeInv, JobsSound, AnswersSound, CompletedRepresented, [Next]_vars,
                    NEW j \in JobIds', jobs'[j].state = "completed"
             PROVE  InSpineOf(spine', jobs'[j].payload)
  BY DEF CompletedRepresented, InSpineOf
<1>1. j \in JobIds
  <2>1. \A p \in Payloads : NewJob(p).state = "wait" BY DEF NewJob
  <2> QED BY <2>1, JobsStep
<1>2. InSpine(jobs[j].payload)
  <2>1. CASE jobs[j].state = "completed"
    BY <1>1, <2>1 DEF CompletedRepresented, InSpine, InSpineOf
  <2>2. CASE jobs[j].state # "completed"
    <3>1. JobEdge(j) BY <1>1, JobsStep
    <3>2. PICK s \in Slots : Complete(s) /\ slot[s].job = j
      BY <2>2, <3>1 DEF JobEdge
    <3> QED BY <3>2 DEF AnswersSound, Complete, Job
  <2> QED BY <2>1, <2>2
<1>3. jobs'[j].payload = jobs[j].payload BY <1>1, JobsKept
<1> QED BY <1>2, <1>3, SpineGrows DEF InSpine

-------------------------------------------------------------------------------
(* Malformed payloads.                                                         *)

LEMMA MalformedStep ==
  TypeInv /\ JobsSound /\ MalformedSound /\ [Next]_vars => MalformedSound'
<1> SUFFICES ASSUME TypeInv, JobsSound, MalformedSound, [Next]_vars, ~Struck("outage")'
             PROVE  MalformedSound'
  BY DEF MalformedSound
<1>0. ~Strike("outage") /\ ~Struck("outage") BY LeftStep DEF Failures
<1>a. /\ failMode = "none"
      /\ \A s \in Slots :
           slot[s].pc # "idle" /\ Malformed(Job(s).payload) =>
             \/ slot[s].pc = "run"
             \/ slot[s].pc = "settle" /\ slot[s].outcome = "logical"
      /\ \A j \in JobIds :
           Malformed(jobs[j].payload) =>
             /\ jobs[j].state # "delayed"
             /\ ~Settled(j) => jobs[j].attemptsMade = 0
             /\ jobs[j].attemptsMade <= 1
  BY <1>0 DEF MalformedSound
<1>1. failMode' = "none"
  BY <1>0, <1>a DEF Next, SlotStep, RedisStep, HandlerStep, Failure, Enqueue, Inject, Seed,
       Add, Take, Process, Land, Answer, DbError, Complete, Fail, LostLock, Promote,
       LockExpires, Stalled, Create, Park, HandlerError, ReplayAdd, ReplayStamp,
       ReplayAbort, Crash, Shutdown, OutageBegins, OutageEnds, vars
\* Without an outage the checks say "logical" of a malformed payload.
<1>v. \A p : Malformed(p) => Verdict(p) = "logical"
  BY <1>a DEF Malformed, Verdict
<1>2. ASSUME NEW s \in Slots, slot'[s].pc # "idle", Malformed(jobs'[slot'[s].job].payload)
      PROVE  slot'[s].pc = "run" \/ (slot'[s].pc = "settle" /\ slot'[s].outcome = "logical")
  <2>1. SlotEdge(s) BY SlotsStep
  <2>2. CASE slot[s].pc = "idle"
    <3>1. slot[s] = Idle BY <2>2, IdleSlot
    <3> QED BY <1>2, <2>1, <2>2, <3>1, IdleSlot DEF SlotEdge
  <2>3. CASE slot[s].pc # "idle"
    <3>1. slot'[s].job = slot[s].job BY <1>2, <2>1, <2>3, IdleSlot DEF SlotEdge
    <3>2. Malformed(Job(s).payload) BY <1>2, <2>3, <3>1, SameJob
    <3>3. Verdict(Job(s).payload) = "logical" BY <3>2, <1>v
    <3>4. \/ slot[s].pc = "run"
          \/ slot[s].pc = "settle" /\ slot[s].outcome = "logical"
      BY <2>3, <3>2, <1>a
    <3> QED BY <1>2, <2>1, <2>3, <3>3, <3>4, IdleSlot DEF SlotEdge
  <2> QED BY <2>2, <2>3
<1>3. ASSUME NEW j \in JobIds', Malformed(jobs'[j].payload)
      PROVE  /\ jobs'[j].state # "delayed"
             /\ ~Settled(j)' => jobs'[j].attemptsMade = 0
             /\ jobs'[j].attemptsMade <= 1
  <2>1. CASE j \notin JobIds
    <3>1. PICK p \in Payloads : jobs'[j] = NewJob(p) BY <2>1, JobsStep
    <3> QED BY <3>1 DEF NewJob
  <2>2. CASE j \in JobIds
    <3>1. JobEdge(j) BY <2>2, JobsStep
    <3>2. Malformed(jobs[j].payload) BY <1>3, <3>1 DEF JobEdge
    <3>3. /\ jobs[j].state # "delayed"
          /\ ~Settled(j) => jobs[j].attemptsMade = 0
          /\ jobs[j].attemptsMade <= 1
      BY <2>2, <3>2, <1>a
    <3>4. ASSUME NEW s \in Slots, slot[s].job = j, Complete(s) \/ Fail(s)
          PROVE  Fail(s) /\ ~ShouldRetry(slot[s].outcome, jobs[j].attemptsMade)
      <4>1. slot[s].pc = "settle" /\ Malformed(Job(s).payload)
        BY <3>2, <3>4 DEF Complete, Fail, Job
      <4>2. slot[s].outcome = "logical" BY <4>1, <1>a
      <4> QED BY <3>4, <4>2 DEF Complete, ShouldRetry
    <3>5. CASE \E s \in Slots : (Complete(s) \/ Fail(s)) /\ slot[s].job = j
      <4>1. PICK s \in Slots : /\ Fail(s) /\ slot[s].job = j
                               /\ ~ShouldRetry(slot[s].outcome, jobs[j].attemptsMade)
        BY <3>4, <3>5
      <4>2. Moved(j, "failed", jobs[j].attemptsMade + 1, NoSlot) BY <4>1, FailMoves
      <4>3. jobs[j].state = "active" BY <4>1, HolderRuns DEF Fail
      <4> QED BY <3>3, <4>2, <4>3 DEF Moved, Settled
    <3>6. CASE ~\E s \in Slots : (Complete(s) \/ Fail(s)) /\ slot[s].job = j
      BY <3>1, <3>3, <3>6 DEF JobEdge, Settled
    <3> QED BY <3>5, <3>6
  <2> QED BY <2>1, <2>2
<1> QED BY <1>1, <1>2, <1>3 DEF MalformedSound, Job, Settled

-------------------------------------------------------------------------------
(* The theorems.                                                               *)

LEMMA InitIInv == Init => IInv
<1> SUFFICES ASSUME Init PROVE IInv
  OBVIOUS
<1>1. jobs = <<>> /\ deadLetters = <<>> /\ handlers = {} /\ parked = {} /\ replaying = {}
  BY DEF Init
<1>2. JobIds = {} /\ DocIds = {} BY <1>1 DEF JobIds, DocIds
<1>3. jobs \in Seq(Jobs) /\ Len(jobs) = 0 /\ deadLetters \in Seq(Docs)
  BY <1>1, EmptySeq
<1>4. slot = [s \in Slots |-> Idle] /\ failMode = "none" /\ left = Budget
  BY DEF Init
<1>5. Idle.pc = "idle" BY DEF Idle
<1>6. \A k \in Failures : left[k] <= Budget[k] BY <1>4, BudgetAssumption
<1>7. TypeInv
  BY <1>1, <1>2, <1>3, <1>4, <1>5, <1>6, BudgetAssumption, MaxJobsAssumption DEF TypeInv
<1>8. JobsSound /\ LettersSound /\ ReplaysSound /\ CompletedRepresented
  BY <1>1, <1>2 DEF JobsSound, LettersSound, ReplaysSound, CompletedRepresented
<1>9. AnswersSound /\ MalformedSound /\ DropNeedsFault
  BY <1>2, <1>4, <1>5 DEF AnswersSound, MalformedSound, DropNeedsFault, NoSilentDrop
<1> QED BY <1>7, <1>8, <1>9 DEF IInv

LEMMA IInvStep == IInv /\ [Next]_vars => IInv'
BY TypeStep, JobsSoundStep, LettersStep, ReplaysStep, DropStep, AnswersStep,
   CompletedStep, MalformedStep DEF IInv

\* IInv is inductive, so every reachable state satisfies it.
THEOREM Inductive == Spec => []IInv
BY InitIInv, IInvStep, PTL DEF Spec

\* Type correctness; a job is never attempted more often than configured, however
\* often it is lost and taken over.
THEOREM TypeCorrect == Spec => []TypeOK
<1>1. IInv => TypeOK
  <2> SUFFICES ASSUME TypeInv PROVE TypeOK
    BY DEF IInv
  <2>1. JobIds = 1 .. Len(jobs) /\ Len(jobs) \in Nat BY JobTypes
  <2> DEFINE T == [pc : {"idle", "run", "ingest", "settle"}, job : 0 .. Len(jobs),
                   outcome : {"none", "ok", "transient", "logical"}]
  <2>2. Frames \cup {Idle} \subseteq T BY <2>1 DEF Frames, Idle
  <2> HIDE DEF T
  <2>3. slot \in [Slots -> T] BY <2>2 DEF TypeInv
  <2>4. \A h \in handlers : h.pc \in {"create", "park"} /\ h.job \in JobIds
    BY DEF TypeInv, Handlers
  <2> QED BY <2>3, <2>4 DEF TypeInv, TypeOK, T
<1> QED BY <1>1, Inductive, PTL

\* Whatever is lost and whoever takes it over, a completed job has its record in
\* the spine.
THEOREM CompletedIsRepresented == Spec => []CompletedRepresented
BY Inductive, PTL DEF IInv

\* One dead letter at most for a job, and only for one that BullMQ has given up on.
THEOREM DeadLettersAreSound == Spec => []DeadLettersSound
<1>1. IInv => DeadLettersSound
  BY DEF IInv, LettersSound, GivenUp, DeadLettersSound
<1> QED BY <1>1, Inductive, PTL

\* The stamp replayedAt is on dead letters whose payload was enqueued again.
THEOREM StampsAreTrue == Spec => []StampedWasReplayed
<1>1. IInv => StampedWasReplayed
  BY DEF IInv, ReplaysSound, Replayed, StampedWasReplayed
<1> QED BY <1>1, Inductive, PTL

\* Nothing is dropped unless the process ends or a write to the database fails.
THEOREM DropsNeedFaults == Spec => []DropNeedsFault
BY Inductive, PTL DEF IInv

\* Without an outage a malformed payload is tried once.
THEOREM MalformedFailsAtOnce == Spec => []LogicalFailsAtOnce
<1>1. IInv => LogicalFailsAtOnce
  BY DEF IInv, MalformedSound, Malformed, LogicalFailsAtOnce
<1> QED BY <1>1, Inductive, PTL

\* No step, of a slot that has lost its job included, changes how a job was settled.
THEOREM SettledForGood == Spec => SettledOnce
<1>1. IInv /\ [Next]_vars =>
        [\A j \in JobIds :
           jobs[j].state \in {"completed", "failed"} => jobs'[j].state = jobs[j].state]_jobs
  BY JobsKept DEF IInv, Settled
<1> QED BY <1>1, Inductive, PTL DEF Spec, SettledOnce

\* The inputs that completed jobs stand for.
AckedInputs ==
  {[tenant |-> jobs[j].payload.tenant, ev |-> jobs[j].payload.ev]
    : j \in {i \in DOMAIN jobs : jobs[i].state = "completed"}}

\* The queue implements the spine: ingestEvent's landing (or the one of the script that
\* seeds a duplicate) is Land, the completion of a job is Ack, and every other step
\* changes neither.
THEOREM Refinement == Spec => ImplementsSpine
<1>1. Init => Spine!Init
  BY DEF Init, Spine!Init
<1>2. IInv /\ [Next]_vars => [Spine!Next]_(Spine!vars)
  <2> SUFFICES ASSUME IInv, [Next]_vars PROVE [Spine!Next]_(Spine!vars)
    OBVIOUS
  <2>0. TypeInv /\ JobsSound /\ AnswersSound BY DEF IInv
  <2>j. \A s \in Slots : slot[s].pc # "idle" =>
          slot[s].job \in JobIds /\ Job(s).payload \in Payloads
    BY <2>0, BusySlot, JobTypes DEF Job, Jobs
  \* The inputs acknowledged are those of the jobs that are completed.
  <2>a. (\A s \in Slots : ~Complete(s)) => AckedInputs' = AckedInputs
    <3> SUFFICES ASSUME \A s \in Slots : ~Complete(s) PROVE AckedInputs' = AckedInputs
      OBVIOUS
    <3>1. \A j \in JobIds : /\ jobs'[j].payload = jobs[j].payload
                            /\ jobs'[j].state = "completed" <=> jobs[j].state = "completed"
      <4>1. \A j \in JobIds : JobEdge(j) BY <2>0, JobsStep
      <4> QED BY <4>1 DEF JobEdge
    <3>2. \A j \in JobIds' \ JobIds : jobs'[j].state # "completed"
      <4>1. \A p \in Payloads : NewJob(p).state = "wait" BY DEF NewJob
      <4> QED BY <2>0, <4>1, JobsStep
    <3>3. JobIds \subseteq JobIds' BY <2>0, JobsStep
    <3> QED BY <3>1, <3>2, <3>3 DEF AckedInputs, JobIds
  <2>1. ASSUME NEW p \in Payloads, \A row \in spine : ~Spine!SameVersion(row, p.tenant, p.ev),
               spine' = spine \cup {Spine!Row(p.tenant, p.ev)}, UNCHANGED jobs
        PROVE  Spine!Next
    <3>1. Spine!Land(p.tenant, p.ev) BY <2>1 DEF Spine!Land
    <3> QED BY <3>1 DEF Spine!Next
  <2>2. ASSUME NEW p \in Payloads, Seed(p) PROVE Spine!Next
    BY <2>1, <2>2 DEF Seed
  <2>3. ASSUME NEW s \in Slots, Land(s) PROVE Spine!Next
    BY <2>1, <2>3, <2>j DEF Land
  <2>4. ASSUME NEW s \in Slots, Complete(s) PROVE Spine!Next
    <3> DEFINE j == slot[s].job
    <3>1. j \in JobIds /\ Moved(j, "completed", jobs[j].attemptsMade, NoSlot)
      BY <2>0, <2>4, CompleteMoves
    <3>2. PICK p \in Payloads : p = jobs[j].payload BY <2>j, <2>4 DEF Complete, Job
    <3>3. Spine!Represented(spine, p.tenant, p.ev)
      BY <2>0, <2>4, <3>2 DEF AnswersSound, InSpine, InSpineOf, Complete, Job
    <3>4. jobs[j].state = "active" BY <2>0, <2>4, HolderRuns DEF Complete
    <3>5. AckedInputs' = AckedInputs \cup {[tenant |-> p.tenant, ev |-> p.ev]}
      <4>1. JobIds' = JobIds /\ \A i \in JobIds : i # j => jobs'[i] = jobs[i]
        BY <3>1 DEF Moved
      <4>2. jobs'[j].payload = p /\ jobs'[j].state = "completed" BY <3>1, <3>2 DEF Moved
      <4> HIDE DEF j
      <4> QED BY <3>1, <3>2, <3>4, <4>1, <4>2 DEF AckedInputs, JobIds
    <3>6. UNCHANGED spine BY <2>4 DEF Complete
    <3>7. Spine!Ack(p.tenant, p.ev) BY <3>3, <3>5, <3>6 DEF Spine!Ack, AckedInputs
    <3> QED BY <3>7 DEF Spine!Next
  <2>5. CASE /\ \A p \in Payloads : ~Seed(p)
             /\ \A s \in Slots : ~Land(s) /\ ~Complete(s)
    <3>1. UNCHANGED spine
      BY <2>5 DEF Next, SlotStep, RedisStep, HandlerStep, Failure, Enqueue, Inject, Add, Take,
         Process, Answer, DbError, Fail, LostLock, Promote, LockExpires, Stalled, Create, Park,
         HandlerError, ReplayAdd, ReplayStamp, ReplayAbort, Crash, Shutdown, OutageBegins,
         OutageEnds, vars
    <3>2. AckedInputs' = AckedInputs BY <2>a, <2>5
    <3> QED BY <3>1, <3>2 DEF Spine!vars, AckedInputs
  <2> QED BY <2>2, <2>3, <2>4, <2>5
<1> QED BY <1>1, <1>2, Inductive, PTL DEF Spec, ImplementsSpine, Spine!Spec

-------------------------------------------------------------------------------
(* What a module around the queue relies on.                                   *)

\* Every dead letter is of a job of its own.
LEMMA LettersBounded ==
  ASSUME TypeInv, LettersSound
  PROVE  Len(deadLetters) \in Nat /\ Len(deadLetters) <= MaxJobs
<1> DEFINE f == [d \in DocIds |-> deadLetters[d].job]
<1>0. /\ DocIds = 1 .. Len(deadLetters) /\ Len(deadLetters) \in Nat
      /\ JobIds = 1 .. Len(jobs) /\ Len(jobs) \in Nat /\ Len(jobs) <= MaxJobs
  BY JobTypes, DocTypes DEF TypeInv
<1>1. f \in [DocIds -> JobIds] BY DEF TypeInv
<1>2. \A d1, d2 \in DocIds : f[d1] = f[d2] => d1 = d2 BY DEF LettersSound
<1> HIDE DEF f
<1>3. f \in Injection(DocIds, JobIds)
  BY <1>1, <1>2 DEF Injection, IsInjective
<1>4. ASSUME NEW n \in Nat PROVE IsFiniteSet(1 .. n) /\ Cardinality(1 .. n) = n
  <2>1. 1 \in Int /\ n \in Int OBVIOUS
  <2>2. IsFiniteSet(1 .. n) /\ Cardinality(1 .. n) = IF 1 > n THEN 0 ELSE n - 1 + 1
    BY <2>1, FS_Interval
  <2> QED BY <2>2
<1>5. Cardinality(DocIds) <= Cardinality(JobIds) BY <1>0, <1>3, <1>4, FS_Injection
<1> QED BY <1>0, <1>4, <1>5, MaxJobsAssumption

\* Rows are only added to the spine, of the payloads there are.
LEMMA SpineMoves ==
  ASSUME TypeInv, [Next]_vars
  PROVE  /\ spine \subseteq spine'
         /\ \A row \in spine' \ spine : \E p \in Payloads : row = Spine!Row(p.tenant, p.ev)
<1>1. \/ spine' = spine
      \/ \E p \in Payloads : Seed(p)
      \/ \E s \in Slots : Land(s)
  BY DEF Next, SlotStep, RedisStep, HandlerStep, Failure, Enqueue, Inject, Add, Take,
         Process, Answer, DbError, Complete, Fail, LostLock, Promote, LockExpires,
         Stalled, Create, Park, HandlerError, ReplayAdd, ReplayStamp, ReplayAbort, Crash,
         Shutdown, OutageBegins, OutageEnds, vars
<1>2. ASSUME NEW s \in Slots, Land(s)
      PROVE  \E p \in Payloads : spine' = spine \cup {Spine!Row(p.tenant, p.ev)}
  <2>1. Job(s).payload \in Payloads
    <3>1. slot[s].job \in JobIds BY <1>2, BusySlot DEF Land
    <3> QED BY <3>1, JobTypes DEF Job, Jobs
  <2> QED BY <1>2, <2>1 DEF Land
<1> QED BY <1>1, <1>2 DEF Seed

\* A letter that was stamped stays so.
LEMMA StampsStay ==
  ASSUME TypeInv, [Next]_vars, NEW d \in DocIds, deadLetters[d].replayed
  PROVE  deadLetters'[d].replayed
<1> DEFINE S == Docs
<1>0. /\ deadLetters \in Seq(S) /\ DocIds = 1 .. Len(deadLetters) /\ Len(deadLetters) \in Nat
      /\ \A e \in DocIds : deadLetters[e] \in S
  BY DocTypes DEF TypeInv
<1>1. ASSUME NEW h \in handlers, Create(h) PROVE deadLetters'[d] = deadLetters[d]
  <2>1. deadLetters' = Append(deadLetters, Letter(h)) BY <1>1 DEF Create, Letter
  <2>2. h \in Handlers /\ jobs[h.job] \in Jobs BY JobTypes DEF TypeInv, Handlers
  <2>3. Letter(h) \in S BY <2>2, JobTypes DEF Handlers, Letter, Docs, Jobs
  <2> HIDE DEF S
  <2> QED BY <1>0, <2>3, <2>1, <2>2, AppendProperties
<1>2. ASSUME NEW e \in DocIds, ReplayStamp(e) PROVE deadLetters'[d].replayed
  <2> DEFINE doc == [deadLetters[e] EXCEPT !.replayed = TRUE]
  <2>1. doc \in S /\ doc.replayed BY <1>0 DEF Docs
  <2>2. deadLetters' = [deadLetters EXCEPT ![e] = doc] BY <1>2 DEF ReplayStamp
  <2> HIDE DEF S, doc
  <2>3. deadLetters'[d] = IF d = e THEN doc ELSE deadLetters[d]
    BY <1>0, <2>1, <2>2, ExceptSeq
  <2> QED BY <2>1, <2>3
<1> QED BY <1>1, <1>2, DocsMove

===============================================================================
