------------------------------- MODULE Reconcile ------------------------------
(* The reconciliation poller for one (tenant, connection, model): the queue's   *)
(* job with its deterministic jobId, the worker slots that may run it, and the  *)
(* durable cursor in sync_state (reconcileSweep.ts, reconcileWorker.ts,         *)
(* reconcileProcessor.ts).                                                      *)
(*                                                                              *)
(*   Trigger -> Take -> Load -> Fetch -> LandRaw -> AddIngest -> Checkpoint     *)
(*                                ^                                  |          *)
(*                                +------------- next page ----------+-> Settle *)
(*                                                                              *)
(* Keys do not share a cursor, a job or records, so one key stands for all.     *)
(* External: Nango's records API (RecordsApi) and BullMQ.                       *)
EXTENDS RecordsApi

CONSTANTS
  Slots,        \* the worker's concurrency slots
  Attempts,     \* reconcileJobOptions.attempts (5 in the code)
  MaxStalls,    \* BullMQ's maxStalledCount (1 by default)
  Budget,       \* bound: how often each kind of failure, and any, may strike
  NoSlot        \* "nobody" as the holder of the job's lock

\* "any": all of them together.
Failures == {"throw", "crash", "lock", "any"}

ASSUME AttemptsAssumption == Attempts \in Nat \ {0}
ASSUME BudgetAssumption == Budget \in [Failures -> Nat]
ASSUME NoSlotAssumption == NoSlot \notin Slots

VARIABLES
  cursor,       \* sync_state.cursor, 0 for none
  raw,          \* raw[r]: the version of r in raw_records, 0 for none
  enqueued,     \* the [rec, ver] for which an ingest job was added
  job,          \* the reconcile job of this jobId
  run,          \* run[s]: the processor's frame in slot s
  left          \* failures that may still strike

vars == <<source, clock, cursor, raw, enqueued, job, run, left>>

NoJob == [state |-> "none", attemptsMade |-> 0, stalls |-> 0, lock |-> NoSlot]

Idle == [pc |-> "idle", cursor |-> 0, pageCursor |-> 0, page |-> {}, todo |-> {},
         last |-> 0, tokens |-> TRUE, next |-> 0]

Strike(kind) ==
  /\ left[kind] > 0 /\ left["any"] > 0
  /\ left' = [left EXCEPT ![kind] = @ - 1, !["any"] = @ - 1]

-------------------------------------------------------------------------------

Init ==
  /\ SourceInit
  /\ cursor = 0
  /\ raw = [r \in Records |-> 0]
  /\ enqueued = {}
  /\ job = NoJob
  /\ run = [s \in Slots |-> Idle]
  /\ left = Budget

Change(r) ==
  /\ SourceChange(r)
  /\ UNCHANGED <<cursor, raw, enqueued, job, run, left>>

-------------------------------------------------------------------------------
(* The job.                                                                    *)

\* Mutant of Trigger: a jobId of its own for every add.
TriggerAgain ==
  /\ job.state # "wait"
  /\ job' = [NoJob EXCEPT !.state = "wait"]
  /\ UNCHANGED <<source, clock, cursor, raw, enqueued, run, left>>

\* A sweep tick or POST /connections/:id/reconcile.  An add with a jobId that is
\* there already, in whatever state, adds nothing.
Trigger ==
  /\ job.state = "none"
  /\ job' = [NoJob EXCEPT !.state = "wait"]
  /\ UNCHANGED <<source, clock, cursor, raw, enqueued, run, left>>

\* A job that stalled too often is failed instead of run.
Take(s) ==
  /\ run[s] = Idle
  /\ job.state = "wait"
  /\ job' = [job EXCEPT !.state = "active", !.lock = s]
  /\ run' = [run EXCEPT ![s].pc = IF job.stalls > MaxStalls THEN "over" ELSE "load"]
  /\ UNCHANGED <<source, clock, cursor, raw, enqueued, left>>

\* removeOnComplete: the jobId is free again.
Complete(s) ==
  /\ run[s].pc = "done" /\ job.lock = s
  /\ job' = NoJob
  /\ run' = [run EXCEPT ![s] = Idle]
  /\ UNCHANGED <<source, clock, cursor, raw, enqueued, left>>

\* Every error of this processor is retried; after the last attempt, or when
\* stalled too often, the job is dropped (removeOnFail).
Fail(s) ==
  /\ run[s].pc \in {"thrown", "over"} /\ job.lock = s
  /\ job' = IF run[s].pc = "thrown" /\ job.attemptsMade + 1 < Attempts
            THEN [job EXCEPT !.state = "delayed", !.lock = NoSlot,
                             !.attemptsMade = @ + 1]
            ELSE NoJob
  /\ run' = [run EXCEPT ![s] = Idle]
  /\ UNCHANGED <<source, clock, cursor, raw, enqueued, left>>

\* The slot's lock is gone: BullMQ ignores what it reports.
LostLock(s) ==
  /\ run[s].pc \in {"done", "thrown", "over"} /\ job.lock # s
  /\ run' = [run EXCEPT ![s] = Idle]
  /\ UNCHANGED <<source, clock, cursor, raw, enqueued, job, left>>

Promote ==
  /\ job.state = "delayed"
  /\ job' = [job EXCEPT !.state = "wait"]
  /\ UNCHANGED <<source, clock, cursor, raw, enqueued, run, left>>

Stalled ==
  /\ job.state = "active" /\ job.lock = NoSlot
  /\ job' = [job EXCEPT !.state = "wait", !.stalls = @ + 1]
  /\ UNCHANGED <<source, clock, cursor, raw, enqueued, run, left>>

-------------------------------------------------------------------------------
(* reconcileProcessor.                                                         *)

\* Mutant of Load: every run pulls the whole history.
LoadNothing(s) ==
  /\ run[s].pc = "load"
  /\ run' = [run EXCEPT ![s].pc = "fetch"]
  /\ UNCHANGED <<source, clock, cursor, raw, enqueued, job, left>>

Load(s) ==
  /\ run[s].pc = "load"
  /\ run' = [run EXCEPT ![s].pc = "fetch", ![s].cursor = cursor, ![s].pageCursor = cursor]
  /\ UNCHANGED <<source, clock, cursor, raw, enqueued, job, left>>

\* What the API may hand back as next_cursor: the end of the page; nothing, once
\* no record is left; or the token it was given.
NextCursors(c, last, more, tokens) ==
  {last} \cup (IF more THEN {} ELSE {0}) \cup (IF more /\ ~tokens THEN {} ELSE {c})

\* An empty page ends the run.
FetchNothing(s) ==
  /\ run[s].pc = "fetch"
  /\ PageAfter(run[s].pageCursor) = {}
  /\ run' = [run EXCEPT ![s].pc = "done"]
  /\ UNCHANGED <<source, clock, cursor, raw, enqueued, job, left>>

\* A page is a copy of the records as they are now; `tokens` says whether they
\* carry cursors of their own.
FetchPage(s) ==
  LET c    == run[s].pageCursor
      page == {Snapshot(r) : r \in PageAfter(c)}
  IN  /\ run[s].pc = "fetch"
      /\ \E l \in page, tokens \in BOOLEAN :
           /\ \A p \in page : p.seq <= l.seq
           /\ \E next \in NextCursors(c, l.seq, PageAfter(l.seq) # {}, tokens) :
                run' = [run EXCEPT ![s] =
                          [@ EXCEPT !.pc = "land", !.page = page, !.todo = page,
                                    !.last = l.seq, !.tokens = tokens, !.next = next]]
      /\ UNCHANGED <<source, clock, cursor, raw, enqueued, job, left>>

\* The record the loop over the page is at.
At(s, p) == p \in run[s].todo /\ \A q \in run[s].todo : p.seq <= q.seq

\* A tombstone is skipped.
SkipDeleted(s) ==
  /\ run[s].pc = "land"
  /\ \E p \in run[s].todo :
       /\ At(s, p) /\ p.deleted
       /\ run' = [run EXCEPT ![s].todo = @ \ {p}]
  /\ UNCHANGED <<source, clock, cursor, raw, enqueued, job, left>>

LandRaw(s) ==
  /\ run[s].pc = "land"
  /\ \E p \in run[s].todo :
       /\ At(s, p) /\ ~p.deleted
       /\ raw' = [raw EXCEPT ![p.rec] = p.ver]
  /\ run' = [run EXCEPT ![s].pc = "enqueue"]
  /\ UNCHANGED <<source, clock, cursor, enqueued, job, left>>

AddIngest(s) ==
  /\ run[s].pc = "enqueue"
  /\ \E p \in run[s].todo :
       /\ At(s, p)
       /\ enqueued' = enqueued \cup {[rec |-> p.rec, ver |-> p.ver]}
       /\ run' = [run EXCEPT ![s].pc = "land", ![s].todo = @ \ {p}]
  /\ UNCHANGED <<source, clock, cursor, raw, job, left>>

\* Mutant of PageDone: the cursor is persisted before the page is landed.
PageDoneEarly(s) == run[s].pc \in {"land", "enqueue"}

PageDone(s) == run[s].pc = "land" /\ run[s].todo = {}

\* Mutant of Resume: the cursor goes to where the source is now.
ResumeAtClock(f) == clock

\* Mutant of Resume: one past the last record.
ResumePast(f) == f.last + 1

\* The last record's cursor, else the page's next_cursor, else the one so far.
Resume(f) ==
  IF f.tokens THEN f.last ELSE IF f.next # 0 THEN f.next ELSE f.cursor

\* Mutant of LastPage: no guard against a token that does not advance.
LastPageUnguarded(f) == f.next = 0

LastPage(f) == f.next = 0 \/ f.next = f.pageCursor

Checkpoint(s) ==
  LET f == run[s]
  IN  /\ PageDone(s)
      /\ cursor' = Resume(f)
      /\ run' = [run EXCEPT ![s] =
                   [Idle EXCEPT !.pc = IF LastPage(f) THEN "done" ELSE "fetch",
                                !.cursor = Resume(f), !.pageCursor = f.next]]
      /\ UNCHANGED <<source, clock, raw, enqueued, job, left>>

\* Mongo, Redis or the records API throws: the attempt is over.
Throw(s) ==
  /\ run[s].pc \in {"load", "fetch", "land", "enqueue"}
  /\ Strike("throw")
  /\ run' = [run EXCEPT ![s] = [Idle EXCEPT !.pc = "thrown"]]
  /\ UNCHANGED <<source, clock, cursor, raw, enqueued, job>>

-------------------------------------------------------------------------------
(* The worker process and its locks.                                           *)

LockExpires(s) ==
  /\ run[s] # Idle /\ job.lock = s
  /\ Strike("lock")
  /\ job' = [job EXCEPT !.lock = NoSlot]
  /\ UNCHANGED <<source, clock, cursor, raw, enqueued, run>>

Crash ==
  /\ Strike("crash")
  /\ run' = [s \in Slots |-> Idle]
  /\ job' = [job EXCEPT !.lock = NoSlot]
  /\ UNCHANGED <<source, clock, cursor, raw, enqueued>>

-------------------------------------------------------------------------------

Processor(s) ==
  \/ Load(s)
  \/ FetchNothing(s)
  \/ FetchPage(s)
  \/ SkipDeleted(s)
  \/ LandRaw(s)
  \/ AddIngest(s)
  \/ Checkpoint(s)

SlotStep(s) ==
  \/ Take(s)
  \/ Processor(s)
  \/ Complete(s)
  \/ Fail(s)
  \/ LostLock(s)

RedisStep == Promote \/ Stalled

Next ==
  \/ \E r \in Records : Change(r)
  \/ Trigger
  \/ RedisStep
  \/ \E s \in Slots : SlotStep(s) \/ Throw(s) \/ LockExpires(s)
  \/ Crash

Spec == Init /\ [][Next]_vars

\* The sweep is a repeatable job, so a trigger comes again and again; slots and
\* BullMQ's timers run while the process does.
FairSpec ==
  /\ Spec
  /\ WF_vars(Trigger)
  /\ WF_vars(RedisStep)
  /\ \A s \in Slots : WF_vars(SlotStep(s))

-------------------------------------------------------------------------------
(* Properties.                                                                 *)

Frames == [pc : {"idle", "load", "fetch", "land", "enqueue", "done", "thrown", "over"},
           cursor : Nat, pageCursor : Nat, page : SUBSET Snapshots,
           todo : SUBSET Snapshots, last : Nat, tokens : BOOLEAN, next : Nat]

\* Types; the cursor is one the source has given out, and a job is never tried
\* more often than its attempts allow.
TypeOK ==
  /\ source \in [Records -> [seq : Nat, ver : Nat, deleted : BOOLEAN]]
  /\ clock \in Nat
  /\ cursor \in Nat /\ cursor <= clock
  /\ raw \in [Records -> Nat]
  /\ enqueued \subseteq [rec : Records, ver : Nat]
  /\ run \in [Slots -> Frames]
  /\ job \in [state : {"none", "wait", "active", "delayed"}, attemptsMade : Nat,
              stalls : Nat, lock : Slots \cup {NoSlot}]
  /\ job.attemptsMade < Attempts

\* A cursor covers the live records that last changed at or before it: each is in
\* raw_records and its present version has its ingest job.
Covered(c) ==
  \A r \in Records :
    source[r].seq \in 1 .. c /\ ~source[r].deleted =>
      /\ raw[r] # 0
      /\ [rec |-> r, ver |-> source[r].ver] \in enqueued

\* Never skipping a record: whatever fails, crashes, runs twice or changes in the
\* source meanwhile, the durable cursor covers all that is behind it
\* ("a cursor that advanced means records are durably in raw_records + an ingest
\* job is enqueued").
CursorCovers == Covered(cursor)

\* No lock was lost under a running slot so far.
LocksHeld == left["lock"] = Budget["lock"]

Busy(s) == run[s].pc \in {"load", "fetch", "land", "enqueue"}

\* The deterministic jobId keeps the cursor single-writer: no two runs at once, as
\* long as no lock is lost (with a lost lock the run that lost it goes on).
SingleWriter == LocksHeld => \A s, t \in Slots : Busy(s) /\ Busy(t) => s = t

\* As long, the durable cursor never moves back, through retries, crashes and
\* takeovers that start a run at the cursor again.
CursorNeverRegresses == [][LocksHeld => cursor <= cursor']_cursor

\* As long, no copy in raw_records gives way to an older one, although a page is
\* landed some time after it was fetched, and again when its attempt fails.
RawNeverRegresses == [][LocksHeld => \A r \in Records : raw[r] <= raw'[r]]_raw

\* raw_records holds the present version of what the cursor covers.
RawIsCurrent ==
  \A r \in Records :
    source[r].seq \in 1 .. cursor /\ ~source[r].deleted => raw[r] = source[r].ver

\* Runs end, whatever token the API echoes: again and again no slot is at work, also
\* after a lost lock has put two to work.
RunsEnd == []<>(\A s \in Slots : ~Busy(s))

\* The safety net: once the source is quiet every live record's present version
\* has been handed to the ingest queue, without anyone's help but the sweep's.
EventuallyDelivered ==
  <>[](\A r \in Records :
         source[r].seq # 0 /\ ~source[r].deleted =>
           [rec |-> r, ver |-> source[r].ver] \in enqueued)

===============================================================================
