------------------------------ MODULE WebhookSync -----------------------------
(* The webhook path: Nango's notification, POST /webhooks/nango, the nango-sync *)
(* queue and the slots that run nangoSyncProcessor, which pages through the     *)
(* changed records, lands each in raw_records and adds its ingest job (app.ts,  *)
(* syncProcessor.ts, nangoSyncWorker.ts, raw.ts).                               *)
(*                                                                              *)
(* Unlike the poller (Reconcile) a run keeps no cursor: a retry starts at the   *)
(* notification's modifiedAfter again, and jobs for one connection may run side *)
(* by side.  raw_records has no unique index, so its upsert is what MongoDB     *)
(* makes of one: a look for a document, then an update of it or an insert.      *)
(* Nor is there a guard against a token that does not advance: an API that      *)
(* hands back the one it was given keeps the loop going.                        *)
(* External: Nango (RecordsApi and the notifications) and BullMQ.               *)
EXTENDS RecordsApi, Sequences

CONSTANTS
  Slots,        \* the worker's concurrency slots
  Attempts,     \* ingestJobOptions.attempts (5 in the code)
  MaxStalls,    \* BullMQ's maxStalledCount (1 by default)
  MaxJobs,      \* bound: jobs added
  Budget,       \* bound: how often each kind of failure, and any, may strike
  NoSlot        \* "nobody" as the holder of a lock

\* "any": all of them together, except "overlap", which is no failure: a job taken
\* while another slot is busy.
Failures == {"lose", "repeat", "throw", "crash", "lock", "overlap", "any"}

ASSUME AttemptsAssumption == Attempts \in Nat \ {0}
ASSUME BudgetAssumption == Budget \in [Failures -> Nat]
ASSUME NoSlotAssumption == NoSlot \notin Slots

VARIABLES
  notified,     \* the change up to which Nango has sent notifications
  inbox,        \* notifications on their way, in any order: [since, upto, success]
  jobs,         \* sequence of nango-sync jobs, indexed by job id
  run,          \* run[s]: the processor's frame in slot s
  raw,          \* sequence of raw_records documents [rec, ver], indexed by _id
  enqueued,     \* the [rec, ver] for which an ingest job was added
  left          \* failures that may still strike

vars == <<source, clock, notified, inbox, jobs, run, raw, enqueued, left>>

JobIds == DOMAIN jobs
DocIds == DOMAIN raw

NewJob(n) == [since |-> n.since, upto |-> n.upto, state |-> "wait",
              attemptsMade |-> 0, stalls |-> 0, lock |-> NoSlot]

Idle == [pc |-> "idle", job |-> 0, todo |-> {}, next |-> 0, found |-> 0]

Strike(kind) ==
  /\ left[kind] > 0 /\ left["any"] > 0
  /\ left' = [left EXCEPT ![kind] = @ - 1, !["any"] = @ - 1]

Overlap ==
  /\ left["overlap"] > 0
  /\ left' = [left EXCEPT !["overlap"] = @ - 1]

-------------------------------------------------------------------------------
(* Nango and the webhook.                                                      *)

Init ==
  /\ SourceInit
  /\ notified = 0
  /\ inbox = {}
  /\ jobs = <<>>
  /\ run = [s \in Slots |-> Idle]
  /\ raw = <<>>
  /\ enqueued = {}
  /\ left = Budget

Change(r) ==
  /\ SourceChange(r)
  /\ UNCHANGED <<notified, inbox, jobs, run, raw, enqueued, left>>

Note(since, upto, success) == [since |-> since, upto |-> upto, success |-> success]

\* A sync of Nango's ends and is notified, with the time it covers (modifiedAfter);
\* a failed one covers nothing.
Notify ==
  /\ notified < clock
  /\ \/ /\ inbox' = inbox \cup {Note(notified, clock, TRUE)}
        /\ notified' = clock
     \/ /\ inbox' = inbox \cup {Note(0, 0, FALSE)}
        /\ UNCHANGED notified
  /\ UNCHANGED <<source, clock, jobs, run, raw, enqueued, left>>

\* POST /webhooks/nango: a notification that is no success is answered and
\* ignored; for the others a job is added.
Receive(n) ==
  /\ n.success => Len(jobs) < MaxJobs
  /\ jobs' = IF n.success THEN Append(jobs, NewJob(n)) ELSE jobs
  /\ inbox' = inbox \ {n}
  /\ UNCHANGED <<source, clock, notified, run, raw, enqueued, left>>

\* It is delivered once more later: Nango's retry after an answer that was lost.
ReceiveAndRepeat(n) ==
  /\ n.success /\ Len(jobs) < MaxJobs
  /\ Strike("repeat")
  /\ jobs' = Append(jobs, NewJob(n))
  /\ UNCHANGED <<source, clock, notified, inbox, run, raw, enqueued>>

\* It never arrives, or the handler throws (500) and nobody retries.
Lose(n) ==
  /\ Strike("lose")
  /\ inbox' = inbox \ {n}
  /\ UNCHANGED <<source, clock, notified, jobs, run, raw, enqueued>>

-------------------------------------------------------------------------------
(* The queue.                                                                  *)

Job(s) == jobs[run[s].job]

Take(s, j) ==
  /\ run[s] = Idle
  /\ jobs[j].state = "wait"
  /\ IF \A other \in Slots : run[other] = Idle THEN UNCHANGED left ELSE Overlap
  /\ jobs' = [jobs EXCEPT ![j].state = "active", ![j].lock = s]
  /\ run' = [run EXCEPT ![s] =
               [Idle EXCEPT !.job = j,
                            !.pc = IF jobs[j].stalls > MaxStalls THEN "over" ELSE "fetch"]]
  /\ UNCHANGED <<source, clock, notified, inbox, raw, enqueued>>

Complete(s) ==
  /\ run[s].pc = "done" /\ Job(s).lock = s
  /\ jobs' = [jobs EXCEPT ![run[s].job].state = "completed", ![run[s].job].lock = NoSlot]
  /\ run' = [run EXCEPT ![s] = Idle]
  /\ UNCHANGED <<source, clock, notified, inbox, raw, enqueued, left>>

\* Every error of this processor is retried; there is no dead letter after it.
Fail(s) ==
  LET j     == run[s].job
      again == run[s].pc = "thrown" /\ jobs[j].attemptsMade + 1 < Attempts
  IN  /\ run[s].pc \in {"thrown", "over"} /\ jobs[j].lock = s
      /\ jobs' = [jobs EXCEPT ![j].state = IF again THEN "delayed" ELSE "failed",
                              ![j].attemptsMade = @ + 1, ![j].lock = NoSlot]
      /\ run' = [run EXCEPT ![s] = Idle]
      /\ UNCHANGED <<source, clock, notified, inbox, raw, enqueued, left>>

\* The slot's lock is gone: BullMQ ignores what it reports.
LostLock(s) ==
  /\ run[s].pc \in {"done", "thrown", "over"} /\ Job(s).lock # s
  /\ run' = [run EXCEPT ![s] = Idle]
  /\ UNCHANGED <<source, clock, notified, inbox, jobs, raw, enqueued, left>>

Promote(j) ==
  /\ jobs[j].state = "delayed"
  /\ jobs' = [jobs EXCEPT ![j].state = "wait"]
  /\ UNCHANGED <<source, clock, notified, inbox, run, raw, enqueued, left>>

Stalled(j) ==
  /\ jobs[j].state = "active" /\ jobs[j].lock = NoSlot
  /\ jobs' = [jobs EXCEPT ![j].state = "wait", ![j].stalls = @ + 1]
  /\ UNCHANGED <<source, clock, notified, inbox, run, raw, enqueued, left>>

-------------------------------------------------------------------------------
(* nangoSyncProcessor.                                                         *)

\* Mutant of Since: modifiedAfter is the time of the notification, not of what its
\* sync covers.
SinceNotified(s) == IF run[s].next # 0 THEN run[s].next ELSE Job(s).upto

\* The page asked for: past the page's cursor, or else past modifiedAfter.
Since(s) == IF run[s].next # 0 THEN run[s].next ELSE Job(s).since

\* Where the page ends in the source, if it has a record.
Ends(page) == {p.seq : p \in {q \in page : \A other \in page : other.seq <= q.seq}}

\* What the API may hand back as next_cursor: the page's end; nothing, once no
\* record is left; or the token c it was given, also with an empty page.
NextCursors(c, page) ==
  Ends(page) \cup ({c} \ {0})
    \cup (IF \E e \in Ends(page) : PageAfter(e) # {} THEN {} ELSE {0})

Fetch(s) ==
  /\ run[s].pc = "fetch"
  /\ LET page == {Snapshot(r) : r \in PageAfter(Since(s))}
     IN  \E next \in NextCursors(run[s].next, page) :
           run' = [run EXCEPT ![s].pc = "land", ![s].todo = page, ![s].next = next]
  /\ UNCHANGED <<source, clock, notified, inbox, jobs, raw, enqueued, left>>

\* The record the loop over the page is at.
At(s, p) == p \in run[s].todo /\ \A q \in run[s].todo : p.seq <= q.seq

\* A tombstone is skipped.
SkipDeleted(s) ==
  /\ run[s].pc = "land"
  /\ \E p \in run[s].todo :
       /\ At(s, p) /\ p.deleted
       /\ run' = [run EXCEPT ![s].todo = @ \ {p}]
  /\ UNCHANGED <<source, clock, notified, inbox, jobs, raw, enqueued, left>>

\* Mutant of Matches: no document is ever found.
MatchesNone(r) == {0}

\* The documents of a record, one of which findOneAndUpdate picks; 0 for none.
Matches(r) ==
  LET docs == {d \in DocIds : raw[d].rec = r} IN IF docs = {} THEN {0} ELSE docs

\* landRawRecord: the upsert looks for a document ...
FindRaw(s) ==
  /\ run[s].pc = "land"
  /\ \E p \in run[s].todo :
       /\ At(s, p) /\ ~p.deleted
       /\ \E d \in Matches(p.rec) :
            run' = [run EXCEPT ![s].pc = "write", ![s].found = d]
  /\ UNCHANGED <<source, clock, notified, inbox, jobs, raw, enqueued, left>>

\* ... and updates the one it found, or else inserts one.
Written(d, p) ==
  IF d = 0 THEN Append(raw, [rec |-> p.rec, ver |-> p.ver])
  ELSE [raw EXCEPT ![d].ver = p.ver]

WriteRaw(s) ==
  /\ run[s].pc = "write"
  /\ \E p \in run[s].todo :
       /\ At(s, p)
       /\ raw' = Written(run[s].found, p)
  /\ run' = [run EXCEPT ![s].pc = "enqueue"]
  /\ UNCHANGED <<source, clock, notified, inbox, jobs, enqueued, left>>

\* Mutant of AddIngest: the landing is not awaited.
AddIngestUnawaited(s) ==
  /\ run[s].pc \in {"write", "enqueue"}
  /\ \E p \in run[s].todo :
       /\ At(s, p)
       /\ enqueued' = enqueued \cup {[rec |-> p.rec, ver |-> p.ver]}
       /\ run' = [run EXCEPT ![s].pc = "land", ![s].todo = @ \ {p}]
  /\ UNCHANGED <<source, clock, notified, inbox, jobs, raw, left>>

AddIngest(s) ==
  /\ run[s].pc = "enqueue"
  /\ \E p \in run[s].todo :
       /\ At(s, p)
       /\ enqueued' = enqueued \cup {[rec |-> p.rec, ver |-> p.ver]}
       /\ run' = [run EXCEPT ![s].pc = "land", ![s].todo = @ \ {p}]
  /\ UNCHANGED <<source, clock, notified, inbox, jobs, raw, left>>

\* The loop goes on for as long as there is a next_cursor.
PageDone(s) ==
  /\ run[s].pc = "land" /\ run[s].todo = {}
  /\ run' = [run EXCEPT ![s].pc = IF run[s].next = 0 THEN "done" ELSE "fetch"]
  /\ UNCHANGED <<source, clock, notified, inbox, jobs, raw, enqueued, left>>

\* Mongo, Redis or the records API throws: the attempt is over.
Throw(s) ==
  /\ run[s].pc \in {"fetch", "land", "write", "enqueue"}
  /\ Strike("throw")
  /\ run' = [run EXCEPT ![s] = [Idle EXCEPT !.pc = "thrown", !.job = run[s].job]]
  /\ UNCHANGED <<source, clock, notified, inbox, jobs, raw, enqueued>>

-------------------------------------------------------------------------------
(* The worker process and its locks.                                           *)

LockExpires(s) ==
  /\ run[s] # Idle /\ Job(s).lock = s
  /\ Strike("lock")
  /\ jobs' = [jobs EXCEPT ![run[s].job].lock = NoSlot]
  /\ UNCHANGED <<source, clock, notified, inbox, run, raw, enqueued>>

Crash ==
  /\ Strike("crash")
  /\ run' = [s \in Slots |-> Idle]
  /\ jobs' = [j \in JobIds |-> [jobs[j] EXCEPT !.lock = NoSlot]]
  /\ UNCHANGED <<source, clock, notified, inbox, raw, enqueued>>

-------------------------------------------------------------------------------

Processor(s) ==
  \/ Fetch(s)
  \/ SkipDeleted(s)
  \/ FindRaw(s)
  \/ WriteRaw(s)
  \/ AddIngest(s)
  \/ PageDone(s)

SlotStep(s) ==
  \/ \E j \in JobIds : Take(s, j)
  \/ Processor(s)
  \/ Complete(s)
  \/ Fail(s)
  \/ LostLock(s)

RedisStep == \E j \in JobIds : Promote(j) \/ Stalled(j)

Next ==
  \/ \E r \in Records : Change(r)
  \/ Notify
  \/ \E n \in inbox : Receive(n) \/ ReceiveAndRepeat(n) \/ Lose(n)
  \/ \E s \in Slots : SlotStep(s) \/ Throw(s) \/ LockExpires(s)
  \/ RedisStep
  \/ Crash

Spec == Init /\ [][Next]_vars

-------------------------------------------------------------------------------
(* Properties.                                                                 *)

Completed == {j \in JobIds : jobs[j].state = "completed"}

\* The live records that last changed in what a job's notification covers.
Window(j) ==
  {r \in Records : source[r].seq \in jobs[j].since + 1 .. jobs[j].upto /\ ~source[r].deleted}

\* A completed sync job has handed over what it was notified of: the record's
\* present version has an ingest job, unless the record changed since, although
\* the source moves while the job pages through it and attempts fail half way.
CompletedCovers ==
  \A j \in Completed : \A r \in Window(j) :
    [rec |-> r, ver |-> source[r].ver] \in enqueued

\* An ingest job is added only for a record with a document in raw_records, from
\* which backfill can make it again.
EnqueuedIsLanded ==
  \A e \in enqueued : \E d \in DocIds : raw[d].rec = e.rec

Struck(kind) == left[kind] < Budget[kind]

\* raw_records holds the present version of what a completed job was notified of:
\* the row follows the source, whatever is said of an immutable layer.
CompletedLanded ==
  \A j \in Completed : \A r \in Window(j) :
    \E d \in DocIds : raw[d] = [rec |-> r, ver |-> source[r].ver]

\* landRawRecord is "idempotent per {tenantId, connectionId, nangoRecordId}".
OneRawPerRecord ==
  \A d1, d2 \in DocIds : raw[d1].rec = raw[d2].rec => d1 = d2

\* As long as no job was taken while another ran, both hold, through retries that
\* start at the first page again, crashes and repeated notifications: it takes
\* two slots at once to land a version over a later one or a record twice.
SerialLanded == Struck("overlap") \/ CompletedLanded
SerialOneRaw == Struck("overlap") \/ OneRawPerRecord

===============================================================================
