---------------------------- MODULE ReconcileProofs ---------------------------
(* The cursor invariant of the reconciliation poller, for any records, slots,  *)
(* page size and failures: what the durable cursor has passed is landed and    *)
(* enqueued.  The strengthening says the same of the two cursors of every      *)
(* frame, and of the page a frame is at: it holds all that last changed after   *)
(* its page cursor and up to its last record, and what is no longer `todo` is   *)
(* landed and enqueued.  The second part, SInv, says what holds besides while  *)
(* no lock is lost under a running slot: one writer, a cursor that never moves *)
(* back, and raw copies that are current.                                      *)
EXTENDS Reconcile, FiniteSetTheorems, TLAPS

\* The predicates take the shared state as parameters: one lemma then says that
\* they survive every change of it.
SnapIn(src, r) == [rec |-> r, seq |-> src[r].seq, ver |-> src[r].ver,
                   deleted |-> src[r].deleted]

CoveredIn(src, rw, enq, c) ==
  \A r \in Records :
    src[r].seq \in 1 .. c /\ ~src[r].deleted =>
      /\ rw[r] # 0
      /\ [rec |-> r, ver |-> src[r].ver] \in enq

Delivered(rw, enq, p) ==
  ~p.deleted => rw[p.rec] # 0 /\ [rec |-> p.rec, ver |-> p.ver] \in enq

PageIn(src, clk, rw, enq, f) ==
  /\ f.last <= clk
  /\ f.next \in {0, f.pageCursor, f.last}
  /\ f.todo \subseteq f.page
  /\ \A p \in f.page : p.ver # 0
  /\ \A p, q \in f.page : p.seq = q.seq => p = q
  /\ \A r \in Records :
       f.pageCursor < src[r].seq /\ src[r].seq <= f.last => SnapIn(src, r) \in f.page
  /\ \A p \in f.page \ f.todo : Delivered(rw, enq, p)
  /\ f.pc = "enqueue" =>
       \A p \in f.todo : (\A q \in f.todo : p.seq <= q.seq) => rw[p.rec] # 0

FrameIn(src, clk, rw, enq, f) ==
  /\ f.cursor <= clk /\ CoveredIn(src, rw, enq, f.cursor)
  /\ f.pageCursor <= clk /\ CoveredIn(src, rw, enq, f.pageCursor)
  /\ f.pc \in {"land", "enqueue"} => PageIn(src, clk, rw, enq, f)

\* The source: every change has a seq of its own, at most the clock's.
SourceOK ==
  /\ \A r \in Records : source[r].seq <= clock
  /\ \A r \in Records : source[r].seq # 0 => source[r].ver # 0
  /\ \A r, q \in Records : source[r].seq = source[q].seq /\ source[r].seq # 0 => r = q

FramesOK == \A s \in Slots : FrameIn(source, clock, raw, enqueued, run[s])

IInv ==
  /\ TypeOK
  /\ SourceOK
  /\ CoveredIn(source, raw, enqueued, cursor)
  /\ FramesOK

\* The shared state after a step, seen from before it: the clock does not go back,
\* nothing landed or enqueued is lost, and what changed is newer than the clock.
Later(src, clk, rw, enq, src2, clk2, rw2, enq2) ==
  /\ clk <= clk2
  /\ enq \subseteq enq2
  /\ \A r \in Records : rw[r] # 0 => rw2[r] # 0
  /\ \A r \in Records : src2[r].seq <= clk => src2[r] = src[r]

-------------------------------------------------------------------------------

\* What a frame relies on survives every change of the shared state.
LEMMA Survives ==
  ASSUME NEW src \in [Records -> [seq : Nat, ver : Nat, deleted : BOOLEAN]],
         NEW src2 \in [Records -> [seq : Nat, ver : Nat, deleted : BOOLEAN]],
         NEW clk \in Nat, NEW clk2 \in Nat, NEW rw, NEW rw2, NEW enq, NEW enq2,
         Later(src, clk, rw, enq, src2, clk2, rw2, enq2)
  PROVE  /\ \A c \in Nat : c <= clk /\ CoveredIn(src, rw, enq, c) =>
                             CoveredIn(src2, rw2, enq2, c)
         /\ \A f \in Frames : FrameIn(src, clk, rw, enq, f) =>
                                FrameIn(src2, clk2, rw2, enq2, f)
<1>1. ASSUME NEW c \in Nat, c <= clk, CoveredIn(src, rw, enq, c)
      PROVE  CoveredIn(src2, rw2, enq2, c)
  <2> SUFFICES ASSUME NEW r \in Records, src2[r].seq \in 1 .. c, ~src2[r].deleted
               PROVE  rw2[r] # 0 /\ [rec |-> r, ver |-> src2[r].ver] \in enq2
    BY DEF CoveredIn
  <2>1. src2[r].seq \in Nat /\ src2[r].seq <= clk BY <1>1
  <2>2. src2[r] = src[r] BY <2>1 DEF Later
  <2>3. rw[r] # 0 /\ [rec |-> r, ver |-> src[r].ver] \in enq
    BY <1>1, <2>2 DEF CoveredIn
  <2> QED BY <2>2, <2>3 DEF Later
<1>2. ASSUME NEW f \in Frames, PageIn(src, clk, rw, enq, f)
      PROVE  PageIn(src2, clk2, rw2, enq2, f)
  <2>1. f.last \in Nat /\ f.last <= clk2
    BY <1>2 DEF PageIn, Frames, Later
  <2>2. ASSUME NEW p \in f.page, Delivered(rw, enq, p)
        PROVE  Delivered(rw2, enq2, p)
    BY <1>2, <2>2 DEF Delivered, Later, Frames, Snapshots
  <2>3. ASSUME NEW r \in Records, f.pageCursor < src2[r].seq, src2[r].seq <= f.last
        PROVE  SnapIn(src2, r) \in f.page
    <3>1. src2[r].seq \in Nat BY <2>3
    <3>2. src2[r].seq <= clk BY <3>1, <2>1, <2>3, <1>2 DEF PageIn
    <3>3. src2[r] = src[r] BY <3>2 DEF Later
    <3> QED BY <3>3, <2>3, <1>2 DEF PageIn, SnapIn
  <2>4. f.todo \subseteq Snapshots BY <1>2 DEF Frames
  <2>5. f.pc = "enqueue" =>
          \A p \in f.todo : (\A q \in f.todo : p.seq <= q.seq) => rw2[p.rec] # 0
    BY <1>2, <2>4 DEF PageIn, Later, Snapshots
  <2> QED BY <1>2, <2>1, <2>2, <2>3, <2>5 DEF PageIn
<1>3. ASSUME NEW f \in Frames, FrameIn(src, clk, rw, enq, f)
      PROVE  FrameIn(src2, clk2, rw2, enq2, f)
  <2>1. /\ f.cursor \in Nat /\ f.cursor <= clk
        /\ f.pageCursor \in Nat /\ f.pageCursor <= clk
    BY <1>3 DEF FrameIn, Frames
  <2>2. f.cursor <= clk2 /\ f.pageCursor <= clk2
    BY <2>1 DEF Later
  <2> QED BY <1>1, <1>2, <1>3, <2>1, <2>2 DEF FrameIn
<1> QED BY <1>1, <1>3

\* The idle frame relies on nothing.
LEMMA IdleOK ==
  /\ Idle \in Frames
  /\ \A src, clk, rw, enq : clk \in Nat /\ (\A r \in Records : src[r].seq \in Nat)
        => FrameIn(src, clk, rw, enq, Idle)
<1>1. Idle \in Frames BY DEF Idle, Frames
<1>2. Idle.cursor = 0 /\ Idle.pageCursor = 0 /\ Idle.pc = "idle" BY DEF Idle
<1> QED BY <1>1, <1>2 DEF FrameIn, CoveredIn

\* Nothing is covered, and nothing has to be, at the start.
LEMMA InitIInv == Init => IInv
<1> SUFFICES ASSUME Init PROVE IInv
  OBVIOUS
<1>1. TypeOK
  <2>1. NoJob.state = "none" /\ NoJob.attemptsMade = 0 BY DEF NoJob
  <2>2. NoJob \in [state : {"none", "wait", "active", "delayed"}, attemptsMade : Nat,
                   stalls : Nat, lock : Slots \cup {NoSlot}]
    BY DEF NoJob
  <2> QED BY <2>1, <2>2, IdleOK, AttemptsAssumption DEF Init, SourceInit, TypeOK
<1>2. SourceOK BY DEF Init, SourceInit, SourceOK
<1>3. CoveredIn(source, raw, enqueued, cursor) BY DEF Init, SourceInit, CoveredIn
<1>4. FramesOK
  <2>1. \A s \in Slots : run[s] = Idle BY DEF Init
  <2>2. clock \in Nat /\ \A r \in Records : source[r].seq \in Nat BY DEF Init, SourceInit
  <2> QED BY <2>1, <2>2, IdleOK DEF FramesOK
<1> QED BY <1>1, <1>2, <1>3, <1>4 DEF IInv

\* Whoever works on a page has a frame at one.
LEMMA PageFrame ==
  ASSUME IInv, NEW s \in Slots, run[s].pc \in {"land", "enqueue"}
  PROVE  PageIn(source, clock, raw, enqueued, run[s])
BY DEF IInv, FramesOK, FrameIn

\* The cursor a checkpoint writes is covered: it is the page's end, and the page
\* is done; or one the frame held before.
LEMMA ResumeCovered ==
  ASSUME IInv, NEW s \in Slots, Checkpoint(s)
  PROVE  /\ Resume(run[s]) \in Nat
         /\ Resume(run[s]) <= clock
         /\ CoveredIn(source, raw, enqueued, Resume(run[s]))
         /\ run[s].next \in Nat
         /\ run[s].next <= clock
         /\ CoveredIn(source, raw, enqueued, run[s].next)
<1> DEFINE f == run[s]
<1>0. f \in Frames /\ clock \in Nat /\ source \in [Records -> [seq : Nat, ver : Nat, deleted : BOOLEAN]]
  BY DEF IInv, TypeOK
<1>1. f.pc = "land" /\ f.todo = {} BY DEF Checkpoint, PageDone
<1>2. PageIn(source, clock, raw, enqueued, f) BY <1>1, PageFrame
<1>3. /\ f.cursor <= clock /\ CoveredIn(source, raw, enqueued, f.cursor)
      /\ f.pageCursor <= clock /\ CoveredIn(source, raw, enqueued, f.pageCursor)
  BY DEF IInv, FramesOK, FrameIn
<1>4. f.cursor \in Nat /\ f.pageCursor \in Nat /\ f.last \in Nat /\ f.next \in Nat
  BY <1>0 DEF Frames
<1>5. CoveredIn(source, raw, enqueued, f.last)
  <2> SUFFICES ASSUME NEW r \in Records, source[r].seq \in 1 .. f.last, ~source[r].deleted
               PROVE  raw[r] # 0 /\ [rec |-> r, ver |-> source[r].ver] \in enqueued
    BY DEF CoveredIn
  <2>1. CASE source[r].seq <= f.pageCursor
    BY <2>1, <1>3, <1>4 DEF CoveredIn
  <2>2. CASE f.pageCursor < source[r].seq
    <3> DEFINE p == SnapIn(source, r)
    <3>1. p \in f.page BY <2>2, <1>2, <1>4 DEF PageIn
    <3>2. Delivered(raw, enqueued, p) BY <3>1, <1>1, <1>2 DEF PageIn
    <3>3. p.rec = r /\ p.ver = source[r].ver /\ p.deleted = source[r].deleted
      BY DEF SnapIn
    <3> QED BY <3>2, <3>3 DEF Delivered
  <2>3. source[r].seq \in Nat BY <1>0
  <2> QED BY <2>1, <2>2, <2>3, <1>4
<1>6. CoveredIn(source, raw, enqueued, 0) BY DEF CoveredIn
<1>7. f.next = 0 \/ f.next = f.pageCursor \/ f.next = f.last BY <1>2 DEF PageIn
<1>8. f.next <= clock /\ CoveredIn(source, raw, enqueued, f.next)
  BY <1>0, <1>2, <1>3, <1>4, <1>5, <1>6, <1>7 DEF PageIn
<1>9. Resume(f) = f.last \/ Resume(f) = f.next \/ Resume(f) = f.cursor
  BY DEF Resume
<1>10. f.last <= clock BY <1>2 DEF PageIn
<1> HIDE DEF f
<1> QED BY <1>3, <1>4, <1>5, <1>8, <1>9, <1>10 DEF f

\* A fetch takes a page that holds all up to its last record: a record before the
\* last one has fewer before it than the last one has.
LEMMA PageComplete ==
  ASSUME IInv, NEW c \in Nat, NEW l \in PageAfter(c), NEW r \in Records,
         c < source[r].seq, source[r].seq <= source[l].seq
  PROVE  r \in PageAfter(c)
<1>0. source \in [Records -> [seq : Nat, ver : Nat, deleted : BOOLEAN]]
  BY DEF IInv, TypeOK
<1>1. l \in Records BY DEF PageAfter, Pending
<1>2. r \in Pending(c) BY DEF Pending
<1>3. Before(r, c) \subseteq Before(l, c)
  <2>1. \A q \in Records : source[q].seq < source[r].seq => source[q].seq < source[l].seq
    BY <1>0, <1>1
  <2> QED BY <2>1 DEF Before, Pending
<1>4. IsFiniteSet(Before(l, c)) /\ IsFiniteSet(Before(r, c))
  BY RecordsAssumption, FS_Subset DEF Before, Pending
<1>5. Cardinality(Before(r, c)) <= Cardinality(Before(l, c))
  BY <1>3, <1>4, FS_Subset
<1>6. Cardinality(Before(l, c)) < PageSize BY DEF PageAfter
<1>7. Cardinality(Before(l, c)) \in Nat /\ Cardinality(Before(r, c)) \in Nat
  BY <1>4, FS_CardinalityType
<1> QED BY <1>2, <1>5, <1>6, <1>7, PageSizeAssumption DEF PageAfter

-------------------------------------------------------------------------------
(* Types.                                                                      *)

JobTypes == [state : {"none", "wait", "active", "delayed"}, attemptsMade : Nat,
             stalls : Nat, lock : Slots \cup {NoSlot}]

\* The steps that touch the job alone, or with the frame of a slot they free.
LEMMA JobStep ==
  ASSUME IInv,
         \/ Trigger \/ Promote \/ Stalled \/ Crash
         \/ \E s \in Slots : Complete(s) \/ Fail(s) \/ LockExpires(s) \/ Take(s)
  PROVE  job' \in JobTypes /\ job'.attemptsMade < Attempts
<1>0. /\ job \in JobTypes /\ job.attemptsMade < Attempts
  BY DEF IInv, TypeOK, JobTypes
<1>1. NoJob \in JobTypes /\ NoJob.attemptsMade < Attempts
  BY AttemptsAssumption DEF NoJob, JobTypes
<1>2. CASE Trigger
  <2>1. [NoJob EXCEPT !.state = "wait"] \in JobTypes
        /\ [NoJob EXCEPT !.state = "wait"].attemptsMade < Attempts
    BY AttemptsAssumption DEF NoJob, JobTypes
  <2> QED BY <1>2, <2>1 DEF Trigger
<1>3. CASE Promote BY <1>0, <1>3 DEF Promote, JobTypes
<1>4. CASE Stalled
  <2> DEFINE j == [job EXCEPT !.state = "wait", !.stalls = @ + 1]
  <2>0. job.stalls + 1 \in Nat BY <1>0 DEF JobTypes
  <2>1. j \in JobTypes /\ j.attemptsMade = job.attemptsMade BY <1>0, <2>0 DEF JobTypes
  <2>2. job' = j BY <1>4 DEF Stalled
  <2> QED BY <1>0, <2>1, <2>2
<1>5. CASE Crash
  <2> DEFINE j == [job EXCEPT !.lock = NoSlot]
  <2>1. j \in JobTypes /\ j.attemptsMade = job.attemptsMade BY <1>0 DEF JobTypes
  <2>2. job' = j BY <1>5 DEF Crash
  <2> QED BY <1>0, <2>1, <2>2
<1>6. ASSUME NEW s \in Slots, Complete(s)
      PROVE  job' \in JobTypes /\ job'.attemptsMade < Attempts
  BY <1>1, <1>6 DEF Complete
<1>7. ASSUME NEW s \in Slots, Fail(s)
      PROVE  job' \in JobTypes /\ job'.attemptsMade < Attempts
  <2>1. CASE run[s].pc = "thrown" /\ job.attemptsMade + 1 < Attempts
    <3> DEFINE j == [job EXCEPT !.state = "delayed", !.lock = NoSlot,
                                !.attemptsMade = @ + 1]
    <3>0. job.attemptsMade + 1 \in Nat BY <1>0 DEF JobTypes
    <3>1. j \in JobTypes /\ j.attemptsMade = job.attemptsMade + 1
      BY <1>0, <3>0 DEF JobTypes
    <3>2. job' = IF run[s].pc = "thrown" /\ job.attemptsMade + 1 < Attempts
                 THEN j ELSE NoJob
      BY <1>7 DEF Fail
    <3> HIDE DEF j
    <3> QED BY <2>1, <3>1, <3>2
  <2>2. CASE ~(run[s].pc = "thrown" /\ job.attemptsMade + 1 < Attempts)
    BY <1>1, <1>7, <2>2 DEF Fail
  <2> QED BY <2>1, <2>2
<1>8. ASSUME NEW s \in Slots, LockExpires(s)
      PROVE  job' \in JobTypes /\ job'.attemptsMade < Attempts
  BY <1>0, <1>8 DEF LockExpires, JobTypes
<1>9. ASSUME NEW s \in Slots, Take(s)
      PROVE  job' \in JobTypes /\ job'.attemptsMade < Attempts
  BY <1>0, <1>9 DEF Take, JobTypes
<1> QED BY <1>2, <1>3, <1>4, <1>5, <1>6, <1>7, <1>8, <1>9

\* The new frame of the slot that moved.
LEMMA FrameTypes ==
  ASSUME IInv, NEW s \in Slots, SlotStep(s) \/ Throw(s)
  PROVE  run' \in [Slots -> Frames]
<1>0. run \in [Slots -> Frames] /\ run[s] \in Frames /\ cursor \in Nat
  BY DEF IInv, TypeOK
<1>i. Idle \in Frames BY IdleOK
<1>o. ASSUME NEW f \in Frames, run' = [run EXCEPT ![s] = f]
      PROVE  run' \in [Slots -> Frames]
  BY <1>0, <1>o
<1>1. CASE Take(s)
  <2>1. \A pc \in {"over", "load"} : [run[s] EXCEPT !.pc = pc] \in Frames
    BY <1>0 DEF Frames
  <2> QED BY <1>1, <1>o, <2>1 DEF Take
<1>2. CASE Load(s)
  <2>1. [run[s] EXCEPT !.pc = "fetch", !.cursor = cursor, !.pageCursor = cursor] \in Frames
    BY <1>0 DEF Frames
  <2> QED BY <1>2, <1>o, <2>1 DEF Load
<1>3. CASE FetchNothing(s)
  <2>1. [run[s] EXCEPT !.pc = "done"] \in Frames BY <1>0 DEF Frames
  <2> QED BY <1>3, <1>o, <2>1 DEF FetchNothing
<1>4. CASE FetchPage(s)
  <2> DEFINE c == run[s].pageCursor
             page == {Snapshot(r) : r \in PageAfter(c)}
  <2>0. c \in Nat BY <1>0 DEF Frames
  <2>1. page \subseteq Snapshots
    BY <2>0 DEF PageAfter, Pending, Snapshot, Snapshots, IInv, TypeOK
  <2>2. ASSUME NEW l \in page, NEW tokens \in BOOLEAN,
               NEW next \in NextCursors(c, l.seq, PageAfter(l.seq) # {}, tokens)
        PROVE  [run[s] EXCEPT !.pc = "land", !.page = page, !.todo = page,
                              !.last = l.seq, !.tokens = tokens, !.next = next] \in Frames
    <3>1. l.seq \in Nat BY <2>1, <2>2 DEF Snapshots
    <3>2. next \in Nat BY <3>1, <2>0, <2>2 DEF NextCursors
    <3> HIDE DEF page
    <3> QED BY <1>0, <2>1, <2>2, <3>1, <3>2 DEF Frames
  <2>3. PICK l \in page, tokens \in BOOLEAN :
          \E next \in NextCursors(c, l.seq, PageAfter(l.seq) # {}, tokens) :
            run' = [run EXCEPT ![s] =
                     [@ EXCEPT !.pc = "land", !.page = page, !.todo = page,
                               !.last = l.seq, !.tokens = tokens, !.next = next]]
    BY <1>4 DEF FetchPage
  <2>4. PICK next \in NextCursors(c, l.seq, PageAfter(l.seq) # {}, tokens) :
          run' = [run EXCEPT ![s] =
                   [run[s] EXCEPT !.pc = "land", !.page = page, !.todo = page,
                                  !.last = l.seq, !.tokens = tokens, !.next = next]]
    BY <2>3
  <2> HIDE DEF page
  <2> QED BY <1>o, <2>2, <2>4
<1>5. CASE SkipDeleted(s)
  <2>1. \A p : [run[s] EXCEPT !.todo = @ \ {p}] \in Frames BY <1>0 DEF Frames
  <2> QED BY <1>5, <1>o, <2>1 DEF SkipDeleted
<1>6. CASE LandRaw(s)
  <2>1. [run[s] EXCEPT !.pc = "enqueue"] \in Frames BY <1>0 DEF Frames
  <2> QED BY <1>6, <1>o, <2>1 DEF LandRaw
<1>7. CASE AddIngest(s)
  <2>1. \A p : [run[s] EXCEPT !.pc = "land", !.todo = @ \ {p}] \in Frames
    BY <1>0 DEF Frames
  <2> QED BY <1>7, <1>o, <2>1 DEF AddIngest
<1>8. CASE Checkpoint(s)
  <2> DEFINE f == run[s]
  <2>1. Resume(f) \in Nat /\ f.next \in Nat BY <1>8, ResumeCovered
  <2>2. [Idle EXCEPT !.pc = IF LastPage(f) THEN "done" ELSE "fetch",
                     !.cursor = Resume(f), !.pageCursor = f.next] \in Frames
    BY <1>i, <2>1 DEF Frames
  <2> QED BY <1>8, <1>o, <2>2 DEF Checkpoint
<1>9. CASE Complete(s) \/ Fail(s) \/ LostLock(s)
  BY <1>9, <1>o, <1>i DEF Complete, Fail, LostLock
<1>10. CASE Throw(s)
  <2>1. [Idle EXCEPT !.pc = "thrown"] \in Frames BY <1>i DEF Frames
  <2> QED BY <1>10, <1>o, <2>1 DEF Throw
<1> QED BY <1>1, <1>2, <1>3, <1>4, <1>5, <1>6, <1>7, <1>8, <1>9, <1>10
        DEF SlotStep, Processor

\* What a landing or an add touches is of the record the page holds.
LEMMA TodoTypes ==
  ASSUME IInv, NEW s \in Slots, NEW p \in run[s].todo
  PROVE  p \in Snapshots
BY DEF IInv, TypeOK, Frames

\* Each step keeps the types; the cursor stays one the source has given out.
LEMMA TypeStep == IInv /\ [Next]_vars => TypeOK'
<1> SUFFICES ASSUME IInv, [Next]_vars PROVE TypeOK'
  OBVIOUS
<1>0. TypeOK BY DEF IInv
<1>1. ASSUME NEW r \in Records, Change(r) PROVE TypeOK'
  <2>1. \A gone \in BOOLEAN :
          [seq |-> clock + 1, ver |-> source[r].ver + 1, deleted |-> gone]
            \in [seq : Nat, ver : Nat, deleted : BOOLEAN]
    BY <1>0 DEF TypeOK
  <2>2. source' \in [Records -> [seq : Nat, ver : Nat, deleted : BOOLEAN]]
    BY <1>0, <1>1, <2>1 DEF Change, SourceChange, TypeOK
  <2>3. clock' \in Nat /\ cursor' <= clock' BY <1>0, <1>1 DEF Change, SourceChange, TypeOK
  <2> QED BY <1>0, <1>1, <2>2, <2>3 DEF Change, SourceChange, TypeOK
<1>2. CASE Trigger \/ RedisStep
  <2>1. job' \in JobTypes /\ job'.attemptsMade < Attempts
    BY <1>2, JobStep DEF RedisStep
  <2> QED BY <1>0, <1>2, <2>1 DEF RedisStep, Trigger, Promote, Stalled, TypeOK, JobTypes
<1>3. ASSUME NEW s \in Slots, SlotStep(s) \/ Throw(s) PROVE TypeOK'
  <2>1. run' \in [Slots -> Frames] BY <1>3, FrameTypes
  <2>2. source' = source /\ clock' = clock
    BY <1>3 DEF SlotStep, Processor, Take, Load, FetchNothing, FetchPage, SkipDeleted,
                LandRaw, AddIngest, Checkpoint, Complete, Fail, LostLock, Throw
  <2>3. job' \in JobTypes /\ job'.attemptsMade < Attempts
    <3>1. CASE Take(s) \/ Complete(s) \/ Fail(s) BY <3>1, JobStep
    <3>2. CASE job' = job BY <1>0, <3>2 DEF TypeOK, JobTypes
    <3> QED BY <1>3, <3>1, <3>2 DEF SlotStep, Processor, Load, FetchNothing, FetchPage,
                SkipDeleted, LandRaw, AddIngest, Checkpoint, LostLock, Throw
  <2>4. raw' \in [Records -> Nat]
    <3>1. CASE LandRaw(s)
      <4>1. PICK p \in run[s].todo : raw' = [raw EXCEPT ![p.rec] = p.ver]
        BY <3>1 DEF LandRaw
      <4>2. p.ver \in Nat BY TodoTypes DEF Snapshots
      <4> QED BY <1>0, <4>1, <4>2 DEF TypeOK
    <3>2. CASE raw' = raw BY <1>0, <3>2 DEF TypeOK
    <3> QED BY <1>3, <3>1, <3>2 DEF SlotStep, Processor, Take, Load, FetchNothing, FetchPage,
                SkipDeleted, AddIngest, Checkpoint, Complete, Fail, LostLock, Throw
  <2>5. enqueued' \subseteq [rec : Records, ver : Nat]
    <3>1. CASE AddIngest(s)
      <4>1. PICK p \in run[s].todo : enqueued' = enqueued \cup {[rec |-> p.rec, ver |-> p.ver]}
        BY <3>1 DEF AddIngest
      <4>2. p.rec \in Records /\ p.ver \in Nat BY TodoTypes DEF Snapshots
      <4> QED BY <1>0, <4>1, <4>2 DEF TypeOK
    <3>2. CASE enqueued' = enqueued BY <1>0, <3>2 DEF TypeOK
    <3> QED BY <1>3, <3>1, <3>2 DEF SlotStep, Processor, Take, Load, FetchNothing, FetchPage,
                SkipDeleted, LandRaw, Checkpoint, Complete, Fail, LostLock, Throw
  <2>6. cursor' \in Nat /\ cursor' <= clock
    <3>1. CASE Checkpoint(s) BY <3>1, ResumeCovered DEF Checkpoint
    <3>2. CASE cursor' = cursor BY <1>0, <3>2 DEF TypeOK
    <3> QED BY <1>3, <3>1, <3>2 DEF SlotStep, Processor, Take, Load, FetchNothing, FetchPage,
                SkipDeleted, LandRaw, AddIngest, Complete, Fail, LostLock, Throw
  <2> QED BY <1>0, <2>1, <2>2, <2>3, <2>4, <2>5, <2>6 DEF TypeOK, JobTypes
<1>4. ASSUME NEW s \in Slots, LockExpires(s) PROVE TypeOK'
  <2>1. job' \in JobTypes /\ job'.attemptsMade < Attempts BY <1>4, JobStep
  <2> QED BY <1>0, <1>4, <2>1 DEF LockExpires, TypeOK, JobTypes
<1>5. CASE Crash
  <2>1. job' \in JobTypes /\ job'.attemptsMade < Attempts BY <1>5, JobStep
  <2>2. run' \in [Slots -> Frames] BY <1>5, IdleOK DEF Crash
  <2> QED BY <1>0, <1>5, <2>1, <2>2 DEF Crash, TypeOK, JobTypes
<1>6. CASE UNCHANGED vars
  BY <1>0, <1>6 DEF vars, TypeOK
<1> QED BY <1>1, <1>2, <1>3, <1>4, <1>5, <1>6 DEF Next

-------------------------------------------------------------------------------
(* The shared state and the frames.                                            *)

\* Only a change in the source touches it.
LEMMA SourceSteps ==
  ASSUME [Next]_vars
  PROVE  UNCHANGED <<source, clock>> \/ \E r \in Records : Change(r)
BY DEF Next, Trigger, RedisStep, Promote, Stalled, SlotStep, Processor, Take, Load,
       FetchNothing, FetchPage, SkipDeleted, LandRaw, AddIngest, Checkpoint, Complete,
       Fail, LostLock, Throw, LockExpires, Crash, vars

\* A change gets the next seq and a version.
LEMMA ChangeStep ==
  ASSUME IInv, NEW r \in Records, Change(r)
  PROVE  /\ clock' = clock + 1
         /\ source' \in [Records -> [seq : Nat, ver : Nat, deleted : BOOLEAN]]
         /\ source'[r].seq = clock + 1 /\ source'[r].ver # 0
         /\ \A q \in Records : q # r => source'[q] = source[q]
<1>0. source \in [Records -> [seq : Nat, ver : Nat, deleted : BOOLEAN]] /\ clock \in Nat
  BY DEF IInv, TypeOK
<1>1. PICK gone \in BOOLEAN :
        source' = [source EXCEPT ![r] = [seq |-> clock + 1, ver |-> source[r].ver + 1,
                                         deleted |-> gone]]
  BY DEF Change, SourceChange
<1>2. source[r].ver \in Nat BY <1>0
<1>3. source'[r] = [seq |-> clock + 1, ver |-> source[r].ver + 1, deleted |-> gone]
  BY <1>0, <1>1
<1>4. source' \in [Records -> [seq : Nat, ver : Nat, deleted : BOOLEAN]]
  BY TypeStep, <1>0 DEF Next, TypeOK
<1> QED BY <1>0, <1>1, <1>2, <1>3, <1>4 DEF Change, SourceChange

\* The seqs stay unique and below the clock.
LEMMA SourceStep == IInv /\ [Next]_vars => SourceOK'
<1> SUFFICES ASSUME IInv, [Next]_vars PROVE SourceOK'
  OBVIOUS
<1>0. /\ source \in [Records -> [seq : Nat, ver : Nat, deleted : BOOLEAN]]
      /\ clock \in Nat /\ SourceOK
  BY DEF IInv, TypeOK
<1>1. CASE UNCHANGED <<source, clock>>
  BY <1>0, <1>1 DEF SourceOK
<1>2. ASSUME NEW r \in Records, Change(r) PROVE SourceOK'
  <2>1. /\ clock' = clock + 1
        /\ source'[r].seq = clock + 1 /\ source'[r].ver # 0
        /\ \A q \in Records : q # r => source'[q] = source[q]
    BY <1>2, ChangeStep
  <2>2. \A q \in Records : source[q].seq \in Nat /\ source[q].seq <= clock
    BY <1>0 DEF SourceOK
  <2>3. \A q \in Records : source'[q].seq <= clock'
    BY <1>0, <2>1, <2>2
  <2>4. \A q \in Records : source'[q].seq # 0 => source'[q].ver # 0
    BY <1>0, <2>1 DEF SourceOK
  <2>5. \A p, q \in Records : source'[p].seq = source'[q].seq /\ source'[p].seq # 0 => p = q
    <3> SUFFICES ASSUME NEW p \in Records, NEW q \in Records,
                        source'[p].seq = source'[q].seq, source'[p].seq # 0
                 PROVE  p = q
      OBVIOUS
    <3>1. CASE p # r /\ q # r BY <1>0, <2>1, <3>1 DEF SourceOK
    <3>2. CASE p = r /\ q # r BY <1>0, <2>1, <2>2, <3>2
    <3>3. CASE p # r /\ q = r BY <1>0, <2>1, <2>2, <3>3
    <3> QED BY <3>1, <3>2, <3>3
  <2> QED BY <2>3, <2>4, <2>5 DEF SourceOK
<1> QED BY <1>1, <1>2, SourceSteps

\* Every step leaves the shared state later than it was.
LEMMA LaterStep ==
  ASSUME IInv, [Next]_vars
  PROVE  Later(source, clock, raw, enqueued, source', clock', raw', enqueued')
<1>0. TypeOK /\ SourceOK BY DEF IInv
<1>1. clock <= clock' /\ \A r \in Records : source'[r].seq <= clock => source'[r] = source[r]
  <2>1. CASE UNCHANGED <<source, clock>> BY <1>0, <2>1 DEF TypeOK
  <2>2. ASSUME NEW r \in Records, Change(r)
        PROVE  clock <= clock' /\ \A q \in Records : source'[q].seq <= clock => source'[q] = source[q]
    BY <1>0, <2>2, ChangeStep DEF TypeOK
  <2> QED BY <2>1, <2>2, SourceSteps
<1>2. enqueued \subseteq enqueued'
  <2>1. enqueued' = enqueued \/ \E s \in Slots : AddIngest(s)
    BY DEF Next, Change, Trigger, RedisStep, Promote, Stalled, SlotStep, Processor, Take,
           Load, FetchNothing, FetchPage, SkipDeleted, LandRaw, Checkpoint, Complete,
           Fail, LostLock, Throw, LockExpires, Crash, vars
  <2> QED BY <2>1 DEF AddIngest
<1>3. \A r \in Records : raw[r] # 0 => raw'[r] # 0
  <2>1. CASE raw' = raw BY <2>1
  <2>2. ASSUME NEW s \in Slots, LandRaw(s)
        PROVE  \A r \in Records : raw[r] # 0 => raw'[r] # 0
    <3>1. PICK p \in run[s].todo : raw' = [raw EXCEPT ![p.rec] = p.ver]
      BY <2>2 DEF LandRaw
    <3>2. PageIn(source, clock, raw, enqueued, run[s])
      BY <2>2, PageFrame DEF LandRaw
    <3>3. p.ver # 0 BY <3>2 DEF PageIn
    <3> QED BY <1>0, <3>1, <3>3 DEF TypeOK
  <2>3. raw' = raw \/ \E s \in Slots : LandRaw(s)
    BY DEF Next, Change, Trigger, RedisStep, Promote, Stalled, SlotStep, Processor, Take,
           Load, FetchNothing, FetchPage, SkipDeleted, AddIngest, Checkpoint, Complete,
           Fail, LostLock, Throw, LockExpires, Crash, vars
  <2> QED BY <2>1, <2>2, <2>3
<1> QED BY <1>1, <1>2, <1>3 DEF Later

\* A frame outside a page relies on its two cursors only.
LEMMA OffPage ==
  ASSUME NEW src, NEW clk, NEW rw, NEW enq, NEW f, NEW g,
         FrameIn(src, clk, rw, enq, f),
         g.cursor = f.cursor, g.pageCursor = f.pageCursor, g.pc \notin {"land", "enqueue"}
  PROVE  FrameIn(src, clk, rw, enq, g)
BY DEF FrameIn

\* So what was covered, and what a frame relied on, still holds after any step.
LEMMA Carry ==
  ASSUME IInv, [Next]_vars
  PROVE  /\ CoveredIn(source', raw', enqueued', cursor)
         /\ \A s \in Slots : FrameIn(source', clock', raw', enqueued', run[s])
<1>1. Later(source, clock, raw, enqueued, source', clock', raw', enqueued')
  BY LaterStep
<1>2. TypeOK /\ TypeOK' BY TypeStep DEF IInv
<1>3. /\ source \in [Records -> [seq : Nat, ver : Nat, deleted : BOOLEAN]]
      /\ source' \in [Records -> [seq : Nat, ver : Nat, deleted : BOOLEAN]]
      /\ clock \in Nat /\ clock' \in Nat
      /\ cursor \in Nat /\ cursor <= clock
      /\ \A s \in Slots : run[s] \in Frames
  BY <1>2 DEF TypeOK
<1>4. CoveredIn(source, raw, enqueued, cursor)
      /\ \A s \in Slots : FrameIn(source, clock, raw, enqueued, run[s])
  BY DEF IInv, FramesOK
<1> QED BY <1>1, <1>3, <1>4, Survives

\* The cursor is moved by a checkpoint only, to a covered one.
LEMMA CursorStep ==
  ASSUME IInv, [Next]_vars
  PROVE  CoveredIn(source', raw', enqueued', cursor')
<1>1. cursor' = cursor \/ \E s \in Slots : Checkpoint(s)
  BY DEF Next, Change, Trigger, RedisStep, Promote, Stalled, SlotStep, Processor, Take,
         Load, FetchNothing, FetchPage, SkipDeleted, LandRaw, AddIngest, Complete,
         Fail, LostLock, Throw, LockExpires, Crash, vars
<1>2. CASE cursor' = cursor BY <1>2, Carry
<1>3. ASSUME NEW s \in Slots, Checkpoint(s)
      PROVE  CoveredIn(source', raw', enqueued', cursor')
  <2>1. CoveredIn(source, raw, enqueued, Resume(run[s])) BY <1>3, ResumeCovered
  <2>2. /\ source' = source /\ raw' = raw /\ enqueued' = enqueued
        /\ cursor' = Resume(run[s])
    BY <1>3 DEF Checkpoint
  <2> QED BY <2>1, <2>2
<1> QED BY <1>1, <1>2, <1>3

\* The page a fetch brings holds all up to its last record.
LEMMA FetchPageOK ==
  ASSUME IInv, NEW s \in Slots, FetchPage(s)
  PROVE  PageIn(source, clock, raw, enqueued, run'[s])
<1> DEFINE c == run[s].pageCursor
           page == {Snapshot(r) : r \in PageAfter(c)}
<1>0. /\ source \in [Records -> [seq : Nat, ver : Nat, deleted : BOOLEAN]]
      /\ run \in [Slots -> Frames] /\ run[s] \in Frames /\ clock \in Nat /\ SourceOK
  BY DEF IInv, TypeOK
<1>1. c \in Nat BY <1>0 DEF Frames
<1>2. \A r \in PageAfter(c) : r \in Records /\ source[r].seq # 0
  BY <1>0, <1>1 DEF PageAfter, Pending
<1>3. PICK l \in page, tokens \in BOOLEAN :
        \E next \in NextCursors(c, l.seq, PageAfter(l.seq) # {}, tokens) :
          run' = [run EXCEPT ![s] =
                   [@ EXCEPT !.pc = "land", !.page = page, !.todo = page,
                             !.last = l.seq, !.tokens = tokens, !.next = next]]
  BY DEF FetchPage
<1>4. PICK next \in NextCursors(c, l.seq, PageAfter(l.seq) # {}, tokens) :
        run' = [run EXCEPT ![s] =
                 [run[s] EXCEPT !.pc = "land", !.page = page, !.todo = page,
                                !.last = l.seq, !.tokens = tokens, !.next = next]]
  BY <1>3
<1>r. PICK rl \in PageAfter(c) : l = Snapshot(rl) OBVIOUS
<1>5. l.seq = source[rl].seq BY <1>r DEF Snapshot
<1>6. /\ run'[s].pc = "land" /\ run'[s].page = page /\ run'[s].todo = page
      /\ run'[s].last = source[rl].seq /\ run'[s].next = next
      /\ run'[s].pageCursor = c
  <2> HIDE DEF page
  <2> QED BY <1>0, <1>4, <1>5 DEF Frames
<1>7. next \in {0, c, source[rl].seq} BY <1>4, <1>5 DEF NextCursors
<1>8. source[rl].seq <= clock BY <1>0, <1>2 DEF SourceOK
<1>9. \A p \in page : p.ver # 0
  BY <1>0, <1>2 DEF SourceOK, Snapshot
<1>10. \A p, q \in page : p.seq = q.seq => p = q
  <2> SUFFICES ASSUME NEW p \in page, NEW q \in page, p.seq = q.seq PROVE p = q
    OBVIOUS
  <2>1. PICK rp \in PageAfter(c) : p = Snapshot(rp) OBVIOUS
  <2>2. PICK rq \in PageAfter(c) : q = Snapshot(rq) OBVIOUS
  <2>3. source[rp].seq = source[rq].seq BY <2>1, <2>2 DEF Snapshot
  <2>4. rp = rq BY <1>0, <1>2, <2>3 DEF SourceOK
  <2> QED BY <2>1, <2>2, <2>4
<1>11. ASSUME NEW r \in Records, c < source[r].seq, source[r].seq <= source[rl].seq
       PROVE  SnapIn(source, r) \in page
  <2>1. r \in PageAfter(c) BY <1>1, <1>11, PageComplete
  <2>2. SnapIn(source, r) = Snapshot(r) BY DEF SnapIn, Snapshot
  <2> QED BY <2>1, <2>2
<1> HIDE DEF page, c
<1> QED BY <1>6, <1>7, <1>8, <1>9, <1>10, <1>11 DEF PageIn

\* Done with a record: a tombstone, or landed and enqueued.
LEMMA DoneWith ==
  ASSUME IInv, NEW s \in Slots, NEW p \in run[s].todo,
         run[s].pc \in {"land", "enqueue"}, Delivered(raw', enqueued', p),
         PageIn(source, clock, raw', enqueued', run[s]),
         run' = [run EXCEPT ![s] = [run[s] EXCEPT !.pc = "land", !.todo = @ \ {p}]]
  PROVE  PageIn(source, clock, raw', enqueued', run'[s])
<1>1. run[s] \in Frames /\ run \in [Slots -> Frames] BY DEF IInv, TypeOK
<1>2. /\ run'[s].pc = "land" /\ run'[s].page = run[s].page
      /\ run'[s].todo = run[s].todo \ {p} /\ run'[s].last = run[s].last
      /\ run'[s].next = run[s].next /\ run'[s].pageCursor = run[s].pageCursor
  BY <1>1 DEF Frames
<1> QED BY <1>2 DEF PageIn

\* One slot's frame moved: the others are carried over.
LEMMA Moved ==
  ASSUME IInv, [Next]_vars, NEW s \in Slots, NEW f, run' = [run EXCEPT ![s] = f],
         FrameIn(source', clock', raw', enqueued', f)
  PROVE  FramesOK'
<1>1. run \in [Slots -> Frames] BY DEF IInv, TypeOK
<1>2. \A t \in Slots : run'[t] = IF t = s THEN f ELSE run[t] BY <1>1
<1> QED BY <1>2, Carry DEF FramesOK

\* The steps of a frame that is not at a page, or that leaves it.
LEMMA OffPageStep ==
  ASSUME IInv, [Next]_vars, NEW s \in Slots,
         \/ Take(s) \/ Load(s) \/ FetchNothing(s) \/ Checkpoint(s)
         \/ Complete(s) \/ Fail(s) \/ LostLock(s) \/ Throw(s)
  PROVE  FramesOK'
<1>0. /\ run \in [Slots -> Frames] /\ run[s] \in Frames /\ run[s] = run[s]
      /\ cursor \in Nat /\ cursor <= clock
  BY DEF IInv, TypeOK
<1>c. FrameIn(source', clock', raw', enqueued', run[s]) BY Carry
<1>i. FrameIn(source', clock', raw', enqueued', Idle)
  BY IdleOK, TypeStep DEF TypeOK
<1>1. CASE Take(s)
  <2> DEFINE g == [run[s] EXCEPT !.pc = IF job.stalls > MaxStalls THEN "over" ELSE "load"]
  <2>1. g.cursor = run[s].cursor /\ g.pageCursor = run[s].pageCursor
        /\ g.pc \notin {"land", "enqueue"}
    BY <1>0 DEF Frames
  <2>2. run' = [run EXCEPT ![s] = g] BY <1>1 DEF Take
  <2> HIDE DEF g
  <2>3. FrameIn(source', clock', raw', enqueued', g) BY <1>c, <2>1, OffPage
  <2> QED BY <2>2, <2>3, Moved
<1>2. CASE Load(s)
  <2> DEFINE g == [run[s] EXCEPT !.pc = "fetch", !.cursor = cursor, !.pageCursor = cursor]
  <2>1. g.cursor = cursor /\ g.pageCursor = cursor /\ g.pc = "fetch"
    BY <1>0 DEF Frames
  <2>2. run' = [run EXCEPT ![s] = g] /\ clock' = clock BY <1>2 DEF Load
  <2> HIDE DEF g
  <2>3. FrameIn(source', clock', raw', enqueued', g)
    BY <1>0, <2>1, <2>2, Carry DEF FrameIn
  <2> QED BY <2>2, <2>3, Moved
<1>3. CASE FetchNothing(s)
  <2> DEFINE g == [run[s] EXCEPT !.pc = "done"]
  <2>1. g.cursor = run[s].cursor /\ g.pageCursor = run[s].pageCursor
        /\ g.pc \notin {"land", "enqueue"}
    BY <1>0 DEF Frames
  <2>2. run' = [run EXCEPT ![s] = g] BY <1>3 DEF FetchNothing
  <2> HIDE DEF g
  <2>3. FrameIn(source', clock', raw', enqueued', g) BY <1>c, <2>1, OffPage
  <2> QED BY <2>2, <2>3, Moved
<1>4. CASE Checkpoint(s)
  <2> DEFINE f == run[s]
             g == [Idle EXCEPT !.pc = IF LastPage(f) THEN "done" ELSE "fetch",
                               !.cursor = Resume(f), !.pageCursor = f.next]
  <2>1. g.cursor = Resume(f) /\ g.pageCursor = f.next /\ g.pc \notin {"land", "enqueue"}
    BY DEF Idle
  <2>2. /\ run' = [run EXCEPT ![s] = g]
        /\ source' = source /\ clock' = clock /\ raw' = raw /\ enqueued' = enqueued
    BY <1>4 DEF Checkpoint
  <2>3. /\ Resume(f) <= clock /\ CoveredIn(source, raw, enqueued, Resume(f))
        /\ f.next <= clock /\ CoveredIn(source, raw, enqueued, f.next)
    BY <1>4, ResumeCovered
  <2> HIDE DEF g, f
  <2>4. FrameIn(source', clock', raw', enqueued', g) BY <2>1, <2>2, <2>3 DEF FrameIn
  <2> QED BY <2>2, <2>4, Moved
<1>5. CASE Complete(s) \/ Fail(s) \/ LostLock(s)
  <2>1. run' = [run EXCEPT ![s] = Idle] BY <1>5 DEF Complete, Fail, LostLock
  <2> QED BY <1>i, <2>1, Moved
<1>6. CASE Throw(s)
  <2> DEFINE g == [Idle EXCEPT !.pc = "thrown"]
  <2>1. g.cursor = Idle.cursor /\ g.pageCursor = Idle.pageCursor
        /\ g.pc \notin {"land", "enqueue"}
    BY DEF Idle
  <2>2. run' = [run EXCEPT ![s] = g] BY <1>6 DEF Throw
  <2> HIDE DEF g
  <2>3. FrameIn(source', clock', raw', enqueued', g) BY <1>i, <2>1, OffPage
  <2> QED BY <2>2, <2>3, Moved
<1> QED BY <1>1, <1>2, <1>3, <1>4, <1>5, <1>6

\* The steps of a frame at a page.
LEMMA OnPageStep ==
  ASSUME IInv, [Next]_vars, NEW s \in Slots,
         FetchPage(s) \/ SkipDeleted(s) \/ LandRaw(s) \/ AddIngest(s)
  PROVE  FramesOK'
<1>0. run \in [Slots -> Frames] /\ run[s] \in Frames /\ raw \in [Records -> Nat]
  BY DEF IInv, TypeOK
<1>c. FrameIn(source', clock', raw', enqueued', run[s]) BY Carry
<1>s. source' = source /\ clock' = clock
  BY DEF FetchPage, SkipDeleted, LandRaw, AddIngest
<1>m. ASSUME PageIn(source', clock', raw', enqueued', run'[s]),
             NEW f, run' = [run EXCEPT ![s] = f],
             f.cursor = run[s].cursor, f.pageCursor = run[s].pageCursor
      PROVE  FramesOK'
  <2>1. run'[s] = f BY <1>0, <1>m
  <2>2. FrameIn(source', clock', raw', enqueued', f)
    BY <1>c, <1>m, <2>1 DEF FrameIn
  <2> QED BY <1>m, <2>2, Moved
<1>1. CASE FetchPage(s)
  <2>1. PageIn(source', clock', raw', enqueued', run'[s])
    BY <1>1, FetchPageOK DEF FetchPage
  <2>2. run'[s].cursor = run[s].cursor /\ run'[s].pageCursor = run[s].pageCursor
        /\ run' = [run EXCEPT ![s] = run'[s]]
    <3> DEFINE c == run[s].pageCursor
               page == {Snapshot(r) : r \in PageAfter(c)}
    <3>1. PICK l \in page, tokens \in BOOLEAN :
            \E next \in NextCursors(c, l.seq, PageAfter(l.seq) # {}, tokens) :
              run' = [run EXCEPT ![s] =
                       [@ EXCEPT !.pc = "land", !.page = page, !.todo = page,
                                 !.last = l.seq, !.tokens = tokens, !.next = next]]
      BY <1>1 DEF FetchPage
    <3>2. PICK next \in NextCursors(c, l.seq, PageAfter(l.seq) # {}, tokens) :
            run' = [run EXCEPT ![s] =
                     [run[s] EXCEPT !.pc = "land", !.page = page, !.todo = page,
                                    !.last = l.seq, !.tokens = tokens, !.next = next]]
      BY <3>1
    <3> HIDE DEF page, c
    <3> QED BY <1>0, <3>2 DEF Frames
  <2> QED BY <1>m, <2>1, <2>2
<1>2. CASE SkipDeleted(s)
  <2>1. PICK p \in run[s].todo : p.deleted /\ run' = [run EXCEPT ![s].todo = @ \ {p}]
    BY <1>2 DEF SkipDeleted
  <2> DEFINE g == [run[s] EXCEPT !.pc = "land", !.todo = @ \ {p}]
  <2>2. run[s].pc = "land" BY <1>2 DEF SkipDeleted
  <2>3. [run[s] EXCEPT !.todo = @ \ {p}] = g BY <1>0, <2>2 DEF Frames
  <2>4. run' = [run EXCEPT ![s] = g] BY <2>1, <2>3
  <2>5. Delivered(raw', enqueued', p) BY <2>1 DEF Delivered
  <2>6. PageIn(source, clock, raw', enqueued', run[s])
    BY <1>c, <1>s, <2>2 DEF FrameIn
  <2>7. PageIn(source, clock, raw', enqueued', run'[s])
    BY <2>2, <2>4, <2>5, <2>6, DoneWith
  <2>8. g.cursor = run[s].cursor /\ g.pageCursor = run[s].pageCursor BY <1>0 DEF Frames
  <2> HIDE DEF g
  <2> QED BY <1>m, <1>s, <2>4, <2>7, <2>8
<1>3. CASE LandRaw(s)
  <2>1. PICK p \in run[s].todo :
          At(s, p) /\ raw' = [raw EXCEPT ![p.rec] = p.ver]
    BY <1>3 DEF LandRaw
  <2> DEFINE g == [run[s] EXCEPT !.pc = "enqueue"]
  <2>2. run[s].pc = "land" /\ run' = [run EXCEPT ![s] = g] BY <1>3 DEF LandRaw
  <2>3. PageIn(source, clock, raw', enqueued', run[s])
    BY <1>c, <1>s, <2>2 DEF FrameIn
  <2>4. run[s].todo \subseteq run[s].page /\ p.ver # 0
    BY <2>3 DEF PageIn
  <2>5. \A q \in run[s].todo : q.seq \in Nat /\ q.rec \in Records
    BY TodoTypes DEF Snapshots
  <2>6. ASSUME NEW q \in run[s].todo, \A t \in run[s].todo : q.seq <= t.seq
        PROVE  raw'[q.rec] # 0
    <3>1. q.seq <= p.seq /\ p.seq <= q.seq BY <2>1, <2>6 DEF At
    <3>2. q.seq = p.seq BY <2>5, <3>1
    <3>3. q = p BY <2>3, <2>4, <3>2 DEF PageIn
    <3> QED BY <1>0, <2>1, <2>4, <2>5, <3>3
  <2>7. /\ g.cursor = run[s].cursor /\ g.pageCursor = run[s].pageCursor
        /\ g.page = run[s].page /\ g.todo = run[s].todo /\ g.last = run[s].last
        /\ g.next = run[s].next
    BY <1>0 DEF Frames
  <2> HIDE DEF g
  <2>8. run'[s] = g BY <1>0, <2>2
  <2>9. PageIn(source, clock, raw', enqueued', run'[s])
    BY <2>3, <2>6, <2>7, <2>8 DEF PageIn
  <2> QED BY <1>m, <1>s, <2>2, <2>7, <2>9
<1>4. CASE AddIngest(s)
  <2>1. PICK p \in run[s].todo :
          /\ At(s, p)
          /\ enqueued' = enqueued \cup {[rec |-> p.rec, ver |-> p.ver]}
          /\ run' = [run EXCEPT ![s].pc = "land", ![s].todo = @ \ {p}]
    BY <1>4 DEF AddIngest
  <2> DEFINE g == [run[s] EXCEPT !.pc = "land", !.todo = @ \ {p}]
  <2>2. run[s].pc = "enqueue" /\ raw' = raw BY <1>4 DEF AddIngest
  <2>3. PageIn(source, clock, raw', enqueued', run[s])
    BY <1>c, <1>s, <2>2 DEF FrameIn
  <2>4. raw'[p.rec] # 0 BY <2>1, <2>2, <2>3 DEF PageIn, At
  <2>5. Delivered(raw', enqueued', p) BY <2>1, <2>4 DEF Delivered
  <2>6. run' = [run EXCEPT ![s] = g] BY <1>0, <2>1
  <2>7. PageIn(source, clock, raw', enqueued', run'[s])
    BY <2>2, <2>3, <2>5, <2>6, DoneWith
  <2>8. g.cursor = run[s].cursor /\ g.pageCursor = run[s].pageCursor BY <1>0 DEF Frames
  <2> HIDE DEF g
  <2> QED BY <1>m, <1>s, <2>6, <2>7, <2>8
<1> QED BY <1>1, <1>2, <1>3, <1>4

\* Every step keeps what the frames rely on.
LEMMA FramesStep == IInv /\ [Next]_vars => FramesOK'
<1> SUFFICES ASSUME IInv, [Next]_vars PROVE FramesOK'
  OBVIOUS
<1>1. CASE run' = run BY <1>1, Carry DEF FramesOK
<1>2. CASE Crash
  <2>1. \A s \in Slots : run'[s] = Idle BY <1>2 DEF Crash
  <2>2. FrameIn(source', clock', raw', enqueued', Idle)
    BY IdleOK, TypeStep DEF TypeOK
  <2> QED BY <2>1, <2>2 DEF FramesOK
<1>3. ASSUME NEW s \in Slots, SlotStep(s) \/ Throw(s) PROVE FramesOK'
  BY <1>3, OffPageStep, OnPageStep DEF SlotStep, Processor
<1>4. run' = run \/ Crash \/ \E s \in Slots : SlotStep(s) \/ Throw(s)
  BY DEF Next, Change, Trigger, RedisStep, Promote, Stalled, LockExpires, vars
<1> QED BY <1>1, <1>2, <1>3, <1>4

-------------------------------------------------------------------------------
(* Theorems.                                                                   *)

\* The invariant of the poller: types, distinct seqs in the source, a covered
\* cursor, and what every frame relies on, under failures, crashes, lost locks and
\* changes in the source.
THEOREM Inductive == Spec => []IInv
<1>1. Init => IInv BY InitIInv
<1>2. IInv /\ [Next]_vars => IInv'
  BY TypeStep, SourceStep, CursorStep, FramesStep DEF IInv
<1> QED BY <1>1, <1>2, PTL DEF Spec

\* Types; the cursor is one the source has given out, and no job outlives its
\* attempts.
THEOREM TypeCorrect == Spec => []TypeOK
<1>1. IInv => TypeOK BY DEF IInv
<1> QED BY <1>1, Inductive, PTL

\* reconcileProcessor never skips a record: what the durable cursor has passed is
\* in raw_records and has its ingest job.
THEOREM NeverSkips == Spec => []CursorCovers
<1>1. IInv => CursorCovers BY DEF IInv, CursorCovers, Covered, CoveredIn
<1> QED BY <1>1, Inductive, PTL

-------------------------------------------------------------------------------
(* One writer, as long as no lock is lost under a running slot.                *)

\* A lock is held on a running job only, and failures do not come back.
LockSound ==
  /\ job.lock \in Slots => job.state = "active"
  /\ left \in [Failures -> Nat] /\ \A k \in Failures : left[k] <= Budget[k]

\* Whoever is at work holds the job's lock.
Holders == \A s \in Slots : run[s].pc # "idle" => job.lock = s

\* The run has paged as far as the durable cursor.
CursorsAgree ==
  \A s \in Slots : run[s].pc \in {"fetch", "land", "enqueue"} =>
    run[s].cursor = cursor /\ run[s].pageCursor = cursor

\* A record of the page is as the source has it, or changed after all the page
\* covers; and what the page is done with is landed as the page has it.
PageNow(s) ==
  /\ run[s].last > run[s].pageCursor
  /\ \A p, q \in run[s].page : p.rec = q.rec => p = q
  /\ \A p \in run[s].page : p # Snapshot(p.rec) => source[p.rec].seq > run[s].last
  /\ \A p \in run[s].page : raw[p.rec] <= p.ver /\ p.ver <= source[p.rec].ver
  /\ \A p \in run[s].page \ run[s].todo : ~ p.deleted => raw[p.rec] = p.ver
  /\ run[s].pc = "enqueue" => \A p \in run[s].todo : At(s, p) => raw[p.rec] = p.ver

PagesNow == \A s \in Slots : run[s].pc \in {"land", "enqueue"} => PageNow(s)

\* No copy is newer than the record.
RawBehind == \A r \in Records : raw[r] <= source[r].ver

Single ==
  /\ Holders
  /\ CursorsAgree
  /\ PagesNow
  /\ RawIsCurrent
  /\ RawBehind

SInv == LockSound /\ (LocksHeld => Single)

LEMMA LockSoundStep ==
  ASSUME IInv, LockSound, Next
  PROVE  LockSound'
<1>0. /\ job \in JobTypes /\ NoJob.lock = NoSlot /\ NoJob \in JobTypes
      /\ NoSlot \notin Slots
  BY NoSlotAssumption, AttemptsAssumption DEF IInv, TypeOK, JobTypes, NoJob
<1>1. job'.lock \in Slots => job'.state = "active"
  <2>1. CASE UNCHANGED job BY <2>1 DEF LockSound
  <2>2. CASE Trigger
    <3>1. [NoJob EXCEPT !.state = "wait"].lock = NoSlot BY <1>0 DEF NoJob
    <3> QED BY <1>0, <2>2, <3>1 DEF Trigger
  <2>3. CASE Promote
    <3>1. job'.lock = job.lock BY <1>0, <2>3 DEF Promote, JobTypes
    <3>2. job.lock \notin Slots BY <2>3 DEF LockSound, Promote
    <3> QED BY <3>1, <3>2
  <2>4. CASE Stalled
    <3>1. job'.lock = job.lock /\ job.lock = NoSlot BY <1>0, <2>4 DEF Stalled, JobTypes
    <3> QED BY <1>0, <3>1
  <2>5. ASSUME NEW s \in Slots, Take(s) PROVE job'.state = "active"
    BY <1>0, <2>5 DEF Take, JobTypes
  <2>6. ASSUME NEW s \in Slots, Complete(s) PROVE job'.lock = NoSlot
    BY <1>0, <2>6 DEF Complete
  <2>7. ASSUME NEW s \in Slots, Fail(s) PROVE job'.lock = NoSlot
    <3>1. [job EXCEPT !.state = "delayed", !.lock = NoSlot, !.attemptsMade = @ + 1].lock = NoSlot
      BY <1>0 DEF JobTypes
    <3> QED BY <1>0, <2>7, <3>1 DEF Fail
  <2>8. ASSUME NEW s \in Slots, LockExpires(s) PROVE job'.lock = NoSlot
    BY <1>0, <2>8 DEF LockExpires, JobTypes
  <2>9. CASE Crash
    <3>1. job'.lock = NoSlot BY <1>0, <2>9 DEF Crash, JobTypes
    <3> QED BY <1>0, <3>1
  <2> QED BY <1>0, <2>1, <2>2, <2>3, <2>4, <2>5, <2>6, <2>7, <2>8, <2>9
          DEF Next, Change, RedisStep, SlotStep, Processor, Load, FetchNothing, FetchPage,
              SkipDeleted, LandRaw, AddIngest, Checkpoint, LostLock, Throw
<1>2. left' \in [Failures -> Nat] /\ \A k \in Failures : left'[k] <= Budget[k]
  <2>0. /\ left \in [Failures -> Nat] /\ \A k \in Failures : left[k] <= Budget[k]
        /\ \A k \in Failures : Budget[k] \in Nat
    BY BudgetAssumption DEF LockSound
  <2>1. CASE UNCHANGED left BY <2>0, <2>1
  <2>2. ASSUME NEW kind \in Failures \ {"any"}, Strike(kind)
        PROVE  left' \in [Failures -> Nat] /\ \A k \in Failures : left'[k] <= Budget[k]
    <3>1. /\ left[kind] \in Nat \ {0} /\ left["any"] \in Nat \ {0} /\ "any" \in Failures
      BY <2>0, <2>2 DEF Strike, Failures
    <3>2. /\ DOMAIN left' = Failures
          /\ \A k \in Failures : left'[k] = left[k] \/ (left'[k] = left[k] - 1 /\ left[k] # 0)
      BY <2>0, <2>2, <3>1 DEF Strike
    <3>3. left' = [k \in Failures |-> left'[k]] BY <2>0, <2>2 DEF Strike
    <3>4. ASSUME NEW k \in Failures PROVE left'[k] \in Nat /\ left'[k] <= Budget[k]
      <4>1. left[k] \in Nat /\ left[k] <= Budget[k] /\ Budget[k] \in Nat BY <2>0
      <4>2. left'[k] = left[k] \/ (left'[k] = left[k] - 1 /\ left[k] # 0) BY <3>2
      <4> QED BY <4>1, <4>2
    <3> QED BY <3>3, <3>4
  <2>3. UNCHANGED left \/ Strike("throw") \/ Strike("lock") \/ Strike("crash")
    BY DEF Next, Change, Trigger, RedisStep, Promote, Stalled, SlotStep, Processor, Take,
           Load, FetchNothing, FetchPage, SkipDeleted, LandRaw, AddIngest, Checkpoint,
           Complete, Fail, LostLock, Throw, LockExpires, Crash
  <2> QED BY <2>1, <2>2, <2>3 DEF Failures
<1> QED BY <1>1, <1>2 DEF LockSound

\* A lock that is lost stays lost.
LEMMA LocksHeldYet ==
  ASSUME IInv, LockSound, Next, LocksHeld'
  PROVE  LocksHeld /\ \A s \in Slots : ~ LockExpires(s)
<1>0. /\ left \in [Failures -> Nat] /\ \A k \in Failures : left[k] <= Budget[k]
      /\ \A k \in Failures : Budget[k] \in Nat
      /\ "lock" \in Failures /\ "throw" \in Failures /\ "crash" \in Failures
  BY BudgetAssumption DEF LockSound, Failures
<1>1. ~ Strike("lock")
  <2>1. SUFFICES ASSUME Strike("lock") PROVE FALSE OBVIOUS
  <2>2. left'["lock"] = left["lock"] - 1 BY <1>0, <2>1 DEF Strike
  <2>3. left["lock"] \in Nat /\ Budget["lock"] \in Nat /\ left["lock"] <= Budget["lock"]
    BY <1>0
  <2> QED BY <2>2, <2>3 DEF LocksHeld
<1>2. UNCHANGED left \/ Strike("throw") \/ Strike("crash")
  BY <1>1 DEF Next, Change, Trigger, RedisStep, Promote, Stalled, SlotStep, Processor, Take,
           Load, FetchNothing, FetchPage, SkipDeleted, LandRaw, AddIngest, Checkpoint,
           Complete, Fail, LostLock, Throw, LockExpires, Crash
<1>3. left'["lock"] = left["lock"] BY <1>0, <1>2 DEF Strike
<1> QED BY <1>1, <1>3 DEF LocksHeld, LockExpires

\* Without a lock on the job nobody is at work.
LEMMA NobodyWorks ==
  ASSUME LockSound, Holders, job.state # "active"
  PROVE  \A s \in Slots : run[s].pc = "idle"
BY DEF LockSound, Holders

\* Once nobody is at work there is nothing to be sure of but what the cursor covers.
LEMMA SingleIfIdle ==
  ASSUME RawIsCurrent, RawBehind, UNCHANGED <<source, cursor, raw>>,
         \A s \in Slots : run'[s].pc = "idle"
  PROVE  Single'
BY DEF Single, Holders, CursorsAgree, PagesNow, RawIsCurrent, RawBehind

\* The one at work moved on: the others are idle and stay so.
LEMMA SingleIfMoved ==
  ASSUME IInv, Holders, NEW s \in Slots, run[s].pc # "idle", NEW f,
         run' = [run EXCEPT ![s] = f], UNCHANGED job,
         f.pc \in {"fetch", "land", "enqueue"} => f.cursor = cursor' /\ f.pageCursor = cursor',
         f.pc \in {"land", "enqueue"} => PageNow(s)',
         RawIsCurrent', RawBehind'
  PROVE  Single'
<1>1. run \in [Slots -> Frames] BY DEF IInv, TypeOK
<1>2. job.lock = s BY DEF Holders
<1>3. run'[s] = f /\ \A t \in Slots : t # s => run'[t] = run[t] BY <1>1
<1>4. \A t \in Slots : t # s => run'[t].pc = "idle" BY <1>2, <1>3 DEF Holders
<1> QED BY <1>2, <1>3, <1>4 DEF Single, Holders, CursorsAgree, PagesNow

\* A change in the source is newer than all that a page or the cursor covers.
LEMMA SingleChange ==
  ASSUME IInv, Single, NEW r \in Records, Change(r)
  PROVE  Single'
<1>0. /\ source \in [Records -> [seq : Nat, ver : Nat, deleted : BOOLEAN]]
      /\ clock \in Nat /\ cursor \in Nat /\ cursor <= clock
      /\ raw \in [Records -> Nat]
      /\ \A s \in Slots : run[s] \in Frames
  BY DEF IInv, TypeOK
<1>1. PICK gone \in BOOLEAN :
        source' = [source EXCEPT ![r] = [seq |-> clock + 1, ver |-> @.ver + 1, deleted |-> gone]]
  BY DEF Change, SourceChange
<1>2. /\ source'[r].seq = clock + 1 /\ source'[r].ver = source[r].ver + 1
      /\ \A q \in Records : q # r => source'[q] = source[q]
  BY <1>0, <1>1
<1>2a. \A q \in Records : source[q].ver <= source'[q].ver
  <2> SUFFICES ASSUME NEW q \in Records PROVE source[q].ver <= source'[q].ver OBVIOUS
  <2>1. source[q].ver \in Nat BY <1>0
  <2> QED BY <1>2, <2>1
<1>3. UNCHANGED <<cursor, raw, enqueued, job, run>> BY DEF Change
<1>4. RawIsCurrent'
  <2> SUFFICES ASSUME NEW q \in Records, source'[q].seq \in 1 .. cursor, ~ source'[q].deleted
               PROVE  raw[q] = source'[q].ver
    BY <1>3 DEF RawIsCurrent
  <2>1. q # r BY <1>0, <1>2
  <2> QED BY <1>2, <2>1 DEF Single, RawIsCurrent
<1>5. ASSUME NEW s \in Slots, run[s].pc \in {"land", "enqueue"} PROVE PageNow(s)'
  <2>1. PageNow(s) /\ PageIn(source, clock, raw, enqueued, run[s])
    BY <1>5 DEF Single, PagesNow, IInv, FramesOK, FrameIn
  <2>2. run[s].last <= clock /\ run[s].last \in Nat /\ run[s].page \subseteq Snapshots
    BY <1>0, <2>1 DEF PageIn, Frames
  <2>3. ASSUME NEW p \in run[s].page, p # Snapshot(p.rec)'
        PROVE  source'[p.rec].seq > run[s].last
    <3>0. p.rec \in Records BY <2>2 DEF Snapshots
    <3>1. CASE p.rec = r BY <1>0, <1>2, <2>2, <3>1
    <3>2. CASE p.rec # r
      <4>1. source'[p.rec] = source[p.rec] BY <1>2, <3>0, <3>2
      <4>2. p # Snapshot(p.rec) BY <2>3, <4>1 DEF Snapshot
      <4> QED BY <2>1, <4>1, <4>2 DEF PageNow
    <3> QED BY <3>1, <3>2
  <2>4. ASSUME NEW p \in run[s].page
        PROVE  raw[p.rec] <= p.ver /\ p.ver <= source'[p.rec].ver
    <3>0. p.rec \in Records /\ p.ver \in Nat BY <2>2 DEF Snapshots
    <3>1. source[p.rec].ver \in Nat /\ source[p.rec].ver <= source'[p.rec].ver
          /\ source'[p.rec].ver \in Nat
      BY <1>0, <1>2, <1>2a, <3>0
    <3> QED BY <2>1, <3>0, <3>1 DEF PageNow
  <2> QED BY <1>3, <2>1, <2>3, <2>4 DEF PageNow, At
<1>6. RawBehind'
  <2> SUFFICES ASSUME NEW q \in Records PROVE raw[q] <= source'[q].ver
    BY <1>3 DEF RawBehind
  <2>1. raw[q] \in Nat /\ source[q].ver \in Nat /\ source'[q].ver \in Nat
    BY <1>0, <1>2
  <2> QED BY <1>2a, <2>1 DEF Single, RawBehind
<1> QED BY <1>3, <1>4, <1>5, <1>6 DEF Single, Holders, CursorsAgree, PagesNow

\* A step of the queue that leaves nobody at work, or puts one slot to work.
LEMMA SingleJob ==
  ASSUME IInv, LockSound, Single,
         \/ Trigger \/ Promote \/ Stalled \/ Crash
         \/ \E s \in Slots : Take(s) \/ Complete(s) \/ Fail(s) \/ LostLock(s)
  PROVE  Single'
<1>0. /\ run \in [Slots -> Frames] /\ NoSlot \notin Slots /\ Idle.pc = "idle"
      /\ job \in JobTypes
  BY NoSlotAssumption DEF IInv, TypeOK, Idle, JobTypes
<1>h. Holders /\ RawIsCurrent /\ RawBehind BY DEF Single
<1>1. CASE Trigger \/ Promote \/ Stalled
  <2>1. \A s \in Slots : run[s].pc = "idle"
    BY <1>0, <1>1, <1>h DEF Trigger, Promote, Stalled, Holders, LockSound
  <2>2. UNCHANGED <<source, cursor, raw, run>> BY <1>1 DEF Trigger, Promote, Stalled
  <2> QED BY <1>h, <2>1, <2>2, SingleIfIdle
<1>2. CASE Crash
  <2>1. \A s \in Slots : run'[s].pc = "idle" BY <1>0, <1>2 DEF Crash
  <2> QED BY <1>2, <1>h, <2>1, SingleIfIdle DEF Crash
<1>3. ASSUME NEW s \in Slots, Complete(s) \/ Fail(s) PROVE Single'
  <2>1. /\ run' = [run EXCEPT ![s] = Idle] /\ job.lock = s
        /\ UNCHANGED <<source, cursor, raw>>
    BY <1>3 DEF Complete, Fail
  <2>2. \A t \in Slots : run'[t].pc = "idle" BY <1>0, <1>h, <2>1 DEF Holders
  <2> QED BY <1>h, <2>1, <2>2, SingleIfIdle
<1>4. ASSUME NEW s \in Slots, LostLock(s) PROVE Single'
  BY <1>4, <1>h DEF LostLock, Holders
<1>5. ASSUME NEW s \in Slots, Take(s) PROVE Single'
  <2> DEFINE pc == IF job.stalls > MaxStalls THEN "over" ELSE "load"
  <2>1. \A t \in Slots : run[t].pc = "idle"
    <3>1. job.state # "active" BY <1>5 DEF Take
    <3> QED BY <1>h, <3>1, NobodyWorks
  <2>2. job'.lock = s BY <1>0, <1>5 DEF Take, JobTypes
  <2>3. /\ run' = [run EXCEPT ![s].pc = pc] /\ UNCHANGED <<source, cursor, raw>>
    BY <1>5 DEF Take
  <2>4. pc \in {"over", "load"} OBVIOUS
  <2> HIDE DEF pc
  <2>5. run'[s].pc = pc /\ \A t \in Slots : t # s => run'[t] = run[t]
    BY <1>0, <2>3 DEF Frames
  <2>6. \A t \in Slots : run'[t].pc # "idle" => t = s BY <2>1, <2>5
  <2>7. \A t \in Slots : run'[t].pc \notin {"fetch", "land", "enqueue"}
    BY <2>1, <2>4, <2>5
  <2>8. RawIsCurrent' /\ RawBehind' BY <1>h, <2>3 DEF RawIsCurrent, RawBehind
  <2> QED BY <2>2, <2>6, <2>7, <2>8 DEF Single, Holders, CursorsAgree, PagesNow
<1> QED BY <1>1, <1>2, <1>3, <1>4, <1>5

\* What a step at the page of slot s may use.
LEMMA AtPage ==
  ASSUME IInv, Single, NEW s \in Slots, run[s].pc \in {"land", "enqueue"}
  PROVE  /\ PageNow(s) /\ PageIn(source, clock, raw, enqueued, run[s])
         /\ run[s].cursor = cursor /\ run[s].pageCursor = cursor
         /\ cursor < run[s].last
         /\ run[s].page \subseteq Snapshots /\ run[s].todo \subseteq run[s].page
<1>1. PageNow(s) /\ PageIn(source, clock, raw, enqueued, run[s])
  BY DEF Single, PagesNow, IInv, FramesOK, FrameIn
<1>2. run[s] \in Frames BY DEF IInv, TypeOK
<1> QED BY <1>1, <1>2 DEF Single, CursorsAgree, PageNow, PageIn, Frames

\* The page is what the source has at the fetch.
LEMMA SingleFetchPage ==
  ASSUME IInv, Single, NEW s \in Slots, FetchPage(s)
  PROVE  Single'
<1> DEFINE c == run[s].pageCursor
           page == {Snapshot(r) : r \in PageAfter(c)}
<1>0. /\ run \in [Slots -> Frames] /\ run[s] \in Frames /\ c \in Nat
      /\ source \in [Records -> [seq : Nat, ver : Nat, deleted : BOOLEAN]]
  BY DEF IInv, TypeOK, Frames
<1>1. PICK l \in page, tokens \in BOOLEAN :
        \E next \in NextCursors(c, l.seq, PageAfter(l.seq) # {}, tokens) :
          run' = [run EXCEPT ![s] =
                   [@ EXCEPT !.pc = "land", !.page = page, !.todo = page,
                             !.last = l.seq, !.tokens = tokens, !.next = next]]
  BY DEF FetchPage
<1>2. PICK next \in NextCursors(c, l.seq, PageAfter(l.seq) # {}, tokens) :
        run' = [run EXCEPT ![s] =
                 [run[s] EXCEPT !.pc = "land", !.page = page, !.todo = page,
                                !.last = l.seq, !.tokens = tokens, !.next = next]]
  BY <1>1
<1>3. \A p \in page : p.rec \in Records /\ p = Snapshot(p.rec) /\ p.seq > c
  BY <1>0 DEF PageAfter, Pending, Snapshot
<1>4. run[s].pc = "fetch" /\ UNCHANGED <<source, clock, cursor, raw, enqueued, job, left>>
  BY DEF FetchPage
<1> HIDE DEF page
<1> DEFINE f == [run[s] EXCEPT !.pc = "land", !.page = page, !.todo = page,
                               !.last = l.seq, !.tokens = tokens, !.next = next]
<1>5. /\ f.pc = "land" /\ f.page = page /\ f.todo = page /\ f.last = l.seq
      /\ f.cursor = run[s].cursor /\ f.pageCursor = c
  BY <1>0 DEF Frames
<1>6. run' = [run EXCEPT ![s] = f] BY <1>2
<1> HIDE DEF f
<1>7. run'[s] = f BY <1>0, <1>6
<1>8. PageNow(s)'
  <2>1. \A p \in page : p = Snapshot(p.rec)' BY <1>3, <1>4 DEF Snapshot
  <2>2. ASSUME NEW p \in page
        PROVE  (raw[p.rec] <= p.ver /\ p.ver <= source[p.rec].ver)'
    <3>1. p.ver = source[p.rec].ver /\ source[p.rec].ver \in Nat
      BY <1>0, <1>3 DEF Snapshot
    <3> QED BY <1>3, <1>4, <3>1 DEF Single, RawBehind
  <2> QED BY <1>3, <1>5, <1>7, <2>1, <2>2 DEF PageNow
<1>9. f.cursor = cursor' /\ f.pageCursor = cursor'
  BY <1>4, <1>5 DEF Single, CursorsAgree
<1>10. RawIsCurrent' /\ RawBehind' BY <1>4 DEF Single, RawIsCurrent, RawBehind
<1>11. Holders /\ run[s].pc # "idle" BY <1>4 DEF Single
<1> QED BY <1>4, <1>5, <1>6, <1>8, <1>9, <1>10, <1>11, SingleIfMoved

\* What is landed is as the source has it, or of a record the cursor does not cover.
LEMMA SingleLandRaw ==
  ASSUME IInv, Single, NEW s \in Slots, LandRaw(s)
  PROVE  Single'
<1>0. /\ run \in [Slots -> Frames] /\ run[s] \in Frames
      /\ source \in [Records -> [seq : Nat, ver : Nat, deleted : BOOLEAN]]
      /\ raw \in [Records -> Nat] /\ cursor \in Nat
  BY DEF IInv, TypeOK
<1>1. PICK p \in run[s].todo : At(s, p) /\ ~p.deleted /\ raw' = [raw EXCEPT ![p.rec] = p.ver]
  BY DEF LandRaw
<1> DEFINE f == [run[s] EXCEPT !.pc = "enqueue"]
<1>2. /\ run[s].pc = "land" /\ run' = [run EXCEPT ![s] = f]
      /\ UNCHANGED <<source, clock, cursor, enqueued, job, left>>
  BY DEF LandRaw
<1>3. f = [run[s] EXCEPT !.pc = "enqueue"] OBVIOUS
<1>4. /\ f.pc = "enqueue" /\ f.cursor = run[s].cursor /\ f.pageCursor = run[s].pageCursor
      /\ f.page = run[s].page /\ f.todo = run[s].todo /\ f.last = run[s].last
  BY <1>0, <1>3 DEF Frames
<1> HIDE DEF f
<1>5. /\ PageNow(s) /\ PageIn(source, clock, raw, enqueued, run[s])
      /\ run[s].cursor = cursor /\ run[s].pageCursor = cursor
      /\ cursor < run[s].last
      /\ run[s].page \subseteq Snapshots /\ run[s].todo \subseteq run[s].page
  BY <1>2, AtPage
<1>6. run'[s] = f BY <1>0, <1>2
<1>7. p \in Snapshots /\ p.rec \in Records /\ p \in run[s].page BY <1>5 DEF Snapshots
<1>8. raw'[p.rec] = p.ver /\ \A q \in Records : q # p.rec => raw'[q] = raw[q]
  BY <1>0, <1>1, <1>7
<1>9. RawIsCurrent'
  <2> SUFFICES ASSUME NEW q \in Records, source[q].seq \in 1 .. cursor, ~ source[q].deleted
               PROVE  raw'[q] = source[q].ver
    BY <1>2 DEF RawIsCurrent
  <2>1. CASE q = p.rec
    <3>1. p = Snapshot(p.rec) \/ source[p.rec].seq > run[s].last
      BY <1>5, <1>7 DEF PageNow
    <3>2. run[s].last \in Nat /\ source[p.rec].seq <= cursor BY <1>0, <2>1 DEF Frames
    <3>3. p = Snapshot(p.rec) BY <1>0, <1>5, <1>7, <3>1, <3>2
    <3>4. p.ver = source[p.rec].ver BY <3>3 DEF Snapshot
    <3> QED BY <1>8, <2>1, <3>4
  <2>2. CASE q # p.rec BY <1>8, <2>2 DEF Single, RawIsCurrent
  <2> QED BY <2>1, <2>2
<1>10. PageNow(s)'
  <2>1. \A q \in run[s].page : q # p => q.rec # p.rec BY <1>5, <1>7 DEF PageNow
  <2>2. \A q \in run[s].page : q # p => raw'[q.rec] = raw[q.rec]
    BY <1>5, <1>8, <2>1 DEF Snapshots
  <2>3. \A q \in run[s].page \ run[s].todo : ~ q.deleted => raw'[q.rec] = q.ver
    BY <1>5, <2>2 DEF PageNow
  <2>4. ASSUME NEW q \in run[s].todo, At(s, q) PROVE q = p
    <3>1. q.seq <= p.seq /\ p.seq <= q.seq BY <1>1, <2>4 DEF At
    <3>2. q.seq \in Nat /\ p.seq \in Nat BY <1>5 DEF Snapshots
    <3>3. q.seq = p.seq BY <3>1, <3>2
    <3> QED BY <1>5, <3>3 DEF PageIn
  <2>5. ASSUME NEW q \in run[s].todo, \A r \in run[s].todo : q.seq <= r.seq
        PROVE  raw'[q.rec] = q.ver
    <3>1. At(s, q) BY <2>5 DEF At
    <3> QED BY <1>8, <2>4, <3>1
  <2>6. \A q : Snapshot(q)' = Snapshot(q) BY <1>2 DEF Snapshot
  <2>7. ASSUME NEW q \in run[s].page PROVE raw'[q.rec] <= q.ver
    <3>1. q.ver \in Nat BY <1>5 DEF Snapshots
    <3> QED BY <1>5, <1>8, <2>2, <2>7, <3>1 DEF PageNow
  <2> QED BY <1>2, <1>4, <1>5, <1>6, <2>3, <2>5, <2>6, <2>7 DEF PageNow, At
<1>11. Holders /\ run[s].pc # "idle" BY <1>2 DEF Single
<1>12. RawBehind'
  <2>1. p.ver <= source[p.rec].ver BY <1>5, <1>7 DEF PageNow
  <2> QED BY <1>2, <1>8, <2>1 DEF Single, RawBehind
<1> QED BY <1>2, <1>4, <1>5, <1>9, <1>10, <1>11, <1>12, SingleIfMoved

\* A record the page is done with is a tombstone or landed as the page has it.
LEMMA SingleDone ==
  ASSUME IInv, Single, NEW s \in Slots, SkipDeleted(s) \/ AddIngest(s)
  PROVE  Single'
<1>0. run \in [Slots -> Frames] /\ run[s] \in Frames
  BY DEF IInv, TypeOK
<1>1. PICK p \in run[s].todo :
        /\ At(s, p) /\ (p.deleted \/ run[s].pc = "enqueue")
        /\ run' = [run EXCEPT ![s] = [run[s] EXCEPT !.pc = "land", !.todo = @ \ {p}]]
  <2>1. CASE SkipDeleted(s)
    <3>1. PICK p \in run[s].todo :
            At(s, p) /\ p.deleted /\ run' = [run EXCEPT ![s].todo = @ \ {p}]
      BY <2>1 DEF SkipDeleted
    <3>2. [run[s] EXCEPT !.pc = "land", !.todo = @ \ {p}] = [run[s] EXCEPT !.todo = @ \ {p}]
      BY <1>0, <2>1 DEF Frames, SkipDeleted
    <3>3. run' = [run EXCEPT ![s] = [run[s] EXCEPT !.todo = @ \ {p}]] BY <1>0, <3>1
    <3> QED BY <3>1, <3>2, <3>3
  <2>2. CASE AddIngest(s) BY <1>0, <2>2 DEF AddIngest
  <2> QED BY <2>1, <2>2
<1>2. /\ run[s].pc \in {"land", "enqueue"}
      /\ UNCHANGED <<source, clock, cursor, raw, job, left>>
  BY DEF SkipDeleted, AddIngest
<1> DEFINE f == [run[s] EXCEPT !.pc = "land", !.todo = @ \ {p}]
<1>3. run' = [run EXCEPT ![s] = f] BY <1>1
<1>4. /\ f.pc = "land" /\ f.cursor = run[s].cursor /\ f.pageCursor = run[s].pageCursor
      /\ f.page = run[s].page /\ f.todo = run[s].todo \ {p} /\ f.last = run[s].last
  BY <1>0 DEF Frames
<1> HIDE DEF f
<1>5. PageNow(s) /\ run[s].cursor = cursor /\ run[s].pageCursor = cursor
  BY <1>2, AtPage
<1>6. run'[s] = f BY <1>0, <1>3
<1>7. ~ p.deleted => raw[p.rec] = p.ver BY <1>1, <1>5 DEF PageNow
<1>8. PageNow(s)'
  <2>1. \A q : Snapshot(q)' = Snapshot(q) BY <1>2 DEF Snapshot
  <2> QED BY <1>2, <1>4, <1>5, <1>6, <1>7, <2>1 DEF PageNow
<1>9. RawIsCurrent' /\ RawBehind' BY <1>2 DEF Single, RawIsCurrent, RawBehind
<1>10. Holders /\ run[s].pc # "idle" BY <1>2 DEF Single
<1> QED BY <1>2, <1>3, <1>4, <1>5, <1>8, <1>9, <1>10, SingleIfMoved

\* Where a checkpoint takes the cursors: to the last record of the page, unless the
\* answer named no such cursor; and a run that goes on pages from there.
LEMMA CheckpointMoves ==
  ASSUME IInv, Single, NEW s \in Slots, Checkpoint(s)
  PROVE  /\ Resume(run[s]) \in {cursor, run[s].last}
         /\ cursor <= Resume(run[s])
         /\ ~ LastPage(run[s]) =>
              run[s].next = run[s].last /\ Resume(run[s]) = run[s].last
<1>1. run[s].pc = "land" BY DEF Checkpoint, PageDone
<1>2. /\ run[s].cursor = cursor /\ run[s].pageCursor = cursor /\ cursor < run[s].last
      /\ run[s].next \in {0, run[s].pageCursor, run[s].last}
  BY <1>1, AtPage DEF PageIn
<1>3. cursor \in Nat /\ run[s].last \in Nat BY DEF IInv, TypeOK, Frames
<1> QED BY <1>2, <1>3 DEF Resume, LastPage

\* All that a checkpoint passes was on the page, and is landed as the source has it.
LEMMA SingleCheckpoint ==
  ASSUME IInv, Single, NEW s \in Slots, Checkpoint(s)
  PROVE  Single'
<1> DEFINE g == [Idle EXCEPT !.pc = IF LastPage(run[s]) THEN "done" ELSE "fetch",
                             !.cursor = Resume(run[s]), !.pageCursor = run[s].next]
<1>0. /\ run[s].pc = "land" /\ run[s].todo = {} /\ cursor' = Resume(run[s])
      /\ run' = [run EXCEPT ![s] = g]
      /\ UNCHANGED <<source, clock, raw, enqueued, job, left>>
  BY DEF Checkpoint, PageDone
<1>1. /\ g.pc = (IF LastPage(run[s]) THEN "done" ELSE "fetch")
      /\ g.cursor = Resume(run[s]) /\ g.pageCursor = run[s].next
  BY DEF Idle
<1> HIDE DEF g
<1>2. /\ PageNow(s) /\ PageIn(source, clock, raw, enqueued, run[s])
      /\ run[s].pageCursor = cursor /\ cursor < run[s].last
  BY <1>0, AtPage
<1>3. /\ source \in [Records -> [seq : Nat, ver : Nat, deleted : BOOLEAN]]
      /\ cursor \in Nat /\ run[s].last \in Nat
  BY DEF IInv, TypeOK, Frames
<1>4. RawIsCurrent'
  <2> SUFFICES ASSUME NEW r \in Records, source[r].seq \in 1 .. Resume(run[s]),
                      ~ source[r].deleted
               PROVE  raw[r] = source[r].ver
    BY <1>0 DEF RawIsCurrent
  <2>0. source[r].seq \in Nat BY <1>3
  <2>1. CASE source[r].seq <= cursor BY <1>3, <2>0, <2>1 DEF Single, RawIsCurrent
  <2>2. CASE cursor < source[r].seq
    <3>1. source[r].seq <= run[s].last BY <1>3, <2>0, <2>2, CheckpointMoves
    <3>2. SnapIn(source, r) \in run[s].page BY <1>2, <2>2, <3>1 DEF PageIn
    <3>3. /\ SnapIn(source, r).rec = r /\ SnapIn(source, r).ver = source[r].ver
          /\ SnapIn(source, r).deleted = source[r].deleted
      BY DEF SnapIn
    <3> QED BY <1>0, <1>2, <3>2, <3>3 DEF PageNow
  <2> QED BY <1>3, <2>0, <2>1, <2>2
<1>5. g.pc = "fetch" => g.cursor = cursor' /\ g.pageCursor = cursor'
  BY <1>0, <1>1, CheckpointMoves
<1>6. g.pc \notin {"land", "enqueue"} BY <1>1
<1>7. Holders /\ run[s].pc # "idle" BY <1>0 DEF Single
<1>8. RawBehind' BY <1>0 DEF Single, RawBehind
<1> QED BY <1>0, <1>4, <1>5, <1>6, <1>7, <1>8, SingleIfMoved

\* The steps that only enter, end or break off a run.
LEMMA SingleOff ==
  ASSUME IInv, Single, NEW s \in Slots, Load(s) \/ FetchNothing(s) \/ Throw(s)
  PROVE  Single'
<1>0. run \in [Slots -> Frames] /\ run[s] \in Frames BY DEF IInv, TypeOK
<1>1. /\ run[s].pc # "idle" /\ Holders /\ UNCHANGED <<source, cursor, raw, job>>
  BY DEF Load, FetchNothing, Throw, Single
<1>2. RawIsCurrent' /\ RawBehind' BY <1>1 DEF Single, RawIsCurrent, RawBehind
<1>3. PICK f : /\ run' = [run EXCEPT ![s] = f] /\ f.pc \notin {"land", "enqueue"}
               /\ f.pc = "fetch" => f.cursor = cursor /\ f.pageCursor = cursor
  <2>1. CASE Load(s)
    <3> DEFINE f == [run[s] EXCEPT !.pc = "fetch", !.cursor = cursor, !.pageCursor = cursor]
    <3>1. f.pc = "fetch" /\ f.cursor = cursor /\ f.pageCursor = cursor
      BY <1>0 DEF Frames
    <3>2. run' = [run EXCEPT ![s] = f] BY <1>0, <2>1 DEF Load
    <3> HIDE DEF f
    <3> QED BY <3>1, <3>2
  <2>2. CASE FetchNothing(s)
    <3> DEFINE f == [run[s] EXCEPT !.pc = "done"]
    <3>1. f.pc = "done" BY <1>0 DEF Frames
    <3>2. run' = [run EXCEPT ![s] = f] BY <1>0, <2>2 DEF FetchNothing
    <3> HIDE DEF f
    <3> QED BY <3>1, <3>2
  <2>3. CASE Throw(s)
    <3> DEFINE f == [Idle EXCEPT !.pc = "thrown"]
    <3>1. f.pc = "thrown" BY DEF Idle
    <3>2. run' = [run EXCEPT ![s] = f] BY <2>3 DEF Throw
    <3> HIDE DEF f
    <3> QED BY <3>1, <3>2
  <2> QED BY <2>1, <2>2, <2>3
<1> QED BY <1>1, <1>2, <1>3, SingleIfMoved

LEMMA SingleStep ==
  ASSUME IInv, SInv, [Next]_vars
  PROVE  SInv'
<1>1. CASE UNCHANGED vars
  BY <1>1 DEF vars, SInv, LockSound, LocksHeld, Single, Holders, CursorsAgree, PagesNow,
              PageNow, At, Snapshot, RawIsCurrent, RawBehind
<1>2. CASE Next
  <2>1. LockSound' BY <1>2, LockSoundStep DEF SInv
  <2>2. ASSUME LocksHeld' PROVE Single'
    <3>1. Single /\ LockSound /\ \A s \in Slots : ~ LockExpires(s)
      BY <1>2, <2>2, LocksHeldYet DEF SInv
    <3> QED BY <1>2, <3>1, SingleChange, SingleJob, SingleFetchPage, SingleLandRaw,
               SingleDone, SingleCheckpoint, SingleOff
            DEF Next, RedisStep, SlotStep, Processor
  <2> QED BY <2>1, <2>2 DEF SInv
<1> QED BY <1>1, <1>2

-------------------------------------------------------------------------------

\* The invariant of the poller while no lock has been lost: whoever is at work holds
\* the job's lock, has paged as far as the durable cursor, and lands the page as the
\* source had it at the fetch.
THEOREM InductiveSingle == Spec => []SInv
<1>1. Init => SInv
  <2> SUFFICES ASSUME Init PROVE SInv OBVIOUS
  <2>1. LockSound
    BY BudgetAssumption, NoSlotAssumption DEF Init, LockSound, NoJob
  <2>2. Single
    BY DEF Init, SourceInit, Idle, Single, Holders, CursorsAgree, PagesNow, RawIsCurrent,
           RawBehind
  <2> QED BY <2>1, <2>2 DEF SInv
<1> QED BY <1>1, SingleStep, Inductive, PTL DEF Spec

\* Two runs of one key's job are never at work at once, unless a lock was lost under
\* a running slot: the deterministic jobId keeps the cursor single-writer.
THEOREM OneWriter == Spec => []SingleWriter
<1>1. SInv => SingleWriter
  BY DEF SInv, Single, Holders, SingleWriter, Busy
<1> QED BY <1>1, InductiveSingle, PTL

\* As long, raw_records holds the present version of what the cursor covers: a
\* copy that went stale on its page is of a record the cursor has yet to reach.
THEOREM RawStaysCurrent == Spec => [](LocksHeld => RawIsCurrent)
<1>1. SInv => (LocksHeld => RawIsCurrent) BY DEF SInv, Single
<1> QED BY <1>1, InductiveSingle, PTL

\* A checkpoint moves the cursor forward, or leaves it.
LEMMA CursorStepsForward ==
  ASSUME IInv, SInv, LocksHeld, [Next]_vars
  PROVE  cursor' = cursor \/ cursor <= cursor'
<1>1. cursor' = cursor \/ \E s \in Slots : Checkpoint(s)
  BY DEF Next, Change, Trigger, RedisStep, Promote, Stalled, SlotStep, Processor, Take,
         Load, FetchNothing, FetchPage, SkipDeleted, LandRaw, AddIngest, Complete,
         Fail, LostLock, Throw, LockExpires, Crash, vars
<1>2. ASSUME NEW s \in Slots, Checkpoint(s) PROVE cursor <= cursor'
  BY <1>2, CheckpointMoves DEF SInv, Checkpoint
<1> QED BY <1>1, <1>2

\* CursorNeverRegresses: the durable cursor does not move back, as long as no lock
\* has been lost.
THEOREM CursorKeepsGround == Spec => CursorNeverRegresses
<1>1. IInv /\ SInv /\ [Next]_vars => [LocksHeld => cursor <= cursor']_cursor
  BY CursorStepsForward
<1> QED BY <1>1, Inductive, InductiveSingle, PTL DEF Spec, CursorNeverRegresses

\* A landing writes a copy that is as new as the one that is there.
LEMMA RawStepsForward ==
  ASSUME IInv, SInv, LocksHeld, [Next]_vars
  PROVE  raw' = raw \/ \A r \in Records : raw[r] <= raw'[r]
<1>1. raw' = raw \/ \E s \in Slots : LandRaw(s)
  BY DEF Next, Change, Trigger, RedisStep, Promote, Stalled, SlotStep, Processor, Take,
         Load, FetchNothing, FetchPage, SkipDeleted, AddIngest, Checkpoint, Complete,
         Fail, LostLock, Throw, LockExpires, Crash, vars
<1>2. ASSUME NEW s \in Slots, LandRaw(s), NEW r \in Records PROVE raw[r] <= raw'[r]
  <2>1. PICK p \in run[s].todo : raw' = [raw EXCEPT ![p.rec] = p.ver]
    BY <1>2 DEF LandRaw
  <2>2. run[s].pc \in {"land", "enqueue"} /\ Single BY <1>2 DEF LandRaw, SInv
  <2>3. raw[p.rec] <= p.ver BY <2>2, AtPage DEF PageNow
  <2>4. raw \in [Records -> Nat] BY DEF IInv, TypeOK
  <2>5. raw[r] \in Nat BY <2>4
  <2> QED BY <2>1, <2>3, <2>4, <2>5
<1> QED BY <1>1, <1>2

\* RawNeverRegresses: no copy in raw_records gives way to an older one, as long as no
\* lock has been lost: a copy on a page is as new as the one that is there.
THEOREM RawKeepsGround == Spec => RawNeverRegresses
<1>1. IInv /\ SInv /\ [Next]_vars
        => [LocksHeld => \A r \in Records : raw[r] <= raw'[r]]_raw
  BY RawStepsForward
<1> QED BY <1>1, Inductive, InductiveSingle, PTL DEF Spec, RawNeverRegresses

===============================================================================
