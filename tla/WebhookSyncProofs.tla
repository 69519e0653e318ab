-------------------------- MODULE WebhookSyncProofs ---------------------------
(* Proofs about WebhookSync, for every set of slots and records, every page    *)
(* size, every number of attempts and every budget of failures.  The           *)
(* properties are strengthened to IInv: what the types leave open (TypeInv),   *)
(* that no two changes of the source share a place in it (SourceSound), that a *)
(* job covers the past only (JobsSound), what a page still to be landed may    *)
(* hold (PagesSound), that a document found is one of the record's own         *)
(* (FoundSound), that a run has in hand, or ahead of its cursor, whatever its  *)
(* job covers and it has not handed over (RunsCover), and, as long as no two   *)
(* slots were busy at once, the same of raw_records (SerialSound).             *)
EXTENDS WebhookSync, SequenceTheorems, FiniteSetTheorems, WellFoundedInduction, TLAPS

Sources == [seq : Nat, ver : Nat, deleted : BOOLEAN]

Notifications == [since : Nat, upto : Nat, success : BOOLEAN]

Jobs == [since : Nat, upto : Nat,
         state : {"wait", "active", "delayed", "completed", "failed"},
         attemptsMade : Nat, stalls : Nat, lock : Slots \cup {NoSlot}]

Frames == [pc : {"over", "fetch", "land", "write", "enqueue", "done", "thrown"},
           job : JobIds, todo : SUBSET Snapshots, next : Nat, found : Nat]

Docs == [rec : Records, ver : Nat]

TypeInv ==
  /\ source \in [Records -> Sources] /\ clock \in Nat
  /\ notified \in Nat /\ inbox \subseteq Notifications
  /\ jobs \in Seq(Jobs)
  /\ run \in [Slots -> Frames \cup {Idle}]
  /\ raw \in Seq(Docs) /\ enqueued \subseteq Docs
  /\ left \in [Failures -> Nat]
  /\ \A k \in Failures : left[k] <= Budget[k]

\* Every change has its own place, the latest of them at the clock.
SourceSound ==
  /\ \A r \in Records : source[r].seq <= clock
  /\ \A q, r \in Records : source[q].seq = source[r].seq /\ source[r].seq # 0 => q = r

\* A job covers what had changed when it was notified, and nothing later.
JobsSound ==
  /\ notified <= clock
  /\ \A n \in inbox : n.upto <= clock
  /\ \A j \in JobIds : jobs[j].upto <= clock

\* The records of a page differ in their places, and are as the source has them
\* unless they changed since.
PagesSound ==
  \A s \in Slots :
    /\ \A p, q \in run[s].todo : p.seq = q.seq => p = q
    /\ \A p \in run[s].todo :
         /\ p.seq <= source[p.rec].seq
         /\ p.seq = source[p.rec].seq => p = Snapshot(p.rec)

HasDoc(r) == \E d \in DocIds : raw[d].rec = r

FoundSound ==
  \A s \in Slots : \A p \in run[s].todo :
    At(s, p) =>
      /\ run[s].pc = "write" /\ run[s].found # 0 =>
           run[s].found \in DocIds /\ raw[run[s].found].rec = p.rec
      /\ run[s].pc = "enqueue" => HasDoc(p.rec)

\* The run has still to come to the record.
Ahead(s, r) ==
  \/ run[s].pc = "fetch" /\ source[r].seq > Since(s)
  \/ /\ run[s].pc \in {"land", "write", "enqueue"}
     /\ \/ Snapshot(r) \in run[s].todo
        \/ run[s].next # 0 /\ source[r].seq > run[s].next

Working(s) == run[s].pc \in {"fetch", "land", "write", "enqueue", "done"}

Handed(r) == [rec |-> r, ver |-> source[r].ver] \in enqueued

RunsCover ==
  \A s \in Slots : \A j \in JobIds : Working(s) /\ run[s].job = j =>
    \A r \in Window(j) : Handed(r) \/ Ahead(s, r)

Landed(r) == \E d \in DocIds : raw[d] = [rec |-> r, ver |-> source[r].ver]

OneSlot == \A s, t \in Slots : run[s] # Idle /\ run[t] # Idle => s = t

\* A record about to be inserted has no document, and one just written is there.
WritesSound ==
  \A s \in Slots : \A p \in run[s].todo :
    At(s, p) =>
      /\ run[s].pc = "write" /\ run[s].found = 0 => ~HasDoc(p.rec)
      /\ run[s].pc = "enqueue" => \E d \in DocIds : raw[d] = [rec |-> p.rec, ver |-> p.ver]

\* A record that changed after its page was read changed too late for the job
\* that read it, and for every job completed by then.
LateChanges ==
  \A s \in Slots : \A p \in run[s].todo : \A j \in JobIds :
    p.seq < source[p.rec].seq /\ (run[s].job = j \/ j \in Completed) =>
      source[p.rec].seq > jobs[j].upto

RunsLand ==
  \A s \in Slots : \A j \in JobIds : Working(s) /\ run[s].job = j =>
    \A r \in Window(j) : Landed(r) \/ Ahead(s, r)

Serial ==
  /\ OneSlot
  /\ WritesSound
  /\ LateChanges
  /\ RunsLand
  /\ OneRawPerRecord
  /\ CompletedLanded

SerialSound == Struck("overlap") \/ Serial

IInv ==
  /\ TypeInv
  /\ SourceSound
  /\ JobsSound
  /\ PagesSound
  /\ FoundSound
  /\ RunsCover
  /\ CompletedCovers
  /\ EnqueuedIsLanded
  /\ SerialSound

-------------------------------------------------------------------------------
(* What a page holds.                                                          *)

\* A set of numbers that is not empty has a least one.
LEMMA Least ==
  ASSUME NEW S \in SUBSET Nat, S # {}
  PROVE  \E m \in S : \A n \in S : m <= n
<1> DEFINE R == {p \in Nat \X Nat : p[1] < p[2]}
<1>1. IsWellFoundedOn(R, Nat) BY NatLessThanWellFounded DEF OpToRel
<1>2. \A m, n \in Nat : <<n, m>> \in R \/ m <= n OBVIOUS
<1> HIDE DEF R
<1>3. \E m \in S : \A n \in S : ~ (<<n, m>> \in R) BY <1>1, WFMin
<1> QED BY <1>2, <1>3

\* A set of numbers up to a bound that is not empty has a greatest one.
LEMMA Greatest ==
  ASSUME NEW n \in Nat, NEW S \in SUBSET (0 .. n), S # {}
  PROVE  \E m \in S : \A k \in S : k <= m
<1> DEFINE T == {n - k : k \in S}
<1>1. T \in SUBSET Nat /\ T # {}
  <2>1. \A k \in S : k \in Nat /\ n - k \in Nat OBVIOUS
  <2>2. T \subseteq Nat BY <2>1
  <2>3. PICK k \in S : TRUE OBVIOUS
  <2>4. n - k \in T OBVIOUS
  <2> QED BY <2>2, <2>4
<1>2. \A k \in S : n - k \in T OBVIOUS
<1>3. \A t \in T : \E k \in S : t = n - k OBVIOUS
<1> HIDE DEF T
<1>4. PICK t \in T : \A u \in T : t <= u BY <1>1, Least
<1>5. PICK m \in S : t = n - m BY <1>3, <1>4
<1>6. \A k \in S : n - m <= n - k BY <1>2, <1>4, <1>5
<1> QED BY <1>6

\* Of the records that changed after the cursor, a page holds the first.
LEMMA PageIsFirst ==
  ASSUME source \in [Records -> Sources], NEW c \in Nat,
         NEW r \in Pending(c), r \notin PageAfter(c), NEW q \in PageAfter(c)
  PROVE  source[q].seq < source[r].seq
<1>1. SUFFICES ASSUME ~ (source[q].seq < source[r].seq) PROVE FALSE
  OBVIOUS
<1>2. q \in Records /\ r \in Records /\ source[q].seq \in Nat /\ source[r].seq \in Nat
  BY DEF PageAfter, Pending, Sources
<1>3. Before(r, c) \subseteq Before(q, c)
  BY <1>1, <1>2 DEF Before, Pending, Sources
<1>4. IsFiniteSet(Before(q, c))
  BY RecordsAssumption, FS_Subset DEF Before, Pending
<1>5. /\ Cardinality(Before(r, c)) <= Cardinality(Before(q, c))
      /\ Cardinality(Before(r, c)) \in Nat /\ Cardinality(Before(q, c)) \in Nat
  BY <1>3, <1>4, FS_Subset, FS_CardinalityType
<1> QED BY <1>5, PageSizeAssumption DEF PageAfter

\* The page after a cursor is empty only when nothing changed after it.
LEMMA PageIsNotEmpty ==
  ASSUME source \in [Records -> Sources], NEW c \in Nat, Pending(c) # {}
  PROVE  PageAfter(c) # {}
<1> DEFINE S == {source[r].seq : r \in Pending(c)}
<1>1. S \in SUBSET Nat /\ S # {} BY DEF Pending, Sources
<1>2. \A q \in Pending(c) : source[q].seq \in S OBVIOUS
<1>3. \A n \in S : \E q \in Pending(c) : n = source[q].seq OBVIOUS
<1> HIDE DEF S
<1>4. PICK m \in S : \A n \in S : m <= n BY <1>1, Least
<1>5. PICK r \in Pending(c) : m = source[r].seq BY <1>3
<1>6. \A q \in Pending(c) : source[r].seq <= source[q].seq /\ source[q].seq \in Nat
  BY <1>1, <1>2, <1>4, <1>5
<1>7. Before(r, c) = {} BY <1>6 DEF Before
<1>8. Cardinality(Before(r, c)) = 0 BY <1>7, FS_EmptySet
<1> QED BY <1>8, PageSizeAssumption DEF PageAfter

\* A token is the one that was given, or the place of one of the page's records.
LEMMA CursorInPage ==
  ASSUME TypeInv, NEW c \in Nat, NEW given \in Nat,
         NEW next \in NextCursors(given, {Snapshot(r) : r \in PageAfter(c)}), next # 0
  PROVE  \/ next = given
         \/ \E q \in PageAfter(c) : next = source[q].seq
<1> DEFINE page == {Snapshot(r) : r \in PageAfter(c)}
<1>1. next = given \/ next \in Ends(page) BY DEF NextCursors
<1>2. CASE next \in Ends(page)
  <2>1. PICK p \in page : next = p.seq BY <1>2 DEF Ends
  <2>2. PICK q \in PageAfter(c) : p = Snapshot(q) OBVIOUS
  <2> QED BY <2>1, <2>2 DEF Snapshot
<1> QED BY <1>1, <1>2

\* A page with its cursor leaves nothing out: a record that changed after the
\* page's start is in it, or the next page is to start before the record.  The
\* token given is where the page started, if there was one.
LEMMA PageCovers ==
  ASSUME TypeInv, SourceSound, NEW c \in Nat, NEW given \in {0, c},
         NEW next \in NextCursors(given, {Snapshot(q) : q \in PageAfter(c)}),
         NEW r \in Records, source[r].seq > c
  PROVE  \/ r \in PageAfter(c)
         \/ next # 0 /\ source[r].seq > next
<1>1. SUFFICES ASSUME r \notin PageAfter(c) PROVE next # 0 /\ source[r].seq > next
  OBVIOUS
<1>2. source \in [Records -> Sources] /\ clock \in Nat BY DEF TypeInv
<1>3. r \in Pending(c) BY DEF Pending
<1>4. \A q \in PageAfter(c) : source[q].seq < source[r].seq
  BY <1>1, <1>2, <1>3, PageIsFirst
<1>5. CASE next # 0
  <2>1. next = given \/ \E q \in PageAfter(c) : next = source[q].seq
    BY <1>5, CursorInPage
  <2> QED BY <1>4, <1>5, <2>1
<1>6. CASE next = 0
  <2> DEFINE page == {Snapshot(q) : q \in PageAfter(c)}
             places == {source[q].seq : q \in PageAfter(c)}
  <2>1. PageAfter(c) # {} BY <1>2, <1>3, PageIsNotEmpty
  <2>2. PageAfter(c) \subseteq Records BY DEF PageAfter, Pending
  <2>3. places \in SUBSET (0 .. clock) /\ places # {}
    BY <1>2, <2>1, <2>2 DEF SourceSound, Sources
  <2>4. PICK q \in PageAfter(c) : \A k \in PageAfter(c) : source[k].seq <= source[q].seq
    <3>1. \A k \in PageAfter(c) : source[k].seq \in places OBVIOUS
    <3>2. \A n \in places : \E k \in PageAfter(c) : n = source[k].seq OBVIOUS
    <3> HIDE DEF places
    <3>3. PICK m \in places : \A k \in places : k <= m BY <1>2, <2>3, Greatest
    <3> QED BY <3>1, <3>2, <3>3
  <2>5. source[q].seq \in Nat /\ source[q].seq > c /\ source[r].seq \in Nat
    BY <1>2, <2>2 DEF Sources, PageAfter, Pending
  <2>6. source[q].seq < source[r].seq BY <1>4
  <2>7. Pending(source[q].seq) # {} BY <2>6, <2>5 DEF Pending
  <2>8. PageAfter(source[q].seq) # {} BY <1>2, <2>5, <2>7, PageIsNotEmpty
  <2>9. Snapshot(q) \in page /\ Snapshot(q).seq = source[q].seq BY DEF Snapshot
  <2>10. \A p \in page : p.seq <= Snapshot(q).seq
    BY <2>4, <2>9 DEF Snapshot
  <2>10a. source[q].seq \in Ends(page) BY <2>9, <2>10 DEF Ends
  <2>11. 0 \in {p.seq : p \in page}
    BY <1>6, <2>8, <2>10a DEF NextCursors, Ends
  <2>12. PICK k \in PageAfter(c) : source[k].seq = 0 BY <2>11 DEF Snapshot
  <2> QED BY <1>2, <2>2, <2>12 DEF PageAfter, Pending, Sources
<1> QED BY <1>5, <1>6

-------------------------------------------------------------------------------
(* What a step does to the jobs.                                               *)

\* A job id names a job.
LEMMA JobTypes ==
  ASSUME TypeInv
  PROVE  /\ JobIds = 1 .. Len(jobs) /\ Len(jobs) \in Nat
         /\ \A j \in JobIds : jobs[j] \in Jobs
BY LenProperties, ElementOfSeq DEF TypeInv, JobIds

\* A slot at work has a frame, and the job it names; an idle one has no page.
LEMMA RunTypes ==
  ASSUME TypeInv, NEW s \in Slots
  PROVE  /\ run[s] = Idle <=> run[s].pc = "idle"
         /\ run[s] # Idle => run[s] \in Frames /\ run[s].job \in JobIds
         /\ run[s].todo \subseteq Snapshots /\ run[s].next \in Nat /\ run[s].found \in Nat
         /\ run[s] = Idle => run[s].todo = {} /\ ~ Working(s)
BY DEF TypeInv, Frames, Idle, Working

\* The jobs there were stay, with what they cover; a job added covers what a
\* notification tells it.
JobsKept ==
  /\ jobs' \in Seq(Jobs) /\ JobIds \subseteq JobIds'
  /\ \A j \in JobIds : jobs'[j].since = jobs[j].since /\ jobs'[j].upto = jobs[j].upto
  /\ \A j \in JobIds' : j \in JobIds \/ \E n \in inbox : jobs'[j].upto = n.upto

\* No job becomes completed.
NoneCompletes ==
  \A j \in JobIds' : jobs'[j].state = "completed" => j \in Completed

LEMMA JobsUnchanged ==
  ASSUME TypeInv, UNCHANGED jobs
  PROVE  JobsKept /\ NoneCompletes
BY DEF TypeInv, JobsKept, NoneCompletes, JobIds, Completed

LEMMA JobAdded ==
  ASSUME TypeInv, NEW n \in inbox, jobs' = Append(jobs, NewJob(n))
  PROVE  JobsKept /\ NoneCompletes
<1>1. JobIds = 1 .. Len(jobs) /\ Len(jobs) \in Nat BY JobTypes
<1>2. NewJob(n) \in Jobs BY DEF NewJob, Jobs, TypeInv, Notifications
<1>3. NewJob(n).upto = n.upto /\ NewJob(n).state # "completed" BY DEF NewJob
<1> DEFINE S == Jobs
<1>4. jobs \in Seq(S) /\ NewJob(n) \in S BY <1>2 DEF TypeInv
<1> HIDE DEF S
<1>5. /\ jobs' \in Seq(S) /\ Len(jobs') = Len(jobs) + 1
      /\ \A i \in 1 .. Len(jobs) : jobs'[i] = jobs[i]
      /\ jobs'[Len(jobs) + 1] = NewJob(n)
  BY <1>4, AppendProperties
<1>6. JobIds' = 1 .. Len(jobs') BY <1>5, LenProperties DEF JobIds
<1>7. JobIds' = JobIds \cup {Len(jobs) + 1} BY <1>1, <1>5, <1>6
<1>8. JobsKept BY <1>1, <1>3, <1>5, <1>7 DEF JobsKept, S
<1>9. NoneCompletes BY <1>1, <1>3, <1>5, <1>7 DEF NoneCompletes, Completed
<1> QED BY <1>8, <1>9

LEMMA JobRewritten ==
  ASSUME TypeInv, NEW j \in JobIds, NEW f \in Jobs, jobs' = [jobs EXCEPT ![j] = f],
         f.since = jobs[j].since, f.upto = jobs[j].upto
  PROVE  /\ JobsKept /\ JobIds' = JobIds
         /\ jobs'[j] = f /\ \A i \in JobIds : i # j => jobs'[i] = jobs[i]
         /\ f.state # "completed" \/ f.state = jobs[j].state => NoneCompletes
<1>1. JobIds = 1 .. Len(jobs) /\ Len(jobs) \in Nat BY JobTypes
<1> DEFINE S == Jobs
<1>2. jobs \in Seq(S) /\ f \in S BY DEF TypeInv
<1> HIDE DEF S
<1>3. /\ jobs' \in Seq(S) /\ Len(jobs') = Len(jobs)
      /\ \A i \in 1 .. Len(jobs) : jobs'[i] = IF i = j THEN f ELSE jobs[i]
  BY <1>1, <1>2, ExceptSeq
<1>4. JobIds' = 1 .. Len(jobs') BY <1>3, LenProperties DEF JobIds
<1>5. JobIds' = JobIds BY <1>1, <1>3, <1>4
<1>6. JobsKept BY <1>1, <1>3, <1>5 DEF JobsKept, S
<1>7. f.state # "completed" \/ f.state = jobs[j].state => NoneCompletes
  BY <1>1, <1>3, <1>5 DEF NoneCompletes, Completed
<1> QED BY <1>1, <1>3, <1>5, <1>6, <1>7

LEMMA TakeJobs ==
  ASSUME TypeInv, NEW s \in Slots, NEW j \in JobIds, Take(s, j)
  PROVE  JobsKept /\ NoneCompletes
<1> DEFINE f == [jobs[j] EXCEPT !.state = "active", !.lock = s]
<1>1. jobs[j] \in Jobs BY JobTypes
<1>2. f \in Jobs /\ f.since = jobs[j].since /\ f.upto = jobs[j].upto /\ f.state = "active"
  BY <1>1 DEF Jobs
<1>3. jobs' = [jobs EXCEPT ![j] = f] BY DEF Take
<1> HIDE DEF f
<1> QED BY <1>2, <1>3, JobRewritten

\* Only the slot that reports it done completes a job.
LEMMA CompleteJobs ==
  ASSUME TypeInv, NEW s \in Slots, Complete(s)
  PROVE  /\ JobsKept
         /\ \A i \in JobIds' : jobs'[i].state = "completed" => i \in Completed \/ i = run[s].job
<1> DEFINE j == run[s].job
           f == [jobs[j] EXCEPT !.state = "completed", !.lock = NoSlot]
<1>0. j \in JobIds BY RunTypes DEF Complete
<1>1. jobs[j] \in Jobs BY <1>0, JobTypes
<1>2. f \in Jobs /\ f.since = jobs[j].since /\ f.upto = jobs[j].upto
  BY <1>1 DEF Jobs
<1>3. jobs' = [jobs EXCEPT ![j] = f] BY DEF Complete
<1> HIDE DEF f
<1>4. JobsKept /\ JobIds' = JobIds /\ \A i \in JobIds : i # j => jobs'[i] = jobs[i]
  BY <1>0, <1>2, <1>3, JobRewritten
<1> QED BY <1>4 DEF Completed

LEMMA FailJobs ==
  ASSUME TypeInv, NEW s \in Slots, Fail(s)
  PROVE  JobsKept /\ NoneCompletes
<1> DEFINE j == run[s].job
           again == run[s].pc = "thrown" /\ jobs[j].attemptsMade + 1 < Attempts
           state == IF again THEN "delayed" ELSE "failed"
           f == [jobs[j] EXCEPT !.state = state, !.attemptsMade = jobs[j].attemptsMade + 1,
                                !.lock = NoSlot]
<1>0. j \in JobIds BY RunTypes DEF Fail
<1>1. jobs[j] \in Jobs /\ jobs[j].attemptsMade + 1 \in Nat BY <1>0, JobTypes DEF Jobs
<1>2. jobs' = [jobs EXCEPT ![j] = f] BY DEF Fail
<1>3. state \in {"delayed", "failed"} OBVIOUS
<1> HIDE DEF state
<1>4. f \in Jobs /\ f.since = jobs[j].since /\ f.upto = jobs[j].upto /\ f.state = state
  BY <1>1, <1>3 DEF Jobs
<1> HIDE DEF f
<1> QED BY <1>0, <1>2, <1>3, <1>4, JobRewritten

LEMMA PromoteJobs ==
  ASSUME TypeInv, NEW j \in JobIds, Promote(j)
  PROVE  JobsKept /\ NoneCompletes
<1> DEFINE f == [jobs[j] EXCEPT !.state = "wait"]
<1>1. jobs[j] \in Jobs BY JobTypes
<1>2. f \in Jobs /\ f.since = jobs[j].since /\ f.upto = jobs[j].upto /\ f.state = "wait"
  BY <1>1 DEF Jobs
<1>3. jobs' = [jobs EXCEPT ![j] = f] BY DEF Promote
<1> HIDE DEF f
<1> QED BY <1>2, <1>3, JobRewritten

LEMMA StalledJobs ==
  ASSUME TypeInv, NEW j \in JobIds, Stalled(j)
  PROVE  JobsKept /\ NoneCompletes
<1> DEFINE f == [jobs[j] EXCEPT !.state = "wait", !.stalls = jobs[j].stalls + 1]
<1>1. jobs[j] \in Jobs /\ jobs[j].stalls + 1 \in Nat BY JobTypes DEF Jobs
<1>2. f \in Jobs /\ f.since = jobs[j].since /\ f.upto = jobs[j].upto /\ f.state = "wait"
  BY <1>1 DEF Jobs
<1>3. jobs' = [jobs EXCEPT ![j] = f] BY DEF Stalled
<1> HIDE DEF f
<1> QED BY <1>2, <1>3, JobRewritten

LEMMA LockExpiresJobs ==
  ASSUME TypeInv, NEW s \in Slots, LockExpires(s)
  PROVE  JobsKept /\ NoneCompletes
<1> DEFINE j == run[s].job
           f == [jobs[j] EXCEPT !.lock = NoSlot]
<1>0. j \in JobIds BY RunTypes DEF LockExpires
<1>1. jobs[j] \in Jobs BY <1>0, JobTypes
<1>2. /\ f \in Jobs /\ f.since = jobs[j].since /\ f.upto = jobs[j].upto
      /\ f.state = jobs[j].state
  BY <1>1 DEF Jobs
<1>3. jobs' = [jobs EXCEPT ![j] = f] BY DEF LockExpires
<1> HIDE DEF f
<1> QED BY <1>0, <1>2, <1>3, JobRewritten

LEMMA CrashJobs ==
  ASSUME TypeInv, Crash
  PROVE  JobsKept /\ NoneCompletes
<1> DEFINE S == Jobs
           Cleared(j) == [jobs[j] EXCEPT !.lock = NoSlot]
<1>1. JobIds = 1 .. Len(jobs) /\ Len(jobs) \in Nat /\ \A j \in JobIds : jobs[j] \in Jobs
  BY JobTypes
<1>2. \A j \in JobIds :
        /\ Cleared(j) \in S
        /\ Cleared(j).since = jobs[j].since /\ Cleared(j).upto = jobs[j].upto
        /\ Cleared(j).state = jobs[j].state
  BY <1>1 DEF Jobs
<1>3. jobs' = [j \in 1 .. Len(jobs) |-> Cleared(j)] BY <1>1 DEF Crash
<1> HIDE DEF S, Cleared
<1>4. jobs' \in Seq(S) BY <1>1, <1>2, <1>3, SeqDef
<1>5. JobIds' = JobIds BY <1>1, <1>3 DEF JobIds
<1>6. \A j \in JobIds : jobs'[j] = Cleared(j) BY <1>1, <1>3
<1>7. JobsKept BY <1>2, <1>4, <1>5, <1>6 DEF JobsKept, S
<1>8. NoneCompletes BY <1>2, <1>5, <1>6 DEF NoneCompletes, Completed
<1> QED BY <1>7, <1>8

\* What every step does to the jobs: a job that is completed was so before, or is
\* completed by a slot that has paged through everything and leaves it now.
LEMMA JobsStep ==
  ASSUME TypeInv, Next
  PROVE  /\ JobsKept
         /\ \A j \in Completed' :
              \/ j \in Completed
              \/ /\ j \in JobIds
                 /\ \E s \in Slots : run[s].pc = "done" /\ run[s].job = j /\ run'[s] = Idle
<1> DEFINE Reported ==
      \A j \in Completed' :
        \/ j \in Completed
        \/ /\ j \in JobIds
           /\ \E s \in Slots : run[s].pc = "done" /\ run[s].job = j /\ run'[s] = Idle
<1>0. NoneCompletes => Reported BY DEF NoneCompletes, Completed
<1>1. CASE UNCHANGED jobs BY <1>0, <1>1, JobsUnchanged
<1> SUFFICES JobsKept /\ Reported OBVIOUS
<1>2. ASSUME NEW r \in Records, Change(r) PROVE JobsKept /\ Reported
  BY <1>1, <1>2 DEF Change
<1>3. CASE Notify BY <1>1, <1>3 DEF Notify
<1>4. ASSUME NEW n \in inbox, Receive(n) \/ ReceiveAndRepeat(n) \/ Lose(n)
      PROVE  JobsKept /\ Reported
  <2>1. \/ jobs' = Append(jobs, NewJob(n)) \/ UNCHANGED jobs
    BY <1>4 DEF Receive, ReceiveAndRepeat, Lose
  <2> QED BY <1>0, <1>1, <2>1, JobAdded
<1>5. ASSUME NEW s \in Slots, SlotStep(s) PROVE JobsKept /\ Reported
  <2>1. ASSUME NEW j \in JobIds, Take(s, j) PROVE JobsKept /\ Reported
    BY <1>0, <2>1, TakeJobs
  <2>2. CASE Processor(s)
    BY <1>1, <2>2 DEF Processor, Fetch, SkipDeleted, FindRaw, WriteRaw, AddIngest, PageDone
  <2>3. CASE Complete(s)
    <3>1. run[s].job \in JobIds BY <2>3, RunTypes DEF Complete
    <3>2. run[s].pc = "done" /\ run'[s] = Idle
      BY <2>3 DEF Complete, TypeInv
    <3>3. \A i \in Completed' : i \in Completed \/ i = run[s].job
      BY <2>3, CompleteJobs DEF Completed
    <3> QED BY <2>3, <3>1, <3>2, <3>3, CompleteJobs
  <2>4. CASE Fail(s) BY <1>0, <2>4, FailJobs
  <2>5. CASE LostLock(s) BY <1>1, <2>5 DEF LostLock
  <2> QED BY <1>5, <2>1, <2>2, <2>3, <2>4, <2>5 DEF SlotStep
<1>6. ASSUME NEW s \in Slots, Throw(s) PROVE JobsKept /\ Reported
  BY <1>1, <1>6 DEF Throw
<1>7. ASSUME NEW s \in Slots, LockExpires(s) PROVE JobsKept /\ Reported
  BY <1>0, <1>7, LockExpiresJobs
<1>8. CASE RedisStep BY <1>0, <1>8, PromoteJobs, StalledJobs DEF RedisStep
<1>9. CASE Crash BY <1>0, <1>9, CrashJobs
<1> QED BY <1>2, <1>3, <1>4, <1>5, <1>6, <1>7, <1>8, <1>9 DEF Next

-------------------------------------------------------------------------------
(* What a step does to the slots.                                              *)

Thrown(s) == [Idle EXCEPT !.pc = "thrown", !.job = run[s].job]

\* A step of neither the source nor the processor: slots are left as they are or
\* give up what they had in hand.
Stays ==
  /\ UNCHANGED <<source, clock, raw, enqueued>>
  /\ run' \in [Slots -> Frames \cup {Idle}]
  /\ \A s \in Slots :
       \/ run'[s] \in {run[s], Idle}
       \/ run[s] # Idle /\ run'[s] = Thrown(s)

LEMMA StaysIf ==
  ASSUME TypeInv, UNCHANGED <<source, clock, raw, enqueued>>,
         \/ UNCHANGED run
         \/ \E s \in Slots : run' = [run EXCEPT ![s] = Idle]
         \/ \E s \in Slots : run[s] # Idle /\ run' = [run EXCEPT ![s] = Thrown(s)]
         \/ run' = [s \in Slots |-> Idle]
  PROVE  Stays
<1>1. run \in [Slots -> Frames \cup {Idle}] BY DEF TypeInv
<1>2. CASE UNCHANGED run BY <1>1, <1>2 DEF Stays
<1>3. ASSUME NEW s \in Slots, run' = [run EXCEPT ![s] = Idle] PROVE Stays
  BY <1>1, <1>3 DEF Stays
<1>4. ASSUME NEW s \in Slots, run[s] # Idle, run' = [run EXCEPT ![s] = Thrown(s)]
      PROVE  Stays
  <2>1. Thrown(s) \in Frames BY <1>4, RunTypes DEF Thrown, Idle, Frames
  <2>2. run' \in [Slots -> Frames \cup {Idle}] BY <1>1, <1>4, <2>1
  <2>3. \A t \in Slots : t # s => run'[t] = run[t]
    BY <1>1, <1>4
  <2>4. run'[s] = Thrown(s) BY <1>1, <1>4
  <2> QED BY <1>4, <2>2, <2>3, <2>4 DEF Stays
<1>5. CASE run' = [s \in Slots |-> Idle] BY <1>1, <1>5 DEF Stays
<1> QED BY <1>2, <1>3, <1>4, <1>5

\* The steps, by what they do to the slots and to what they page through.
LEMMA Kinds ==
  ASSUME TypeInv, Next
  PROVE  \/ \E r \in Records : Change(r)
         \/ Stays
         \/ \E s \in Slots, j \in JobIds : Take(s, j)
         \/ \E s \in Slots : Processor(s)
<1>1. CASE Notify BY <1>1, StaysIf DEF Notify
<1>2. ASSUME NEW n \in inbox, Receive(n) \/ ReceiveAndRepeat(n) \/ Lose(n) PROVE Stays
  BY <1>2, StaysIf DEF Receive, ReceiveAndRepeat, Lose
<1>3. ASSUME NEW s \in Slots, Complete(s) \/ Fail(s) \/ LostLock(s) PROVE Stays
  BY <1>3, StaysIf DEF Complete, Fail, LostLock
<1>4. ASSUME NEW s \in Slots, Throw(s) PROVE Stays
  <2>1. run[s] # Idle BY <1>4, RunTypes DEF Throw
  <2> QED BY <1>4, <2>1, StaysIf DEF Throw, Thrown
<1>5. ASSUME NEW s \in Slots, LockExpires(s) PROVE Stays
  BY <1>5, StaysIf DEF LockExpires
<1>6. CASE RedisStep BY <1>6, StaysIf DEF RedisStep, Promote, Stalled
<1>7. CASE Crash BY <1>7, StaysIf DEF Crash
<1> QED BY <1>1, <1>2, <1>3, <1>4, <1>5, <1>6, <1>7 DEF Next, SlotStep

\* The frame a slot is left with by a step of its own.
Advanced(s, pc, todo, next) ==
  /\ run' \in [Slots -> Frames \cup {Idle}]
  /\ \A t \in Slots : t # s => run'[t] = run[t]
  /\ run'[s] # Idle /\ run'[s].pc = pc /\ run'[s].job = run[s].job
  /\ run'[s].todo = todo /\ run'[s].next = next

LEMMA AdvancedIf ==
  ASSUME TypeInv, NEW s \in Slots, NEW f \in Frames, f.job = run[s].job,
         run' = [run EXCEPT ![s] = f]
  PROVE  Advanced(s, f.pc, f.todo, f.next) /\ run'[s] = f
<1>1. run \in [Slots -> Frames \cup {Idle}] BY DEF TypeInv
<1>2. f # Idle BY DEF Frames, Idle
<1> QED BY <1>1, <1>2 DEF Advanced

LEMMA SinceTypes ==
  ASSUME TypeInv, NEW s \in Slots, run[s] # Idle
  PROVE  Since(s) \in Nat
<1>1. jobs[run[s].job] \in Jobs BY RunTypes, JobTypes
<1> QED BY <1>1, RunTypes DEF Since, Job, Jobs

\* The page of records changed after a cursor.
Page(c) == {Snapshot(r) : r \in PageAfter(c)}

LEMMA PageTypes ==
  ASSUME TypeInv, NEW c \in Nat, NEW given \in Nat
  PROVE  Page(c) \subseteq Snapshots /\ NextCursors(given, Page(c)) \subseteq Nat
<1>1. \A r \in PageAfter(c) : r \in Records /\ source[r] \in Sources /\ source[r].seq > c
  BY DEF PageAfter, Pending, TypeInv
<1>2. Page(c) \subseteq Snapshots
  BY <1>1 DEF Page, Snapshots, Snapshot, Sources
<1>3. \A next \in NextCursors(given, Page(c)) :
        next # 0 => next = given \/ \E q \in PageAfter(c) : next = source[q].seq
  BY CursorInPage DEF Page
<1> QED BY <1>1, <1>2, <1>3 DEF Sources

LEMMA FetchAdvances ==
  ASSUME TypeInv, NEW s \in Slots, Fetch(s)
  PROVE  \E next \in NextCursors(run[s].next, Page(Since(s))) :
            Advanced(s, "land", Page(Since(s)), next)
<1>1. run[s] # Idle /\ run[s] \in Frames BY RunTypes DEF Fetch
<1> DEFINE page == Page(Since(s))
<1>2. PICK next \in NextCursors(run[s].next, page) :
        run' = [run EXCEPT ![s].pc = "land", ![s].todo = page, ![s].next = next]
  BY DEF Fetch, Page
<1>3. page \in SUBSET Snapshots /\ next \in Nat BY <1>1, SinceTypes, RunTypes, PageTypes
<1> HIDE DEF page
<1> DEFINE f == [run[s] EXCEPT !.pc = "land", !.todo = page, !.next = next]
<1>4. f \in Frames /\ f.job = run[s].job /\ f.pc = "land" /\ f.todo = page /\ f.next = next
  BY <1>1, <1>3 DEF Frames
<1>5. run' = [run EXCEPT ![s] = f] BY <1>2
<1> HIDE DEF f
<1>6. Advanced(s, f.pc, f.todo, f.next) BY <1>4, <1>5, AdvancedIf
<1>7. Advanced(s, "land", page, next) BY <1>4, <1>6
<1> QED BY <1>7 DEF page

LEMMA SkipAdvances ==
  ASSUME TypeInv, NEW s \in Slots, SkipDeleted(s)
  PROVE  \E p \in run[s].todo :
            At(s, p) /\ p.deleted /\ Advanced(s, "land", run[s].todo \ {p}, run[s].next)
<1>1. run[s] \in Frames /\ run[s].pc = "land" BY RunTypes DEF SkipDeleted
<1>2. PICK p \in run[s].todo :
        At(s, p) /\ p.deleted /\ run' = [run EXCEPT ![s].todo = @ \ {p}]
  BY DEF SkipDeleted
<1> DEFINE f == [run[s] EXCEPT !.todo = run[s].todo \ {p}]
<1>3. /\ f \in Frames /\ f.job = run[s].job /\ f.pc = "land"
      /\ f.todo = run[s].todo \ {p} /\ f.next = run[s].next
  BY <1>1 DEF Frames
<1>4. run' = [run EXCEPT ![s] = f] BY <1>2
<1> HIDE DEF f
<1>5. Advanced(s, f.pc, f.todo, f.next) BY <1>3, <1>4, AdvancedIf
<1> QED BY <1>2, <1>3, <1>5

LEMMA FindAdvances ==
  ASSUME TypeInv, NEW s \in Slots, FindRaw(s)
  PROVE  \E p \in run[s].todo : \E d \in Matches(p.rec) :
            /\ At(s, p) /\ Advanced(s, "write", run[s].todo, run[s].next)
            /\ run'[s].found = d
<1>1. run[s] \in Frames BY RunTypes DEF FindRaw
<1>2. PICK p \in run[s].todo : \E d \in Matches(p.rec) :
        At(s, p) /\ run' = [run EXCEPT ![s].pc = "write", ![s].found = d]
  BY DEF FindRaw
<1>3. PICK d \in Matches(p.rec) : run' = [run EXCEPT ![s].pc = "write", ![s].found = d]
  BY <1>2
<1>4. d \in Nat
  <2>1. DocIds = 1 .. Len(raw) /\ Len(raw) \in Nat BY LenProperties DEF TypeInv, DocIds
  <2> QED BY <2>1 DEF Matches
<1> DEFINE f == [run[s] EXCEPT !.pc = "write", !.found = d]
<1>5. /\ f \in Frames /\ f.job = run[s].job /\ f.pc = "write"
      /\ f.todo = run[s].todo /\ f.next = run[s].next /\ f.found = d
  BY <1>1, <1>4 DEF Frames
<1>6. run' = [run EXCEPT ![s] = f] BY <1>3
<1> HIDE DEF f
<1>7. Advanced(s, f.pc, f.todo, f.next) /\ run'[s] = f BY <1>5, <1>6, AdvancedIf
<1> QED BY <1>2, <1>5, <1>7

\* A step that moves the frame on without touching the page.
LEMMA PcAdvances ==
  ASSUME TypeInv, NEW s \in Slots, run[s] # Idle,
         NEW pc \in {"land", "write", "enqueue", "done", "fetch"},
         run' = [run EXCEPT ![s].pc = pc]
  PROVE  Advanced(s, pc, run[s].todo, run[s].next)
<1>1. run[s] \in Frames BY RunTypes
<1> DEFINE f == [run[s] EXCEPT !.pc = pc]
<1>2. /\ f \in Frames /\ f.job = run[s].job /\ f.pc = pc
      /\ f.todo = run[s].todo /\ f.next = run[s].next
  BY <1>1 DEF Frames
<1>3. run' = [run EXCEPT ![s] = f] OBVIOUS
<1> HIDE DEF f
<1>4. Advanced(s, f.pc, f.todo, f.next) BY <1>2, <1>3, AdvancedIf
<1> QED BY <1>2, <1>4

LEMMA WriteAdvances ==
  ASSUME TypeInv, NEW s \in Slots, WriteRaw(s)
  PROVE  /\ Advanced(s, "enqueue", run[s].todo, run[s].next)
         /\ \E p \in run[s].todo : At(s, p) /\ raw' = Written(run[s].found, p)
BY RunTypes, PcAdvances DEF WriteRaw

LEMMA AddAdvances ==
  ASSUME TypeInv, NEW s \in Slots, AddIngest(s)
  PROVE  \E p \in run[s].todo :
            /\ At(s, p) /\ enqueued' = enqueued \cup {[rec |-> p.rec, ver |-> p.ver]}
            /\ Advanced(s, "land", run[s].todo \ {p}, run[s].next)
<1>1. run[s] \in Frames BY RunTypes DEF AddIngest
<1>2. PICK p \in run[s].todo :
        /\ At(s, p) /\ enqueued' = enqueued \cup {[rec |-> p.rec, ver |-> p.ver]}
        /\ run' = [run EXCEPT ![s].pc = "land", ![s].todo = @ \ {p}]
  BY DEF AddIngest
<1> DEFINE f == [run[s] EXCEPT !.pc = "land", !.todo = run[s].todo \ {p}]
<1>3. /\ f \in Frames /\ f.job = run[s].job /\ f.pc = "land"
      /\ f.todo = run[s].todo \ {p} /\ f.next = run[s].next
  BY <1>1 DEF Frames
<1>4. run' = [run EXCEPT ![s] = f] BY <1>2
<1> HIDE DEF f
<1>5. Advanced(s, f.pc, f.todo, f.next) BY <1>3, <1>4, AdvancedIf
<1> QED BY <1>2, <1>3, <1>5

LEMMA DoneAdvances ==
  ASSUME TypeInv, NEW s \in Slots, PageDone(s)
  PROVE  /\ run[s].todo = {}
         /\ Advanced(s, IF run[s].next = 0 THEN "done" ELSE "fetch", run[s].todo, run[s].next)
<1> DEFINE pc == IF run[s].next = 0 THEN "done" ELSE "fetch"
<1>1. run[s] # Idle /\ run[s].todo = {} BY RunTypes DEF PageDone
<1>2. run' = [run EXCEPT ![s].pc = pc] BY DEF PageDone
<1>3. pc \in {"land", "write", "enqueue", "done", "fetch"} OBVIOUS
<1> HIDE DEF pc
<1>4. Advanced(s, pc, run[s].todo, run[s].next) BY <1>1, <1>2, <1>3, PcAdvances
<1> QED BY <1>1, <1>4 DEF pc

\* The frame a slot starts a job with.
LEMMA TakeFrames ==
  ASSUME TypeInv, NEW s \in Slots, NEW j \in JobIds, Take(s, j)
  PROVE  /\ run' \in [Slots -> Frames \cup {Idle}]
         /\ \A t \in Slots : t # s => run'[t] = run[t]
         /\ run[s] = Idle /\ run'[s] # Idle /\ run'[s].pc \in {"over", "fetch"}
         /\ run'[s].job = j /\ run'[s].todo = {} /\ run'[s].next = 0
<1> DEFINE pc == IF jobs[j].stalls > MaxStalls THEN "over" ELSE "fetch"
           f == [Idle EXCEPT !.job = j, !.pc = pc]
<1>1. run' = [run EXCEPT ![s] = f] /\ run[s] = Idle BY DEF Take
<1>2. pc \in {"over", "fetch"} OBVIOUS
<1> HIDE DEF pc
<1>3. f \in Frames /\ f.pc = pc /\ f.job = j /\ f.todo = {} /\ f.next = 0 /\ f # Idle
  BY <1>2 DEF Idle, Frames
<1> HIDE DEF f
<1> QED BY <1>1, <1>2, <1>3 DEF TypeInv

-------------------------------------------------------------------------------
(* What a step does to raw_records and to the budget of failures.              *)

\* The _id of a raw record names one.
LEMMA DocTypes ==
  ASSUME TypeInv
  PROVE  /\ DocIds = 1 .. Len(raw) /\ Len(raw) \in Nat
         /\ \A d \in DocIds : raw[d] \in Docs
BY LenProperties, ElementOfSeq DEF TypeInv, DocIds

\* The documents there were stay, each with its record.
DocsKept ==
  /\ raw' \in Seq(Docs) /\ DocIds \subseteq DocIds'
  /\ \A d \in DocIds : raw'[d].rec = raw[d].rec

\* An upsert leaves the record's version in one of its documents, and leaves the
\* documents of the other records alone.
LEMMA UpsertDocs ==
  ASSUME TypeInv, FoundSound, NEW s \in Slots, run[s].pc = "write",
         NEW p \in run[s].todo, At(s, p), raw' = Written(run[s].found, p)
  PROVE  /\ DocsKept
         /\ \E d \in DocIds' : raw'[d] = [rec |-> p.rec, ver |-> p.ver]
         /\ \A d \in DocIds : raw[d].rec # p.rec => raw'[d] = raw[d]
         /\ \A d \in DocIds' :
              d \in DocIds \/ (run[s].found = 0 /\ d = Len(raw) + 1 /\ raw'[d].rec = p.rec)
<1> DEFINE S == Docs
           found == run[s].found
           doc == [rec |-> p.rec, ver |-> p.ver]
<1>1. DocIds = 1 .. Len(raw) /\ Len(raw) \in Nat /\ \A d \in DocIds : raw[d] \in S
  BY DocTypes
<1>2. doc \in S BY RunTypes DEF Snapshots, Docs
<1>3. raw \in Seq(S) BY DEF TypeInv
<1>4. CASE found = 0
  <2>1. raw' = Append(raw, doc) BY <1>4 DEF Written
  <2> HIDE DEF S
  <2>2. /\ raw' \in Seq(S) /\ Len(raw') = Len(raw) + 1
        /\ \A d \in 1 .. Len(raw) : raw'[d] = raw[d]
        /\ raw'[Len(raw) + 1] = doc
    BY <1>2, <1>3, <2>1, AppendProperties
  <2>3. DocIds' = 1 .. Len(raw') BY <2>2, LenProperties DEF DocIds
  <2>4. DocIds' = DocIds \cup {Len(raw) + 1} BY <1>1, <2>2, <2>3
  <2> QED BY <1>1, <1>4, <2>2, <2>4 DEF DocsKept, S
<1>5. CASE found # 0
  <2>1. found \in DocIds /\ raw[found].rec = p.rec BY <1>5 DEF FoundSound
  <2>2. [raw[found] EXCEPT !.ver = p.ver] = doc BY <1>1, <2>1 DEF Docs
  <2>3. raw' = [raw EXCEPT ![found] = doc] BY <1>5, <2>2 DEF Written
  <2> HIDE DEF S
  <2>4. /\ raw' \in Seq(S) /\ Len(raw') = Len(raw)
        /\ \A d \in 1 .. Len(raw) : raw'[d] = IF d = found THEN doc ELSE raw[d]
    BY <1>1, <1>2, <1>3, <2>1, <2>3, ExceptSeq
  <2>5. DocIds' = 1 .. Len(raw') BY <2>4, LenProperties DEF DocIds
  <2>6. DocIds' = DocIds BY <1>1, <2>4, <2>5
  <2> QED BY <1>1, <2>1, <2>4, <2>6 DEF DocsKept, S
<1> QED BY <1>4, <1>5

LEMMA DocsStep ==
  ASSUME TypeInv, FoundSound, Next
  PROVE  DocsKept
<1>1. CASE UNCHANGED raw BY <1>1 DEF DocsKept, DocIds, TypeInv
<1>2. ASSUME NEW r \in Records, Change(r) PROVE DocsKept BY <1>1, <1>2 DEF Change
<1>3. CASE Stays BY <1>1, <1>3 DEF Stays
<1>4. ASSUME NEW s \in Slots, NEW j \in JobIds, Take(s, j) PROVE DocsKept
  BY <1>1, <1>4 DEF Take
<1>5. ASSUME NEW s \in Slots, Processor(s) PROVE DocsKept
  <2>1. CASE WriteRaw(s)
    BY <2>1, WriteAdvances, UpsertDocs DEF WriteRaw
  <2> QED BY <1>1, <1>5, <2>1
       DEF Processor, Fetch, SkipDeleted, FindRaw, AddIngest, PageDone
<1> QED BY <1>2, <1>3, <1>4, <1>5, Kinds

\* Failures are used up and never come back.
LEMMA LeftStep ==
  ASSUME TypeInv, Next
  PROVE  left' \in [Failures -> Nat] /\ \A k \in Failures : left'[k] <= left[k]
<1> DEFINE Less == left' \in [Failures -> Nat] /\ \A k \in Failures : left'[k] <= left[k]
<1>1. left \in [Failures -> Nat] BY DEF TypeInv
<1>2. CASE UNCHANGED left BY <1>1, <1>2
<1>3. ASSUME NEW kind \in Failures \ {"any"}, Strike(kind) PROVE Less
  <2>1. "any" \in Failures BY DEF Failures
  <2> QED BY <1>1, <1>3, <2>1 DEF Strike
<1>4. CASE Overlap
  <2>1. "overlap" \in Failures BY DEF Failures
  <2> QED BY <1>1, <1>4, <2>1 DEF Overlap
<1>5. {"lose", "repeat", "throw", "crash", "lock"} \subseteq Failures \ {"any"}
  BY DEF Failures
<1> HIDE DEF Less
<1>6. ASSUME NEW n \in inbox, Receive(n) \/ ReceiveAndRepeat(n) \/ Lose(n) PROVE Less
  BY <1>2, <1>3, <1>5, <1>6 DEF Receive, ReceiveAndRepeat, Lose, Less
<1>7. ASSUME NEW s \in Slots, SlotStep(s) PROVE Less
  <2>1. ASSUME NEW j \in JobIds, Take(s, j) PROVE Less
    BY <1>2, <1>4, <2>1 DEF Take, Less
  <2>2. UNCHANGED left \/ \E j \in JobIds : Take(s, j)
    BY <1>7 DEF SlotStep, Processor, Fetch, SkipDeleted, FindRaw, WriteRaw, AddIngest,
                PageDone, Complete, Fail, LostLock
  <2> QED BY <1>2, <2>1, <2>2 DEF Less
<1>8. ASSUME NEW s \in Slots, Throw(s) \/ LockExpires(s) PROVE Less
  BY <1>3, <1>5, <1>8 DEF Throw, LockExpires
<1>9. CASE Crash BY <1>3, <1>5, <1>9 DEF Crash, Less
<1>10. \/ UNCHANGED left
       \/ \E n \in inbox : Receive(n) \/ ReceiveAndRepeat(n) \/ Lose(n)
       \/ \E s \in Slots : SlotStep(s) \/ Throw(s) \/ LockExpires(s)
       \/ Crash
  BY DEF Next, Change, Notify, RedisStep, Promote, Stalled
<1>11. Less BY <1>2, <1>6, <1>7, <1>8, <1>9, <1>10 DEF Less
<1> QED BY <1>11 DEF Less

-------------------------------------------------------------------------------
(* The parts of the invariant that every step preserves by itself.             *)

LEMMA ChangeSource ==
  ASSUME TypeInv, NEW r \in Records, Change(r)
  PROVE  /\ UNCHANGED <<notified, inbox, jobs, run, raw, enqueued, left>>
         /\ clock' = clock + 1 /\ clock' \in Nat
         /\ source' \in [Records -> Sources]
         /\ source'[r].seq = clock + 1
         /\ \A q \in Records : q # r => source'[q] = source[q]
<1>1. PICK gone \in BOOLEAN :
        source' = [source EXCEPT ![r] = [seq |-> clock + 1, ver |-> @.ver + 1, deleted |-> gone]]
  BY DEF Change, SourceChange
<1>2. source \in [Records -> Sources] /\ clock \in Nat BY DEF TypeInv
<1> DEFINE f == [seq |-> clock + 1, ver |-> source[r].ver + 1, deleted |-> gone]
<1>3. f \in Sources /\ f.seq = clock + 1 BY <1>2 DEF Sources
<1>4. source' = [source EXCEPT ![r] = f] BY <1>1
<1> HIDE DEF f
<1>5. /\ source' \in [Records -> Sources] /\ source'[r].seq = clock + 1
      /\ \A q \in Records : q # r => source'[q] = source[q]
  BY <1>2, <1>3, <1>4
<1>6. clock' = clock + 1 /\ UNCHANGED <<notified, inbox, jobs, run, raw, enqueued, left>>
  BY DEF Change, SourceChange
<1> QED BY <1>2, <1>5, <1>6

\* Only a change moves the source.
LEMMA SourceStep ==
  ASSUME TypeInv, Next
  PROVE  UNCHANGED <<source, clock>> \/ \E r \in Records : Change(r)
BY Kinds DEF Stays, Take, Processor, Fetch, SkipDeleted, FindRaw, WriteRaw, AddIngest,
             PageDone

\* The frames a step leaves behind.
LEMMA RunStep ==
  ASSUME TypeInv, Next
  PROVE  run' \in [Slots -> Frames \cup {Idle}]
<1>1. ASSUME NEW r \in Records, Change(r) PROVE run' \in [Slots -> Frames \cup {Idle}]
  BY <1>1, ChangeSource DEF TypeInv
<1>2. ASSUME NEW s \in Slots, Processor(s) PROVE run' \in [Slots -> Frames \cup {Idle}]
  BY <1>2, FetchAdvances, SkipAdvances, FindAdvances, WriteAdvances, AddAdvances,
     DoneAdvances DEF Processor, Advanced
<1> QED BY <1>1, <1>2, Kinds, TakeFrames DEF Stays

LEMMA EnqueuedStep ==
  ASSUME TypeInv, Next
  PROVE  enqueued \subseteq enqueued' /\ enqueued' \subseteq Docs
<1>1. CASE UNCHANGED enqueued BY <1>1 DEF TypeInv
<1>2. ASSUME NEW s \in Slots, AddIngest(s)
      PROVE  enqueued \subseteq enqueued' /\ enqueued' \subseteq Docs
  <2>1. PICK p \in run[s].todo : enqueued' = enqueued \cup {[rec |-> p.rec, ver |-> p.ver]}
    BY <1>2, AddAdvances
  <2>2. [rec |-> p.rec, ver |-> p.ver] \in Docs BY RunTypes DEF Snapshots, Docs
  <2> QED BY <2>1, <2>2 DEF TypeInv
<1>3. UNCHANGED enqueued \/ \E s \in Slots : AddIngest(s)
  BY Kinds DEF Stays, Take, Processor, Fetch, SkipDeleted, FindRaw, WriteRaw, PageDone, Change
<1> QED BY <1>1, <1>2, <1>3

\* A notification covers the time since the one before it.
LEMMA InboxStep ==
  ASSUME TypeInv, JobsSound, Next
  PROVE  /\ notified' \in Nat /\ inbox' \subseteq Notifications
         /\ notified' <= clock' /\ \A n \in inbox' : n.upto <= clock'
<1>0. /\ clock \in Nat /\ notified \in Nat /\ inbox \subseteq Notifications
      /\ notified <= clock /\ \A n \in inbox : n.upto <= clock /\ n.upto \in Nat
  BY DEF TypeInv, JobsSound, Notifications
<1>1. clock' \in Nat /\ clock <= clock' BY <1>0, SourceStep, ChangeSource
<1>2. CASE notified' = notified /\ inbox' \subseteq inbox BY <1>0, <1>1, <1>2
<1>3. CASE Notify
  <2>1. PICK n \in {Note(notified, clock, TRUE), Note(0, 0, FALSE)} :
          inbox' = inbox \cup {n} /\ notified' \in {clock, notified}
    BY <1>3 DEF Notify
  <2>2. /\ Note(notified, clock, TRUE) \in Notifications
        /\ Note(notified, clock, TRUE).upto = clock
        /\ Note(0, 0, FALSE) \in Notifications /\ Note(0, 0, FALSE).upto = 0
    BY <1>0 DEF Note, Notifications
  <2>3. n \in Notifications /\ (n.upto = clock \/ n.upto = 0) BY <2>2
  <2> QED BY <1>0, <1>1, <2>1, <2>3
<1>4. Notify \/ (notified' = notified /\ inbox' \subseteq inbox)
  BY DEF Next, Change, Receive, ReceiveAndRepeat, Lose, SlotStep, Take, Processor, Fetch,
         SkipDeleted, FindRaw, WriteRaw, AddIngest, PageDone, Complete, Fail, LostLock,
         Throw, LockExpires, RedisStep, Promote, Stalled, Crash
<1> QED BY <1>2, <1>3, <1>4

LEMMA TypeInvStep ==
  ASSUME TypeInv, JobsSound, FoundSound, Next
  PROVE  TypeInv'
<1>1. source' \in [Records -> Sources] /\ clock' \in Nat
  BY SourceStep, ChangeSource DEF TypeInv
<1>2. run' \in [Slots -> Frames' \cup {Idle}]
  BY RunStep, JobsStep DEF JobsKept, Frames
<1>3. \A k \in Failures : left[k] \in Nat /\ Budget[k] \in Nat /\ left[k] <= Budget[k]
  BY BudgetAssumption DEF TypeInv
<1>4. left' \in [Failures -> Nat] /\ \A k \in Failures : left'[k] <= Budget[k]
  BY <1>3, LeftStep
<1> QED BY <1>1, <1>2, <1>4, InboxStep, JobsStep, DocsStep, EnqueuedStep
        DEF TypeInv, JobsKept, DocsKept

LEMMA SourceSoundStep ==
  ASSUME TypeInv, SourceSound, Next
  PROVE  SourceSound'
<1>1. CASE UNCHANGED <<source, clock>> BY <1>1 DEF SourceSound
<1>2. ASSUME NEW r \in Records, Change(r) PROVE SourceSound'
  <2>1. \A q \in Records : source[q].seq \in Nat /\ source[q].seq <= clock /\ clock \in Nat
    BY DEF TypeInv, Sources, SourceSound
  <2>2. \A q \in Records : q # r => source'[q].seq = source[q].seq
    BY <1>2, ChangeSource
  <2>3. clock' = clock + 1 /\ source'[r].seq = clock + 1 BY <1>2, ChangeSource
  <2>4. \A q \in Records : source'[q].seq <= clock' BY <2>1, <2>2, <2>3
  <2>5. ASSUME NEW p \in Records, NEW q \in Records,
               source'[p].seq = source'[q].seq, source'[p].seq # 0
        PROVE  p = q
    BY <2>1, <2>2, <2>3, <2>5 DEF SourceSound
  <2> QED BY <2>4, <2>5 DEF SourceSound
<1> QED BY <1>1, <1>2, SourceStep

LEMMA JobsSoundStep ==
  ASSUME TypeInv, JobsSound, Next
  PROVE  JobsSound'
<1>0. clock \in Nat /\ \A j \in JobIds : jobs[j].upto \in Nat
  BY JobTypes DEF TypeInv, Jobs
<1>1. clock' \in Nat /\ clock <= clock' BY <1>0, SourceStep, ChangeSource
<1>2. \A n \in inbox : n.upto \in Nat /\ n.upto <= clock
  BY DEF TypeInv, Notifications, JobsSound
<1>3. \A j \in JobIds' : jobs'[j].upto <= clock'
  BY <1>0, <1>1, <1>2, JobsStep DEF JobsKept, JobsSound
<1> QED BY <1>3, InboxStep DEF JobsSound

-------------------------------------------------------------------------------
(* Pages and what is found of their records.                                   *)

\* The loop over a page is at one record.
LEMMA AtIsOne ==
  ASSUME TypeInv, PagesSound, NEW s \in Slots,
         NEW p \in run[s].todo, NEW q \in run[s].todo, At(s, p), At(s, q)
  PROVE  p = q
<1>1. p.seq \in Nat /\ q.seq \in Nat BY RunTypes DEF Snapshots
<1> QED BY <1>1 DEF At, PagesSound

\* Only a fetch gives a slot records it had not in hand.
LEMMA TodoStep ==
  ASSUME TypeInv, Next, NEW s \in Slots
  PROVE  \/ run'[s].todo \subseteq run[s].todo
         \/ /\ UNCHANGED <<source, clock, jobs>>
            /\ \E c \in Nat : run'[s].todo = Page(c)
<1> DEFINE Good == \/ run'[s].todo \subseteq run[s].todo
                   \/ /\ UNCHANGED <<source, clock, jobs>>
                      /\ \E c \in Nat : run'[s].todo = Page(c)
<1>1. CASE run'[s] = run[s] BY <1>1
<1>2. ASSUME NEW r \in Records, Change(r) PROVE Good BY <1>1, <1>2, ChangeSource
<1>3. CASE Stays
  <2>1. run'[s] \in {run[s], Idle, Thrown(s)} BY <1>3 DEF Stays
  <2>2. Idle.todo = {} /\ Thrown(s).todo = {} BY DEF Idle, Thrown
  <2> QED BY <2>1, <2>2
<1>4. ASSUME NEW t \in Slots, NEW j \in JobIds, Take(t, j) PROVE Good
  BY <1>1, <1>4, TakeFrames
<1>5. ASSUME NEW t \in Slots, Processor(t) PROVE Good
  <2>1. \A u \in Slots : u # t => run'[u] = run[u]
    BY <1>5, FetchAdvances, SkipAdvances, FindAdvances, WriteAdvances, AddAdvances,
       DoneAdvances DEF Processor, Advanced
  <2>2. CASE Fetch(t)
    <3>1. run[t] # Idle BY <2>2, RunTypes DEF Fetch
    <3>2. Since(t) \in Nat /\ run'[t].todo = Page(Since(t))
      BY <2>2, <3>1, SinceTypes, FetchAdvances DEF Advanced
    <3> QED BY <1>1, <2>1, <2>2, <3>2 DEF Fetch
  <2>3. CASE ~ Fetch(t)
    <3>1. run'[t].todo \subseteq run[t].todo
      BY <1>5, <2>3, SkipAdvances, FindAdvances, WriteAdvances, AddAdvances, DoneAdvances
         DEF Processor, Advanced
    <3> QED BY <1>1, <2>1, <3>1
  <2> QED BY <2>2, <2>3
<1> QED BY <1>2, <1>3, <1>4, <1>5, Kinds

LEMMA PagesSoundStep ==
  ASSUME TypeInv, SourceSound, PagesSound, Next
  PROVE  PagesSound'
<1> SUFFICES ASSUME NEW s \in Slots
             PROVE  /\ \A p, q \in run'[s].todo : p.seq = q.seq => p = q
                    /\ \A p \in run'[s].todo :
                         /\ p.seq <= source'[p.rec].seq
                         /\ p.seq = source'[p.rec].seq => p = Snapshot(p.rec)'
  BY DEF PagesSound
<1>1. CASE run'[s].todo \subseteq run[s].todo /\ UNCHANGED source
  BY <1>1 DEF PagesSound, Snapshot
<1>2. ASSUME run'[s].todo \subseteq run[s].todo, NEW r \in Records, Change(r)
      PROVE  /\ \A p, q \in run'[s].todo : p.seq = q.seq => p = q
             /\ \A p \in run'[s].todo :
                  /\ p.seq <= source'[p.rec].seq
                  /\ p.seq = source'[p.rec].seq => p = Snapshot(p.rec)'
  <2>1. \A p, q \in run'[s].todo : p.seq = q.seq => p = q BY <1>2 DEF PagesSound
  <2>2. ASSUME NEW p \in run'[s].todo
        PROVE  /\ p.seq <= source'[p.rec].seq
               /\ p.seq = source'[p.rec].seq => p = Snapshot(p.rec)'
    <3>1. p \in run[s].todo /\ p.rec \in Records /\ p.seq \in Nat
      BY <1>2, RunTypes DEF Snapshots
    <3>2. p.seq <= source[p.rec].seq /\ (p.seq = source[p.rec].seq => p = Snapshot(p.rec))
      BY <3>1 DEF PagesSound
    <3>3. source[p.rec].seq <= clock /\ clock \in Nat /\ source[p.rec].seq \in Nat
      BY <3>1 DEF SourceSound, TypeInv, Sources
    <3>4. CASE p.rec = r BY <1>2, <3>1, <3>2, <3>3, <3>4, ChangeSource
    <3>5. CASE p.rec # r
      <4>1. source'[p.rec] = source[p.rec] BY <1>2, <3>1, <3>5, ChangeSource
      <4> QED BY <3>2, <4>1 DEF Snapshot
    <3> QED BY <3>4, <3>5
  <2> QED BY <2>1, <2>2
<1>3. ASSUME NEW c \in Nat, run'[s].todo = Page(c), UNCHANGED source
      PROVE  /\ \A p, q \in run'[s].todo : p.seq = q.seq => p = q
             /\ \A p \in run'[s].todo :
                  /\ p.seq <= source'[p.rec].seq
                  /\ p.seq = source'[p.rec].seq => p = Snapshot(p.rec)'
  <2>1. \A r \in PageAfter(c) : r \in Records /\ source[r].seq \in Nat /\ source[r].seq # 0
    BY DEF PageAfter, Pending, TypeInv, Sources
  <2>2. \A p \in Page(c) :
          p.rec \in PageAfter(c) /\ p = Snapshot(p.rec) /\ p.seq = source[p.rec].seq
    BY DEF Page, Snapshot
  <2>3. \A p, q \in Page(c) : p.seq = q.seq => p = q
    BY <2>1, <2>2 DEF SourceSound
  <2>4. ASSUME NEW p \in Page(c)
        PROVE  p.seq <= source'[p.rec].seq /\ p = Snapshot(p.rec)'
    BY <1>3, <2>1, <2>2 DEF Snapshot
  <2> QED BY <1>3, <2>3, <2>4
<1> QED BY <1>1, <1>2, <1>3, TodoStep, SourceStep

\* A slot comes to a document by looking for it, and past it by writing it.
LEMMA PcStep ==
  ASSUME TypeInv, Next, NEW s \in Slots
  PROVE  \/ run'[s] = run[s]
         \/ run'[s].pc \notin {"write", "enqueue"}
         \/ FindRaw(s)
         \/ WriteRaw(s)
<1>1. ASSUME NEW r \in Records, Change(r) PROVE run'[s] = run[s] BY <1>1, ChangeSource
<1>2. CASE Stays
  <2>1. run'[s] \in {run[s], Idle, Thrown(s)} BY <1>2 DEF Stays
  <2>2. Idle.pc = "idle" /\ Thrown(s).pc = "thrown" BY DEF Idle, Thrown
  <2> QED BY <2>1, <2>2
<1>3. ASSUME NEW t \in Slots, NEW j \in JobIds, Take(t, j)
      PROVE  run'[s] = run[s] \/ run'[s].pc \notin {"write", "enqueue"}
  BY <1>3, TakeFrames
<1>4. ASSUME NEW t \in Slots, Processor(t), ~ FindRaw(t), ~ WriteRaw(t)
      PROVE  run'[s] = run[s] \/ run'[s].pc \notin {"write", "enqueue"}
  BY <1>4, FetchAdvances, SkipAdvances, AddAdvances, DoneAdvances DEF Processor, Advanced
<1>5. ASSUME NEW t \in Slots, FindRaw(t) \/ WriteRaw(t), t # s
      PROVE  run'[s] = run[s]
  BY <1>5, FindAdvances, WriteAdvances DEF Advanced
<1> QED BY <1>1, <1>2, <1>3, <1>4, <1>5, Kinds

LEMMA FoundSoundStep ==
  ASSUME TypeInv, PagesSound, FoundSound, Next
  PROVE  FoundSound'
<1> SUFFICES ASSUME NEW s \in Slots, NEW p \in run'[s].todo, At(s, p)'
             PROVE  /\ run'[s].pc = "write" /\ run'[s].found # 0 =>
                         run'[s].found \in DocIds' /\ raw'[run'[s].found].rec = p.rec
                    /\ run'[s].pc = "enqueue" => HasDoc(p.rec)'
  BY DEF FoundSound
<1>1. DocsKept BY DocsStep
<1>2. CASE run'[s] = run[s]
  <2>1. p \in run[s].todo /\ At(s, p) BY <1>2 DEF At
  <2>2. /\ run[s].pc = "write" /\ run[s].found # 0 =>
             run[s].found \in DocIds /\ raw[run[s].found].rec = p.rec
        /\ run[s].pc = "enqueue" => HasDoc(p.rec)
    BY <2>1 DEF FoundSound
  <2> QED BY <1>1, <1>2, <2>2 DEF DocsKept, HasDoc
<1>3. CASE FindRaw(s)
  <2>1. PICK q \in run[s].todo :
          /\ At(s, q) /\ Advanced(s, "write", run[s].todo, run[s].next)
          /\ run'[s].found \in Matches(q.rec)
    BY <1>3, FindAdvances
  <2>2. p \in run[s].todo /\ At(s, p) BY <2>1 DEF At, Advanced
  <2>3. p = q BY <2>1, <2>2, AtIsOne
  <2>4. run'[s].found # 0 => run'[s].found \in DocIds /\ raw[run'[s].found].rec = p.rec
    BY <2>1, <2>3 DEF Matches
  <2>5. run'[s].pc = "write" BY <2>1 DEF Advanced
  <2> QED BY <1>1, <2>4, <2>5 DEF DocsKept
<1>4. CASE WriteRaw(s)
  <2>1. PICK q \in run[s].todo : At(s, q) /\ raw' = Written(run[s].found, q)
    BY <1>4, WriteAdvances
  <2>2. Advanced(s, "enqueue", run[s].todo, run[s].next) BY <1>4, WriteAdvances
  <2>3. p \in run[s].todo /\ At(s, p) BY <2>2 DEF At, Advanced
  <2>4. p = q BY <2>1, <2>3, AtIsOne
  <2>5. PICK d \in DocIds' : raw'[d] = [rec |-> q.rec, ver |-> q.ver]
    BY <1>4, <2>1, UpsertDocs DEF WriteRaw
  <2>6. HasDoc(p.rec)' BY <2>4, <2>5 DEF HasDoc
  <2>7. run'[s].pc = "enqueue" BY <2>2 DEF Advanced
  <2> QED BY <2>6, <2>7
<1> QED BY <1>2, <1>3, <1>4, PcStep

LEMMA EnqueuedIsLandedStep ==
  ASSUME TypeInv, FoundSound, EnqueuedIsLanded, Next
  PROVE  EnqueuedIsLanded'
<1>1. DocsKept BY DocsStep
<1>2. CASE UNCHANGED enqueued BY <1>1, <1>2 DEF EnqueuedIsLanded, DocsKept
<1>3. ASSUME NEW s \in Slots, AddIngest(s) PROVE EnqueuedIsLanded'
  <2>1. PICK p \in run[s].todo :
          At(s, p) /\ enqueued' = enqueued \cup {[rec |-> p.rec, ver |-> p.ver]}
    BY <1>3, AddAdvances
  <2>2. HasDoc(p.rec) BY <1>3, <2>1 DEF FoundSound, AddIngest
  <2> QED BY <1>1, <2>1, <2>2 DEF EnqueuedIsLanded, DocsKept, HasDoc
<1>4. UNCHANGED enqueued \/ \E s \in Slots : AddIngest(s)
  BY Kinds DEF Stays, Take, Processor, Fetch, SkipDeleted, FindRaw, WriteRaw, PageDone, Change
<1> QED BY <1>2, <1>3, <1>4

-------------------------------------------------------------------------------
(* What a run has handed over, and what it has still to come to.               *)

\* A change takes its record out of what the jobs there are cover.
LEMMA WindowStep ==
  ASSUME TypeInv, JobsSound, Next, NEW j \in JobIds, NEW r \in Window(j)'
  PROVE  r \in Window(j) /\ source'[r] = source[r]
<1>1. r \in Records /\ ~ source'[r].deleted
  BY DEF Window
<1>2. jobs'[j].since = jobs[j].since /\ jobs'[j].upto = jobs[j].upto
  BY JobsStep DEF JobsKept
<1>3. source'[r].seq \in jobs[j].since + 1 .. jobs[j].upto BY <1>2 DEF Window
<1>4. source'[r] = source[r]
  <2>1. CASE UNCHANGED source BY <2>1
  <2>2. ASSUME NEW q \in Records, Change(q), q = r PROVE FALSE
    <3>1. source'[r].seq = clock + 1 /\ clock \in Nat BY <2>2, ChangeSource DEF TypeInv
    <3>2. jobs[j].upto <= clock /\ jobs[j].upto \in Nat
      BY JobTypes DEF JobsSound, Jobs
    <3>3. source'[r].seq <= jobs[j].upto
      BY <1>3, <3>1, <3>2, JobTypes DEF Jobs
    <3> QED BY <3>1, <3>2, <3>3
  <2>3. ASSUME NEW q \in Records, Change(q), q # r PROVE source'[r] = source[r]
    BY <1>1, <2>3, ChangeSource
  <2> QED BY <2>1, <2>2, <2>3, SourceStep
<1> QED BY <1>1, <1>3, <1>4 DEF Window

\* A slot at work was at work on the same job, or has just taken it.
LEMMA WorkStep ==
  ASSUME TypeInv, Next, NEW s \in Slots, Working(s)'
  PROVE  /\ run'[s].job \in JobIds
         /\ \/ Working(s) /\ run'[s].job = run[s].job
            \/ Take(s, run'[s].job)
<1> DEFINE Same == Working(s) /\ run'[s].job = run[s].job
<1>1. run'[s] \in Frames
  <2>1. run'[s] \in Frames \cup {Idle} BY RunStep
  <2>2. run'[s].pc # "idle" BY DEF Working
  <2> QED BY <2>1, <2>2 DEF Idle
<1>2. run'[s].job \in JobIds BY <1>1 DEF Frames
<1>3. CASE run'[s] = run[s] BY <1>2, <1>3 DEF Working
<1>4. ASSUME NEW r \in Records, Change(r) PROVE run'[s] = run[s] BY <1>4, ChangeSource
<1>5. CASE Stays
  <2>1. run'[s] \in {run[s], Idle, Thrown(s)} BY <1>5 DEF Stays
  <2>2. Idle.pc = "idle" /\ Thrown(s).pc = "thrown" BY DEF Idle, Thrown
  <2>3. run'[s] = run[s] BY <2>1, <2>2 DEF Working
  <2> QED BY <1>3, <2>3
<1>6. ASSUME NEW t \in Slots, NEW j \in JobIds, Take(t, j)
      PROVE  run'[s] = run[s] \/ Take(s, run'[s].job)
  BY <1>6, TakeFrames
<1>7. ASSUME NEW t \in Slots, Processor(t) PROVE run'[s] = run[s] \/ Same
  <2>1. t # s => run'[s] = run[s]
    BY <1>7, FetchAdvances, SkipAdvances, FindAdvances, WriteAdvances, AddAdvances,
       DoneAdvances DEF Processor, Advanced
  <2>2. t = s => run'[s].job = run[s].job
    BY <1>7, FetchAdvances, SkipAdvances, FindAdvances, WriteAdvances, AddAdvances,
       DoneAdvances DEF Processor, Advanced
  <2>3. t = s => Working(s)
    BY <1>7 DEF Processor, Fetch, SkipDeleted, FindRaw, WriteRaw, AddIngest, PageDone,
                Working
  <2> QED BY <2>1, <2>2, <2>3
<1> QED BY <1>2, <1>3, <1>4, <1>5, <1>6, <1>7, Kinds

\* A run starts before all that its job covers.
LEMMA TakenIsAhead ==
  ASSUME TypeInv, Next, NEW s \in Slots, NEW j \in JobIds, Take(s, j), Working(s)',
         NEW r \in Window(j)'
  PROVE  Ahead(s, r)'
<1>1. run'[s].pc = "fetch" /\ run'[s].job = j /\ run'[s].next = 0
  BY TakeFrames DEF Working
<1>2. Since(s)' = jobs'[j].since BY <1>1 DEF Since, Job
<1>3. jobs'[j].since \in Nat /\ jobs'[j].upto \in Nat
  BY JobTypes, JobsStep DEF JobsKept, Jobs
<1>4. source'[r].seq > jobs'[j].since BY <1>3 DEF Window
<1> QED BY <1>1, <1>2, <1>4 DEF Ahead

\* What a run has still to come to it does not skip: it gives up, or has still to
\* come to it, or comes to it now.
LEMMA AheadStep ==
  ASSUME TypeInv, SourceSound, PagesSound, Next, NEW s \in Slots, NEW r \in Records,
         source'[r] = source[r], ~ source[r].deleted, Ahead(s, r), Working(s)'
  PROVE  \/ Ahead(s, r)'
         \/ AddIngest(s) /\ At(s, Snapshot(r)) /\ Handed(r)'
<1> DEFINE Goal == \/ Ahead(s, r)'
                   \/ AddIngest(s) /\ At(s, Snapshot(r)) /\ Handed(r)'
<1>0. Snapshot(r)' = Snapshot(r) BY DEF Snapshot
<1>1. run[s] # Idle /\ run[s].job \in JobIds BY RunTypes DEF Ahead
<1>2. CASE run'[s] = run[s]
  <2>1. jobs'[run[s].job].since = jobs[run[s].job].since BY <1>1, JobsStep DEF JobsKept
  <2>2. Since(s)' = Since(s) BY <1>2, <2>1 DEF Since, Job
  <2> QED BY <1>0, <1>2, <2>2 DEF Ahead
<1>3. ASSUME NEW q \in Records, Change(q) PROVE run'[s] = run[s] BY <1>3, ChangeSource
<1>4. CASE Stays
  <2>1. run'[s] \in {run[s], Idle, Thrown(s)} BY <1>4 DEF Stays
  <2>2. Idle.pc = "idle" /\ Thrown(s).pc = "thrown" BY DEF Idle, Thrown
  <2>3. run'[s] = run[s] BY <2>1, <2>2 DEF Working
  <2> QED BY <1>2, <2>3
<1>5. ASSUME NEW t \in Slots, NEW j \in JobIds, Take(t, j) PROVE run'[s] = run[s]
  BY <1>1, <1>5, TakeFrames
<1>6. ASSUME NEW t \in Slots, Processor(t), t # s PROVE run'[s] = run[s]
  BY <1>6, FetchAdvances, SkipAdvances, FindAdvances, WriteAdvances, AddAdvances,
     DoneAdvances DEF Processor, Advanced
<1>7. CASE Fetch(s)
  <2>1. Since(s) \in Nat /\ source[r].seq > Since(s)
    BY <1>1, <1>7, SinceTypes DEF Fetch, Ahead
  <2>2. PICK next \in NextCursors(run[s].next, Page(Since(s))) :
          Advanced(s, "land", Page(Since(s)), next)
    BY <1>7, FetchAdvances
  <2>3. r \in PageAfter(Since(s)) \/ (next # 0 /\ source[r].seq > next)
    <3>1. run[s].next \in {0, Since(s)} BY DEF Since
    <3> QED BY <2>1, <2>2, <3>1, PageCovers DEF Page
  <2>4. r \in PageAfter(Since(s)) => Snapshot(r) \in run'[s].todo
    BY <2>2 DEF Page, Advanced
  <2> QED BY <1>0, <2>2, <2>3, <2>4 DEF Ahead, Advanced
<1>8. CASE SkipDeleted(s)
  <2>1. PICK p \in run[s].todo :
          p.deleted /\ Advanced(s, "land", run[s].todo \ {p}, run[s].next)
    BY <1>8, SkipAdvances
  <2>2. p # Snapshot(r) BY <2>1 DEF Snapshot
  <2>3. run[s].pc = "land" BY <1>8 DEF SkipDeleted
  <2> QED BY <1>0, <2>1, <2>2, <2>3 DEF Ahead, Advanced
<1>9. CASE FindRaw(s) \/ WriteRaw(s)
  <2>1. \/ Advanced(s, "write", run[s].todo, run[s].next)
        \/ Advanced(s, "enqueue", run[s].todo, run[s].next)
    BY <1>9, FindAdvances, WriteAdvances
  <2>2. run[s].pc \in {"land", "write"} BY <1>9 DEF FindRaw, WriteRaw
  <2> QED BY <1>0, <2>1, <2>2 DEF Ahead, Advanced
<1>10. CASE AddIngest(s)
  <2>1. PICK p \in run[s].todo :
          /\ At(s, p) /\ enqueued' = enqueued \cup {[rec |-> p.rec, ver |-> p.ver]}
          /\ Advanced(s, "land", run[s].todo \ {p}, run[s].next)
    BY <1>10, AddAdvances
  <2>2. run[s].pc = "enqueue" BY <1>10 DEF AddIngest
  <2>3. CASE p = Snapshot(r)
    BY <1>10, <2>1, <2>3 DEF Snapshot, Handed
  <2>4. CASE p # Snapshot(r)
    BY <1>0, <2>1, <2>2, <2>4 DEF Ahead, Advanced
  <2> QED BY <2>3, <2>4
<1>11. CASE PageDone(s)
  <2>1. /\ run[s].todo = {} /\ run[s].pc = "land"
        /\ Advanced(s, IF run[s].next = 0 THEN "done" ELSE "fetch", run[s].todo, run[s].next)
    BY <1>11, DoneAdvances DEF PageDone
  <2>2. run[s].next # 0 /\ source[r].seq > run[s].next BY <2>1 DEF Ahead
  <2>3. run'[s].pc = "fetch" /\ run'[s].next = run[s].next BY <2>1, <2>2 DEF Advanced
  <2>4. Since(s)' = run[s].next BY <2>2, <2>3 DEF Since
  <2> QED BY <2>2, <2>3, <2>4 DEF Ahead
<1> QED BY <1>2, <1>3, <1>4, <1>5, <1>6, <1>7, <1>8, <1>9, <1>10, <1>11, Kinds
        DEF Processor

LEMMA HandedStep ==
  ASSUME TypeInv, Next, NEW r \in Records, source'[r] = source[r], Handed(r)
  PROVE  Handed(r)'
BY EnqueuedStep DEF Handed

LEMMA RunsCoverStep ==
  ASSUME TypeInv, SourceSound, JobsSound, PagesSound, RunsCover, Next
  PROVE  RunsCover'
<1> SUFFICES ASSUME NEW s \in Slots, Working(s)', NEW j \in JobIds', run'[s].job = j,
                    NEW r \in Window(j)'
             PROVE  Handed(r)' \/ Ahead(s, r)'
  BY DEF RunsCover
<1>1. j \in JobIds BY WorkStep
<1>2. r \in Window(j) /\ source'[r] = source[r] BY <1>1, WindowStep
<1>3. r \in Records /\ ~ source[r].deleted BY <1>2 DEF Window
<1>4. CASE Working(s) /\ run[s].job = j
  <2>1. Handed(r) \/ Ahead(s, r) BY <1>1, <1>2, <1>4 DEF RunsCover
  <2> QED BY <1>2, <1>3, <2>1, HandedStep, AheadStep
<1>5. CASE Take(s, j) BY <1>1, <1>5, TakenIsAhead
<1> QED BY <1>4, <1>5, WorkStep

LEMMA CompletedCoversStep ==
  ASSUME TypeInv, JobsSound, RunsCover, CompletedCovers, Next
  PROVE  CompletedCovers'
<1> SUFFICES ASSUME NEW j \in Completed', NEW r \in Window(j)' PROVE Handed(r)'
  BY DEF CompletedCovers, Handed
<1>1. j \in JobIds BY JobsStep DEF Completed
<1>2. r \in Window(j) /\ source'[r] = source[r] /\ r \in Records
  BY <1>1, WindowStep DEF Window
<1>3. CASE j \in Completed
  <2>1. Handed(r) BY <1>2, <1>3 DEF CompletedCovers, Handed
  <2> QED BY <1>2, <2>1, HandedStep
<1>4. ASSUME NEW s \in Slots, run[s].pc = "done", run[s].job = j PROVE Handed(r)'
  <2>1. Handed(r) \/ Ahead(s, r) BY <1>1, <1>2, <1>4 DEF RunsCover, Working
  <2>2. ~ Ahead(s, r) BY <1>4 DEF Ahead
  <2> QED BY <1>2, <2>1, <2>2, HandedStep
<1> QED BY <1>3, <1>4, JobsStep

-------------------------------------------------------------------------------
(* One slot at a time.                                                         *)

\* No job has yet been taken while another slot was busy, nor is by this step.
NoOverlap == ~ Struck("overlap")'

LEMMA NoOverlapYet ==
  ASSUME TypeInv, Next, NoOverlap
  PROVE  ~ Struck("overlap")
<1>1. "overlap" \in Failures BY DEF Failures
<1>2. /\ left["overlap"] \in Nat /\ left'["overlap"] \in Nat /\ Budget["overlap"] \in Nat
      /\ left'["overlap"] <= left["overlap"]
  BY <1>1, LeftStep, BudgetAssumption DEF TypeInv
<1> QED BY <1>2 DEF NoOverlap, Struck

LEMMA AloneTakes ==
  ASSUME TypeInv, Next, NoOverlap, NEW s \in Slots, NEW j \in JobIds, Take(s, j),
         NEW t \in Slots
  PROVE  run[t] = Idle
<1>1. "overlap" \in Failures /\ "overlap" # "any" BY DEF Failures
<1>2. /\ left \in [Failures -> Nat] /\ Budget["overlap"] \in Nat
      /\ left["overlap"] <= Budget["overlap"]
  BY <1>1, BudgetAssumption DEF TypeInv
<1>3. ~ Overlap
  <2>1. SUFFICES ASSUME Overlap PROVE FALSE OBVIOUS
  <2>2. left'["overlap"] = left["overlap"] - 1 BY <1>1, <1>2, <2>1 DEF Overlap
  <2>3. left["overlap"] \in Nat BY <1>1, <1>2
  <2> QED BY <1>2, <2>2, <2>3 DEF NoOverlap, Struck
<1> QED BY <1>3 DEF Take

\* Only an upsert writes to raw_records.
LEMMA RawStep ==
  ASSUME TypeInv, Next
  PROVE  UNCHANGED raw \/ \E s \in Slots : WriteRaw(s)
BY Kinds DEF Stays, Take, Processor, Fetch, SkipDeleted, FindRaw, AddIngest, PageDone, Change

\* A slot with records in hand was at work before, on the same job.
LEMMA InHandStep ==
  ASSUME TypeInv, Next, NEW s \in Slots, run'[s].todo # {}
  PROVE  run[s] # Idle /\ run'[s] # Idle /\ run'[s].job = run[s].job
<1>1. Idle.todo = {} /\ Thrown(s).todo = {} BY DEF Idle, Thrown
<1>2. run'[s] # Idle BY <1>1
<1>3. CASE run'[s] = run[s] BY <1>2, <1>3
<1>4. ASSUME NEW r \in Records, Change(r) PROVE run'[s] = run[s] BY <1>4, ChangeSource
<1>5. CASE Stays
  <2>1. run'[s] \in {run[s], Idle, Thrown(s)} BY <1>5 DEF Stays
  <2> QED BY <1>1, <1>3, <2>1
<1>6. ASSUME NEW t \in Slots, NEW j \in JobIds, Take(t, j) PROVE run'[s] = run[s]
  BY <1>6, TakeFrames
<1>7. ASSUME NEW t \in Slots, Processor(t)
      PROVE  \/ run'[s] = run[s]
             \/ run[s] # Idle /\ run'[s].job = run[s].job
  <2>1. run[t] # Idle
    BY <1>7, RunTypes DEF Processor, Fetch, SkipDeleted, FindRaw, WriteRaw, AddIngest, PageDone
  <2>2. run'[t].job = run[t].job /\ \A u \in Slots : u # t => run'[u] = run[u]
    BY <1>7, FetchAdvances, SkipAdvances, FindAdvances, WriteAdvances, AddAdvances,
       DoneAdvances DEF Processor, Advanced
  <2> QED BY <2>1, <2>2
<1> QED BY <1>2, <1>3, <1>4, <1>5, <1>6, <1>7, Kinds

LEMMA OneSlotStep ==
  ASSUME TypeInv, OneSlot, Next, NoOverlap
  PROVE  OneSlot'
<1>1. SUFFICES \/ \A s \in Slots : run[s] = Idle => run'[s] = Idle
               \/ \E s \in Slots : \A t \in Slots : t # s => run'[t] = Idle
  BY DEF OneSlot
<1>2. ASSUME NEW r \in Records, Change(r)
      PROVE  \A s \in Slots : run[s] = Idle => run'[s] = Idle
  BY <1>2, ChangeSource
<1>3. CASE Stays BY <1>3 DEF Stays
<1>4. ASSUME NEW s \in Slots, NEW j \in JobIds, Take(s, j)
      PROVE  \A t \in Slots : t # s => run'[t] = Idle
  <2>1. \A t \in Slots : run[t] = Idle BY <1>4, AloneTakes
  <2> QED BY <1>4, <2>1, TakeFrames
<1>5. ASSUME NEW s \in Slots, Processor(s)
      PROVE  \A t \in Slots : run[t] = Idle => run'[t] = Idle
  <2>1. run[s] # Idle
    BY <1>5, RunTypes DEF Processor, Fetch, SkipDeleted, FindRaw, WriteRaw, AddIngest, PageDone
  <2>2. \A t \in Slots : t # s => run'[t] = run[t]
    BY <1>5, FetchAdvances, SkipAdvances, FindAdvances, WriteAdvances, AddAdvances,
       DoneAdvances DEF Processor, Advanced
  <2> QED BY <2>1, <2>2
<1> QED BY <1>2, <1>3, <1>4, <1>5, Kinds

LEMMA WritesSoundStep ==
  ASSUME TypeInv, PagesSound, FoundSound, OneSlot, WritesSound, Next
  PROVE  WritesSound'
<1> SUFFICES ASSUME NEW s \in Slots, NEW p \in run'[s].todo, At(s, p)'
             PROVE  /\ run'[s].pc = "write" /\ run'[s].found = 0 => ~ HasDoc(p.rec)'
                    /\ run'[s].pc = "enqueue" =>
                         \E d \in DocIds' : raw'[d] = [rec |-> p.rec, ver |-> p.ver]
  BY DEF WritesSound
<1>1. CASE run'[s] = run[s]
  <2>1. p \in run[s].todo /\ At(s, p) BY <1>1 DEF At
  <2>2. UNCHANGED raw
    <3>1. SUFFICES ASSUME NEW t \in Slots, WriteRaw(t) PROVE FALSE BY RawStep
    <3>2. run[t].pc = "write" /\ run'[t].pc = "enqueue"
      BY <3>1, WriteAdvances DEF WriteRaw, Advanced
    <3>3. run[s] # Idle /\ run[t] # Idle BY <2>1, <3>2, RunTypes
    <3>4. s = t BY <3>3 DEF OneSlot
    <3> QED BY <1>1, <3>2, <3>4
  <2> QED BY <1>1, <2>1, <2>2 DEF WritesSound, HasDoc, DocIds
<1>2. CASE FindRaw(s)
  <2>1. PICK q \in run[s].todo :
          /\ At(s, q) /\ Advanced(s, "write", run[s].todo, run[s].next)
          /\ run'[s].found \in Matches(q.rec)
    BY <1>2, FindAdvances
  <2>2. p \in run[s].todo /\ At(s, p) BY <2>1 DEF At, Advanced
  <2>3. p = q BY <2>1, <2>2, AtIsOne
  <2>4. 0 \notin DocIds BY DocTypes
  <2>5. run'[s].found = 0 => ~ HasDoc(p.rec) BY <2>1, <2>3, <2>4 DEF Matches, HasDoc
  <2>6. UNCHANGED raw BY <1>2 DEF FindRaw
  <2>7. run'[s].pc = "write" BY <2>1 DEF Advanced
  <2> QED BY <2>5, <2>6, <2>7 DEF HasDoc, DocIds
<1>3. CASE WriteRaw(s)
  <2>1. PICK q \in run[s].todo : At(s, q) /\ raw' = Written(run[s].found, q)
    BY <1>3, WriteAdvances
  <2>2. Advanced(s, "enqueue", run[s].todo, run[s].next) BY <1>3, WriteAdvances
  <2>3. p \in run[s].todo /\ At(s, p) BY <2>2 DEF At, Advanced
  <2>4. p = q BY <2>1, <2>3, AtIsOne
  <2>5. \E d \in DocIds' : raw'[d] = [rec |-> q.rec, ver |-> q.ver]
    BY <1>3, <2>1, UpsertDocs DEF WriteRaw
  <2>6. run'[s].pc = "enqueue" BY <2>2 DEF Advanced
  <2> QED BY <2>4, <2>5, <2>6
<1> QED BY <1>1, <1>2, <1>3, PcStep

LEMMA LateChangesStep ==
  ASSUME TypeInv, JobsSound, OneSlot, LateChanges, Next
  PROVE  LateChanges'
<1> SUFFICES ASSUME NEW s \in Slots, NEW p \in run'[s].todo, NEW j \in JobIds',
                    p.seq < source'[p.rec].seq, run'[s].job = j \/ j \in Completed'
             PROVE  source'[p.rec].seq > jobs'[j].upto
  BY DEF LateChanges
<1>1. run[s] # Idle /\ run'[s] # Idle /\ run'[s].job = run[s].job BY InHandStep
<1>2. j \in JobIds /\ (run[s].job = j \/ j \in Completed)
  <2>1. CASE run'[s].job = j BY <1>1, <2>1, RunTypes
  <2>2. CASE j \in Completed BY <2>2 DEF Completed
  <2>3. ASSUME NEW t \in Slots, run[t].pc = "done", run'[t] = Idle PROVE FALSE
    <3>1. run[t] # Idle BY <2>3, RunTypes
    <3>2. s = t BY <1>1, <3>1 DEF OneSlot
    <3> QED BY <1>1, <2>3, <3>2
  <2> QED BY <2>1, <2>2, <2>3, JobsStep
<1>3. jobs'[j].upto = jobs[j].upto BY <1>2, JobsStep DEF JobsKept
<1>4. CASE run'[s].todo \subseteq run[s].todo /\ UNCHANGED source
  BY <1>2, <1>3, <1>4 DEF LateChanges
<1>5. ASSUME run'[s].todo \subseteq run[s].todo, NEW r \in Records, Change(r)
      PROVE  source'[p.rec].seq > jobs'[j].upto
  <2>1. p \in run[s].todo /\ p.rec \in Records BY <1>5, RunTypes DEF Snapshots
  <2>2. CASE p.rec = r
    <3>1. source'[p.rec].seq = clock + 1 /\ clock \in Nat
      BY <1>5, <2>2, ChangeSource DEF TypeInv
    <3>2. jobs[j].upto <= clock /\ jobs[j].upto \in Nat
      BY <1>2, JobTypes DEF JobsSound, Jobs
    <3> QED BY <1>3, <3>1, <3>2
  <2>3. CASE p.rec # r
    <3>1. source'[p.rec] = source[p.rec] BY <1>5, <2>1, <2>3, ChangeSource
    <3> QED BY <1>2, <1>3, <2>1, <3>1 DEF LateChanges
  <2> QED BY <2>2, <2>3
<1>6. ASSUME NEW c \in Nat, run'[s].todo = Page(c), UNCHANGED source PROVE FALSE
  <2>1. p.seq = source[p.rec].seq /\ source[p.rec].seq \in Nat
    BY <1>6 DEF Page, Snapshot, PageAfter, Pending, TypeInv, Sources
  <2> QED BY <1>6, <2>1
<1> QED BY <1>4, <1>5, <1>6, TodoStep, SourceStep

\* An upsert does not undo the landing of a record that a running job, or one that
\* is completed, covers: what it lands is the source's version or another record's.
LEMMA LandedStep ==
  ASSUME TypeInv, PagesSound, FoundSound, OneSlot, LateChanges, Next,
         NEW j \in JobIds,
         \/ j \in Completed
         \/ \E s \in Slots : Working(s) /\ run[s].job = j,
         NEW r \in Window(j), source'[r] = source[r], Landed(r)
  PROVE  Landed(r)'
<1>1. CASE UNCHANGED raw BY <1>1 DEF Landed, DocIds
<1>2. ASSUME NEW t \in Slots, WriteRaw(t) PROVE Landed(r)'
  <2>1. PICK p \in run[t].todo : At(t, p) /\ raw' = Written(run[t].found, p)
    BY <1>2, WriteAdvances
  <2>2. run[t].pc = "write" /\ run[t] # Idle BY <1>2, RunTypes DEF WriteRaw
  <2>3. /\ DocsKept
        /\ \E d \in DocIds' : raw'[d] = [rec |-> p.rec, ver |-> p.ver]
        /\ \A d \in DocIds : raw[d].rec # p.rec => raw'[d] = raw[d]
    BY <2>1, <2>2, UpsertDocs
  <2>4. CASE p.rec # r
    <3>1. PICK d \in DocIds : raw[d] = [rec |-> r, ver |-> source[r].ver] BY DEF Landed
    <3>2. d \in DocIds' /\ raw'[d] = raw[d] BY <2>3, <2>4, <3>1 DEF DocsKept
    <3> QED BY <3>1, <3>2 DEF Landed
  <2>5. CASE p.rec = r
    <3>1. p.seq \in Nat /\ r \in Records /\ source[r].seq \in Nat
      BY RunTypes DEF Snapshots, Window, TypeInv, Sources
    <3>2. p.seq <= source[r].seq /\ (p.seq = source[r].seq => p = Snapshot(r))
      BY <2>5 DEF PagesSound
    <3>3. ~ (p.seq < source[r].seq)
      <4>1. run[t].job = j \/ j \in Completed
        <5>1. ASSUME NEW s \in Slots, Working(s), run[s].job = j PROVE run[t].job = j
          <6>1. run[s] # Idle BY <5>1, RunTypes
          <6>2. s = t BY <2>2, <6>1 DEF OneSlot
          <6> QED BY <5>1, <6>2
        <5> QED BY <5>1
      <4>2. jobs[j].upto \in Nat /\ jobs[j].since \in Nat BY JobTypes DEF Jobs
      <4>3. source[r].seq <= jobs[j].upto BY <3>1, <4>2 DEF Window
      <4>4. p.seq < source[r].seq => source[r].seq > jobs[j].upto
        BY <2>5, <4>1 DEF LateChanges
      <4> QED BY <3>1, <4>2, <4>3, <4>4
    <3>4. p = Snapshot(r) BY <3>1, <3>2, <3>3
    <3> QED BY <2>3, <3>4 DEF Landed, Snapshot
  <2> QED BY <2>4, <2>5
<1> QED BY <1>1, <1>2, RawStep

LEMMA RunsLandStep ==
  ASSUME TypeInv, SourceSound, JobsSound, PagesSound, FoundSound,
         OneSlot, WritesSound, LateChanges, RunsLand, Next
  PROVE  RunsLand'
<1> SUFFICES ASSUME NEW s \in Slots, Working(s)', NEW j \in JobIds', run'[s].job = j,
                    NEW r \in Window(j)'
             PROVE  Landed(r)' \/ Ahead(s, r)'
  BY DEF RunsLand
<1>1. j \in JobIds BY WorkStep
<1>2. r \in Window(j) /\ source'[r] = source[r] BY <1>1, WindowStep
<1>3. r \in Records /\ ~ source[r].deleted BY <1>2 DEF Window
<1>4. CASE Working(s) /\ run[s].job = j
  <2>1. Landed(r) \/ Ahead(s, r) BY <1>1, <1>2, <1>4 DEF RunsLand
  <2>2. Landed(r) => Landed(r)' BY <1>1, <1>2, <1>4, LandedStep
  <2>3. CASE Ahead(s, r)
    <3>1. CASE AddIngest(s) /\ At(s, Snapshot(r))
      <4>1. run[s].pc = "enqueue" /\ Snapshot(r) \in run[s].todo
        BY <3>1 DEF AddIngest, At
      <4>2. PICK d \in DocIds :
              raw[d] = [rec |-> Snapshot(r).rec, ver |-> Snapshot(r).ver]
        BY <3>1, <4>1 DEF WritesSound
      <4>3. Landed(r) BY <4>2 DEF Landed, Snapshot
      <4> QED BY <2>2, <4>3
    <3> QED BY <1>2, <1>3, <2>3, <3>1, AheadStep
  <2> QED BY <2>1, <2>2, <2>3
<1>5. CASE Take(s, j) BY <1>1, <1>5, TakenIsAhead
<1> QED BY <1>4, <1>5, WorkStep

LEMMA OneRawStep ==
  ASSUME TypeInv, FoundSound, WritesSound, OneRawPerRecord, Next
  PROVE  OneRawPerRecord'
<1>1. CASE UNCHANGED raw BY <1>1 DEF OneRawPerRecord, DocIds
<1>2. ASSUME NEW s \in Slots, WriteRaw(s) PROVE OneRawPerRecord'
  <2>1. PICK p \in run[s].todo : At(s, p) /\ raw' = Written(run[s].found, p)
    BY <1>2, WriteAdvances
  <2>2. run[s].pc = "write" BY <1>2 DEF WriteRaw
  <2>3. /\ DocsKept
        /\ \A d \in DocIds' :
             d \in DocIds \/ (run[s].found = 0 /\ d = Len(raw) + 1 /\ raw'[d].rec = p.rec)
    BY <2>1, <2>2, UpsertDocs
  <2>4. run[s].found = 0 => \A d \in DocIds : raw[d].rec # p.rec
    BY <2>1, <2>2 DEF WritesSound, HasDoc
  <2>5. ASSUME NEW d1 \in DocIds', NEW d2 \in DocIds', raw'[d1].rec = raw'[d2].rec
        PROVE  d1 = d2
    <3>1. CASE d1 \in DocIds /\ d2 \in DocIds
      BY <2>3, <2>5, <3>1 DEF DocsKept, OneRawPerRecord
    <3>2. ASSUME NEW d \in DocIds, NEW new \in DocIds' \ DocIds PROVE raw'[d].rec # raw'[new].rec
      BY <2>3, <2>4, <3>2 DEF DocsKept
    <3>3. CASE d1 \notin DocIds /\ d2 \notin DocIds BY <2>3, <3>3
    <3> QED BY <2>5, <3>1, <3>2, <3>3
  <2> QED BY <2>5 DEF OneRawPerRecord
<1> QED BY <1>1, <1>2, RawStep

LEMMA CompletedLandedStep ==
  ASSUME TypeInv, JobsSound, PagesSound, FoundSound, OneSlot, LateChanges, RunsLand,
         CompletedLanded, Next
  PROVE  CompletedLanded'
<1> SUFFICES ASSUME NEW j \in Completed', NEW r \in Window(j)' PROVE Landed(r)'
  BY DEF CompletedLanded, Landed
<1>1. j \in JobIds BY JobsStep DEF Completed
<1>2. r \in Window(j) /\ source'[r] = source[r] /\ r \in Records
  BY <1>1, WindowStep DEF Window
<1>3. CASE j \in Completed
  <2>1. Landed(r) BY <1>2, <1>3 DEF CompletedLanded, Landed
  <2> QED BY <1>1, <1>2, <1>3, <2>1, LandedStep
<1>4. ASSUME NEW s \in Slots, run[s].pc = "done", run[s].job = j PROVE Landed(r)'
  <2>1. Working(s) BY <1>4 DEF Working
  <2>2. Landed(r) \/ Ahead(s, r) BY <1>1, <1>2, <1>4, <2>1 DEF RunsLand
  <2>3. ~ Ahead(s, r) BY <1>4 DEF Ahead
  <2> QED BY <1>1, <1>2, <1>4, <2>1, <2>2, <2>3, LandedStep
<1> QED BY <1>3, <1>4, JobsStep

LEMMA SerialSoundStep ==
  ASSUME TypeInv, SourceSound, JobsSound, PagesSound, FoundSound, SerialSound, Next
  PROVE  SerialSound'
<1>1. SUFFICES ASSUME NoOverlap PROVE Serial' BY DEF SerialSound, NoOverlap
<1>2. Serial BY <1>1, NoOverlapYet DEF SerialSound
<1>3. OneSlot' BY <1>1, <1>2, OneSlotStep DEF Serial
<1>4. WritesSound' BY <1>2, WritesSoundStep DEF Serial
<1>5. LateChanges' BY <1>2, LateChangesStep DEF Serial
<1>6. RunsLand' BY <1>2, RunsLandStep DEF Serial
<1>7. OneRawPerRecord' BY <1>2, OneRawStep DEF Serial
<1>8. CompletedLanded' BY <1>2, CompletedLandedStep DEF Serial
<1> QED BY <1>3, <1>4, <1>5, <1>6, <1>7, <1>8 DEF Serial

-------------------------------------------------------------------------------
(* The theorems.                                                               *)

LEMMA Initial ==
  ASSUME Init
  PROVE  IInv
<1>1. JobIds = {} /\ DocIds = {} /\ clock = 0 BY DEF Init, SourceInit, JobIds, DocIds
<1>2. \A s \in Slots : run[s] = Idle BY DEF Init
<1>3. Idle.todo = {} /\ Idle.pc = "idle" BY DEF Idle
<1>4. \A r \in Records : source[r] = [seq |-> 0, ver |-> 0, deleted |-> FALSE]
  BY DEF Init, SourceInit
<1>5. TypeInv
  <2>1. source \in [Records -> Sources] BY DEF Init, SourceInit, Sources
  <2>2. jobs \in Seq(Jobs) /\ raw \in Seq(Docs) BY DEF Init
  <2>3. left \in [Failures -> Nat] /\ \A k \in Failures : left[k] <= Budget[k]
    BY BudgetAssumption DEF Init
  <2> QED BY <1>1, <2>1, <2>2, <2>3 DEF TypeInv, Init
<1>6. SourceSound BY <1>1, <1>4 DEF SourceSound
<1>7. JobsSound BY <1>1 DEF JobsSound, Init
<1>8. PagesSound /\ FoundSound BY <1>2, <1>3 DEF PagesSound, FoundSound
<1>9. RunsCover /\ CompletedCovers /\ EnqueuedIsLanded
  BY <1>1 DEF RunsCover, CompletedCovers, EnqueuedIsLanded, Completed, Init
<1>10. Serial
  BY <1>1, <1>2, <1>3 DEF Serial, OneSlot, WritesSound, LateChanges, RunsLand,
                          OneRawPerRecord, CompletedLanded, Completed
<1> QED BY <1>5, <1>6, <1>7, <1>8, <1>9, <1>10 DEF IInv, SerialSound

LEMMA Preserved ==
  ASSUME IInv, [Next]_vars
  PROVE  IInv'
<1>1. CASE Next
  BY <1>1, TypeInvStep, SourceSoundStep, JobsSoundStep, PagesSoundStep, FoundSoundStep,
     RunsCoverStep, CompletedCoversStep, EnqueuedIsLandedStep, SerialSoundStep DEF IInv
<1>2. CASE UNCHANGED vars
  <2>1. UNCHANGED <<source, clock, notified, inbox, jobs, run, raw, enqueued, left>>
    BY <1>2 DEF vars
  <2>2. TypeInv' /\ SourceSound' /\ JobsSound'
    BY <2>1 DEF IInv, TypeInv, SourceSound, JobsSound, JobIds, Frames
  <2>3. PagesSound' /\ FoundSound'
    BY <2>1 DEF IInv, PagesSound, FoundSound, Snapshot, At, HasDoc, DocIds
  <2>4. RunsCover' /\ CompletedCovers' /\ EnqueuedIsLanded'
    BY <2>1 DEF IInv, RunsCover, CompletedCovers, EnqueuedIsLanded, Completed, JobIds, DocIds,
                Working, Window, Handed, Ahead, Since, Job, Snapshot
  <2>5. SerialSound'
    <3>1. Struck("overlap")' = Struck("overlap") BY <2>1 DEF Struck
    <3>2. Serial => OneSlot' /\ WritesSound' /\ LateChanges'
      BY <2>1 DEF Serial, OneSlot, WritesSound, LateChanges, At, HasDoc, DocIds, JobIds,
                  Completed
    <3>3. Serial => RunsLand' /\ OneRawPerRecord' /\ CompletedLanded'
      BY <2>1 DEF Serial, RunsLand, OneRawPerRecord, CompletedLanded, Completed, JobIds,
                  DocIds, Working, Window, Landed, Ahead, Since, Job, Snapshot
    <3> QED BY <3>1, <3>2, <3>3 DEF IInv, SerialSound, Serial
  <2> QED BY <2>2, <2>3, <2>4, <2>5 DEF IInv
<1> QED BY <1>1, <1>2

\* The invariant that carries the others.
THEOREM Inductive == Spec => []IInv
BY Initial, Preserved, PTL DEF Spec

\* A completed sync job has handed over what it was notified of: however the source
\* moves, attempts fail and slots overtake each other, the present version of every
\* record it covers has an ingest job.
THEOREM CompletedHasCovered == Spec => []CompletedCovers
BY Inductive, PTL DEF IInv

\* An ingest job is added only for a record that has a document in raw_records.
THEOREM LandedBeforeEnqueued == Spec => []EnqueuedIsLanded
BY Inductive, PTL DEF IInv

\* As long as no job was taken while another ran, raw_records holds the present
\* version of whatever a completed job covers.
THEOREM LandsInSeries == Spec => []SerialLanded
<1>1. IInv => SerialLanded BY DEF IInv, SerialSound, Serial, SerialLanded
<1> QED BY <1>1, Inductive, PTL

\* As long as no job was taken while another ran, landRawRecord's upsert leaves one
\* document for a record.
THEOREM OneRawInSeries == Spec => []SerialOneRaw
<1>1. IInv => SerialOneRaw BY DEF IInv, SerialSound, Serial, SerialOneRaw
<1> QED BY <1>1, Inductive, PTL

===============================================================================
