---------------------------- MODULE TenantApiProofs ---------------------------
(* Type correctness and tenant isolation of TenantApi, for any tenants, Nango   *)
(* connections, handlers and bounds.                                            *)
EXTENDS TenantApi, TLAPS

\* The connection that a job, a document or a payload names is its tenant's, and
\* stands for the Nango connection it came from.
Owned(x) == [id |-> x.connection, tenant |-> x.tenant, nango |-> x.nango] \in connections

\* What a handler holds across an await is owned, and what a backfill read is
\* the caller's.
FrameOwned(f) ==
  /\ f.pc = "add" => Owned(f.job)
  /\ f.pc = "backfill" =>
       \A d \in f.todo : Owned(d) /\ d.tenant = f.tenant /\ d.connection = f.connection

AllOwned ==
  /\ \A x \in jobs \cup raw \cup ingest : Owned(x)
  /\ \A h \in Handlers : FrameOwned(frame[h])

IInv == TypeOK /\ AllOwned

-------------------------------------------------------------------------------
(* Frames, jobs and connections.                                               *)

\* The type of a frame follows from where it waits.
LEMMA FrameTypes ==
  ASSUME NEW f \in Frames
  PROVE  /\ f.pc = "add" => f.job \in Job
         /\ f.pc = "register" => f.tenant \in Tenants /\ f.nango \in NangoIds
         /\ f.pc = "backfill" => /\ f.tenant \in Tenants /\ f.connection \in ConnectionIds
                                 /\ f.todo \subseteq Document
<1>1. CASE f = Idle
  BY <1>1 DEF Idle
<1>2. CASE f \in [pc : {"register"}, tenant : Tenants, nango : NangoIds, new : BOOLEAN]
  BY <1>2
<1>3. CASE f \in [pc : {"add"}, job : Job]
  BY <1>3
<1>4. CASE f \in [pc : {"backfill"}, tenant : Tenants, connection : ConnectionIds,
                  todo : SUBSET Document]
  BY <1>4
<1> QED
  BY <1>1, <1>2, <1>3, <1>4 DEF Frames

\* The three kinds of frames that handlers are put into.
LEMMA AddFrame ==
  ASSUME NEW j \in Job
  PROVE  [pc |-> "add", job |-> j] \in Frames
BY DEF Frames

LEMMA BackfillFrame ==
  ASSUME NEW t \in Tenants, NEW id \in ConnectionIds, NEW ds \in SUBSET Document
  PROVE  [pc |-> "backfill", tenant |-> t, connection |-> id, todo |-> ds] \in Frames
BY DEF Frames

LEMMA IdleFrame == Idle \in Frames /\ Idle.pc = "idle"
BY DEF Frames, Idle

\* Putting a handler into a well-typed, owned frame keeps all frames so.
LEMMA FrameSet ==
  ASSUME TypeOK, NEW h \in Handlers, NEW f \in Frames,
         frame' = [frame EXCEPT ![h] = f], UNCHANGED connections,
         AllOwned, FrameOwned(f)
  PROVE  /\ frame' \in [Handlers -> Frames]
         /\ \A k \in Handlers : FrameOwned(frame[k])'
<1>1. frame \in [Handlers -> Frames]
  BY DEF TypeOK
<1>2. frame' \in [Handlers -> Frames]
  BY <1>1
<1>3. ASSUME NEW k \in Handlers
      PROVE  FrameOwned(frame[k])'
  <2>1. CASE k = h
    <3>1. frame'[k] = f
      BY <1>1, <2>1
    <3> QED
      BY <3>1 DEF FrameOwned, Owned
  <2>2. CASE k # h
    <3>1. frame'[k] = frame[k]
      BY <1>1, <2>2
    <3>2. FrameOwned(frame[k])
      BY DEF AllOwned
    <3> QED
      BY <3>1, <3>2 DEF FrameOwned, Owned
  <2> QED
    BY <2>1, <2>2
<1> QED
  BY <1>2, <1>3

\* A registered connection's jobs are well-typed and owned.
LEMMA JobsOfConnections ==
  ASSUME TypeOK, NEW c \in connections
  PROVE  /\ ReconcileJob(c) \in Job /\ SyncJob(c) \in Job
         /\ Owned(ReconcileJob(c)) /\ Owned(SyncJob(c))
<1>1. c \in Connection /\ notices \in Nat
  BY DEF TypeOK
<1>2. ReconcileJob(c) \in Job /\ SyncJob(c) \in Job
  BY <1>1 DEF Connection, Job, ReconcileJob, SyncJob
<1>3. c = [id |-> c.id, tenant |-> c.tenant, nango |-> c.nango]
  BY <1>1 DEF Connection
<1> QED
  BY <1>2, <1>3 DEF Owned, ReconcileJob, SyncJob

\* What a job of a tenant's finds is the tenant's.
LEMMA PresentOwned ==
  ASSUME TypeOK, NEW j \in jobs, Owned(j)
  PROVE  /\ Present(j) \subseteq Document /\ Land(j) \subseteq raw \cup Present(j)
         /\ \A d \in Present(j) : Owned(d)
<1>1. j \in Job /\ latest[j.nango] \in Nat
  BY DEF TypeOK, Job
<1>2. Present(j) \subseteq Document
  BY <1>1 DEF Present, Document, Job
<1>3. \A d \in Present(j) : Owned(d)
  BY DEF Present, Owned
<1>4. Land(j) \subseteq raw \cup Present(j)
  BY DEF Land
<1> QED
  BY <1>2, <1>3, <1>4

-------------------------------------------------------------------------------
(* Every step keeps the invariant.                                             *)

LEMMA RegisterStep ==
  ASSUME IInv, NEW h \in Handlers, WriteConnection(h)
  PROVE  IInv'
<1> USE DEF IInv
<1> DEFINE new == [id |-> NewId, tenant |-> frame[h].tenant, nango |-> frame[h].nango]
<1>1. frame[h] \in Frames
  BY DEF TypeOK
<1>2. frame[h].tenant \in Tenants /\ frame[h].nango \in NangoIds
  BY <1>1, FrameTypes DEF WriteConnection
<1>3. FreeIds # {} => NewId \in ConnectionIds
  BY DEF NewId, FreeIds
<1>4. /\ connections \subseteq connections'
      /\ connections' \subseteq Connection
  <2>1. CASE UNCHANGED connections
    BY <2>1 DEF TypeOK
  <2>2. CASE FreeIds # {} /\ connections' = connections \cup {new}
    BY <2>2, <1>2, <1>3 DEF TypeOK, Connection
  <2> QED
    BY <2>1, <2>2 DEF WriteConnection
<1>5. frame' \in [Handlers -> Frames]
  BY IdleFrame DEF TypeOK, WriteConnection
<1>6. TypeOK'
  BY <1>4, <1>5 DEF TypeOK, WriteConnection
<1>7. ASSUME NEW x, Owned(x)
      PROVE  Owned(x)'
  BY <1>4, <1>7 DEF Owned
<1>8. \A x \in (jobs \cup raw \cup ingest)' : Owned(x)'
  BY <1>7 DEF AllOwned, WriteConnection
<1>9. ASSUME NEW k \in Handlers
      PROVE  FrameOwned(frame[k])'
  <2>1. CASE k = h
    <3>1. frame'[k].pc = "idle"
      BY <2>1, IdleFrame DEF TypeOK, WriteConnection
    <3> QED
      BY <3>1 DEF FrameOwned
  <2>2. CASE k # h
    <3>1. frame'[k] = frame[k]
      BY <2>2 DEF TypeOK, WriteConnection
    <3>2. FrameOwned(frame[k])
      BY DEF AllOwned
    <3> QED
      BY <3>1, <3>2, <1>7 DEF FrameOwned
  <2> QED
    BY <2>1, <2>2
<1> QED
  BY <1>6, <1>8, <1>9 DEF AllOwned

\* A request that only puts its handler into a frame.
LEMMA FrameStep ==
  ASSUME IInv, NEW h \in Handlers, NEW f \in Frames, FrameOwned(f), notices' \in Nat,
         frame' = [frame EXCEPT ![h] = f],
         UNCHANGED <<connections, latest, sweep, jobs, raw, ingest, failures>>
  PROVE  IInv'
<1>1. /\ frame' \in [Handlers -> Frames]
      /\ \A k \in Handlers : FrameOwned(frame[k])'
  BY FrameSet DEF IInv
<1>2. TypeOK'
  BY <1>1 DEF IInv, TypeOK
<1>3. \A x \in (jobs \cup raw \cup ingest)' : Owned(x)'
  BY DEF IInv, AllOwned, Owned
<1> QED
  BY <1>1, <1>2, <1>3 DEF IInv, AllOwned

LEMMA RequestStep ==
  ASSUME IInv, NEW h \in Handlers, Request(h)
  PROVE  IInv'
<1>0. notices \in Nat /\ notices + 1 \in Nat
  BY DEF IInv, TypeOK
<1>1. ASSUME NEW t \in Tenants, NEW n \in NangoIds, PostConnection(h, t, n)
      PROVE  IInv'
  <2> DEFINE f == [pc |-> "register", tenant |-> t, nango |-> n,
                   new |-> \A c \in connections : ~(c.tenant = t /\ c.nango = n)]
  <2>1. (\A c \in connections : ~(c.tenant = t /\ c.nango = n)) \in BOOLEAN
    OBVIOUS
  <2>2. f \in Frames
    BY <2>1 DEF Frames
  <2>3. FrameOwned(f)
    BY DEF FrameOwned
  <2>4. frame' = [frame EXCEPT ![h] = f]
    BY <1>1 DEF PostConnection
  <2> HIDE DEF f
  <2> QED
    BY <1>0, <1>1, <2>2, <2>3, <2>4, FrameStep DEF PostConnection
<1>2. ASSUME NEW t \in Tenants, NEW id \in ConnectionIds, PostReconcile(h, t, id)
      PROVE  IInv'
  <2>1. PICK c \in connections :
           frame' = [frame EXCEPT ![h] = [pc |-> "add", job |-> ReconcileJob(c)]]
    BY <1>2 DEF PostReconcile
  <2>2. ReconcileJob(c) \in Job /\ Owned(ReconcileJob(c))
    BY JobsOfConnections DEF IInv
  <2>3. [pc |-> "add", job |-> ReconcileJob(c)] \in Frames
    BY <2>2, AddFrame
  <2>4. FrameOwned([pc |-> "add", job |-> ReconcileJob(c)])
    BY <2>2 DEF FrameOwned
  <2> QED
    BY <1>0, <1>2, <2>1, <2>3, <2>4, FrameStep DEF PostReconcile
<1>3. ASSUME NEW t \in Tenants, NEW id \in ConnectionIds, PostBackfill(h, t, id)
      PROVE  IInv'
  <2> DEFINE f == [pc |-> "backfill", tenant |-> t, connection |-> id, todo |-> Landed(t, id)]
  <2>1. Landed(t, id) \subseteq Document
    BY DEF IInv, TypeOK, Landed
  <2>2. f \in Frames
    BY <2>1, BackfillFrame
  <2>3. \A d \in Landed(t, id) : Owned(d) /\ d.tenant = t /\ d.connection = id
    BY DEF Landed, IInv, AllOwned
  <2>4. FrameOwned(f)
    BY <2>3 DEF FrameOwned
  <2>5. frame' = [frame EXCEPT ![h] = f]
    BY <1>3 DEF PostBackfill
  <2> HIDE DEF f
  <2> QED
    BY <1>0, <1>3, <2>2, <2>4, <2>5, FrameStep DEF PostBackfill
<1>4. ASSUME NEW n \in NangoIds, PostWebhook(h, n)
      PROVE  IInv'
  <2>1. CASE UNCHANGED frame
    BY <1>4, <2>1, <1>0 DEF PostWebhook, IInv, TypeOK, AllOwned, FrameOwned, Owned
  <2>2. ASSUME NEW c \in Lookup(n),
               frame' = [frame EXCEPT ![h] = [pc |-> "add", job |-> SyncJob(c)]]
        PROVE  IInv'
    <3>1. c \in connections
      BY DEF Lookup
    <3>2. SyncJob(c) \in Job /\ Owned(SyncJob(c))
      BY <3>1, JobsOfConnections DEF IInv
    <3>3. [pc |-> "add", job |-> SyncJob(c)] \in Frames
      BY <3>2, AddFrame
    <3>4. FrameOwned([pc |-> "add", job |-> SyncJob(c)])
      BY <3>2 DEF FrameOwned
    <3> QED
      BY <1>0, <1>4, <2>2, <3>3, <3>4, FrameStep DEF PostWebhook
  <2> QED
    BY <1>4, <2>1, <2>2 DEF PostWebhook
<1>5. ASSUME NEW t \in Tenants, NEW n \in NangoIds, EnsureDemo(h, t, n)
      PROVE  IInv'
  <2> DEFINE f == [pc |-> "register", tenant |-> t, nango |-> n,
                   new |-> \A c \in connections : c.tenant # t]
  <2>1. (\A c \in connections : c.tenant # t) \in BOOLEAN
    OBVIOUS
  <2>2. f \in Frames
    BY <2>1 DEF Frames
  <2>3. FrameOwned(f)
    BY DEF FrameOwned
  <2>4. frame' = [frame EXCEPT ![h] = f]
    BY <1>5 DEF EnsureDemo
  <2> HIDE DEF f
  <2> QED
    BY <1>0, <1>5, <2>2, <2>3, <2>4, FrameStep DEF EnsureDemo
<1> QED
  BY <1>1, <1>2, <1>3, <1>4, <1>5 DEF Request

LEMMA AddJobStep ==
  ASSUME IInv, NEW h \in Handlers, AddJob(h)
  PROVE  IInv'
<1>1. frame[h] \in Frames /\ FrameOwned(frame[h])
  BY DEF IInv, TypeOK, AllOwned
<1>2. frame[h].job \in Job /\ Owned(frame[h].job)
  BY <1>1, FrameTypes DEF AddJob, FrameOwned
<1>3. Idle \in Frames /\ FrameOwned(Idle)
  BY IdleFrame DEF FrameOwned
<1>4. /\ frame' \in [Handlers -> Frames]
      /\ \A k \in Handlers : FrameOwned(frame[k])'
  BY <1>3, FrameSet DEF IInv, AddJob
<1>5. TypeOK'
  BY <1>2, <1>4 DEF IInv, TypeOK, AddJob
<1>6. \A x \in (jobs \cup raw \cup ingest)' : Owned(x)'
  BY <1>2 DEF IInv, AllOwned, Owned, AddJob
<1> QED
  BY <1>4, <1>5, <1>6 DEF IInv, AllOwned

LEMMA BackfillStep ==
  ASSUME IInv, NEW h \in Handlers, BackfillOne(h)
  PROVE  IInv'
<1>1. /\ frame[h] \in Frames /\ FrameOwned(frame[h])
      /\ frame[h].pc = "backfill"
  BY DEF IInv, TypeOK, AllOwned, BackfillOne
<1>2. /\ frame[h].tenant \in Tenants /\ frame[h].connection \in ConnectionIds
      /\ frame[h].todo \subseteq Document
  BY <1>1, FrameTypes
<1>3. PICK d \in frame[h].todo :
        /\ ingest' = ingest \cup
             {[tenant |-> frame[h].tenant, connection |-> frame[h].connection,
               nango |-> d.nango, version |-> d.version]}
        /\ frame' = [frame EXCEPT ![h] = Without(frame[h], d)]
  BY DEF BackfillOne
<1> DEFINE i == [tenant |-> frame[h].tenant, connection |-> frame[h].connection,
                 nango |-> d.nango, version |-> d.version]
           rest == [frame[h] EXCEPT !.todo = @ \ {d}]
<1>4. i \in Document /\ Owned(i)
  <2>1. d \in Document /\ Owned(d) /\ d.tenant = frame[h].tenant
        /\ d.connection = frame[h].connection
    BY <1>1, <1>2 DEF FrameOwned
  <2> QED
    BY <2>1 DEF Document, Owned
<1>5. rest \in Frames /\ FrameOwned(rest)
  <2>1. frame[h] \in [pc : {"backfill"}, tenant : Tenants, connection : ConnectionIds,
                      todo : SUBSET Document]
    BY <1>1 DEF Frames, Idle
  <2>2. rest = [pc |-> "backfill", tenant |-> frame[h].tenant,
                connection |-> frame[h].connection, todo |-> frame[h].todo \ {d}]
    BY <2>1
  <2>3. frame[h].todo \ {d} \in SUBSET Document
    BY <1>2
  <2>4. rest \in Frames
    BY <1>2, <2>2, <2>3, BackfillFrame
  <2>5. FrameOwned(rest)
    BY <1>1, <2>2 DEF FrameOwned
  <2> QED
    BY <2>4, <2>5
<1>6. Idle \in Frames /\ FrameOwned(Idle)
  BY IdleFrame DEF FrameOwned
<1>7. Without(frame[h], d) \in Frames /\ FrameOwned(Without(frame[h], d))
  BY <1>5, <1>6 DEF Without
<1>8. /\ frame' \in [Handlers -> Frames]
      /\ \A k \in Handlers : FrameOwned(frame[k])'
  BY <1>3, <1>7, FrameSet DEF IInv, BackfillOne
<1>9. ingest' = ingest \cup {i}
  BY <1>3
<1> HIDE DEF i, rest
<1>10. TypeOK'
  BY <1>4, <1>8, <1>9 DEF IInv, TypeOK, BackfillOne
<1>11. \A x \in (jobs \cup raw \cup ingest)' : Owned(x)'
  BY <1>4, <1>9 DEF IInv, AllOwned, Owned, BackfillOne
<1> QED
  BY <1>8, <1>10, <1>11 DEF IInv, AllOwned

LEMMA RequestFailsStep ==
  ASSUME IInv, NEW h \in Handlers, RequestFails(h)
  PROVE  IInv'
<1>1. Idle \in Frames /\ FrameOwned(Idle)
  BY IdleFrame DEF FrameOwned
<1>2. /\ frame' \in [Handlers -> Frames]
      /\ \A k \in Handlers : FrameOwned(frame[k])'
  BY <1>1, FrameSet DEF IInv, RequestFails
<1>3. TypeOK'
  BY <1>2 DEF IInv, TypeOK, RequestFails
<1>4. \A x \in (jobs \cup raw \cup ingest)' : Owned(x)'
  BY DEF IInv, AllOwned, Owned, RequestFails
<1> QED
  BY <1>2, <1>3, <1>4 DEF IInv, AllOwned

\* Steps that leave the connections and the frames alone and add what is owned.
LEMMA WorkerStep ==
  ASSUME IInv, TypeOK', UNCHANGED <<connections, frame>>,
         \A x \in (jobs \cup raw \cup ingest)' : Owned(x)
  PROVE  IInv'
<1>1. \A x \in (jobs \cup raw \cup ingest)' : Owned(x)'
  BY DEF Owned
<1>2. \A h \in Handlers : FrameOwned(frame[h])'
  BY DEF IInv, AllOwned, FrameOwned, Owned
<1> QED
  BY <1>1, <1>2 DEF IInv, AllOwned

LEMMA SweepStep ==
  ASSUME IInv, SweepTick \/ SweepOne \/ SweepFails
  PROVE  IInv'
<1>1. CASE SweepTick
  <2>1. TypeOK'
    BY <1>1 DEF IInv, TypeOK, SweepTick, Swept
  <2> QED
    BY <1>1, <2>1, WorkerStep DEF IInv, AllOwned, SweepTick
<1>2. CASE SweepOne
  <2>1. PICK c \in sweep : jobs' = jobs \cup {ReconcileJob(c)} /\ sweep' = sweep \ {c}
    BY <1>2 DEF SweepOne
  <2>2. c \in connections
    BY DEF IInv, TypeOK
  <2>3. ReconcileJob(c) \in Job /\ Owned(ReconcileJob(c))
    BY <2>2, JobsOfConnections DEF IInv
  <2>4. TypeOK'
    BY <1>2, <2>1, <2>3 DEF IInv, TypeOK, SweepOne
  <2> QED
    BY <1>2, <2>1, <2>3, <2>4, WorkerStep DEF IInv, AllOwned, SweepOne
<1>3. CASE SweepFails
  <2>1. TypeOK'
    BY <1>3 DEF IInv, TypeOK, SweepFails
  <2> QED
    BY <1>3, <2>1, WorkerStep DEF IInv, AllOwned, SweepFails
<1> QED
  BY <1>1, <1>2, <1>3

LEMMA JobStep ==
  ASSUME IInv, NEW j \in jobs, JobDone(j) \/ JobFails(j)
  PROVE  IInv'
<1>1. Owned(j)
  BY DEF IInv, AllOwned
<1>2. /\ Present(j) \subseteq Document /\ Land(j) \subseteq raw \cup Present(j)
      /\ \A d \in Present(j) : Owned(d)
  BY <1>1, PresentOwned DEF IInv
<1>3. /\ jobs' \subseteq jobs /\ raw' \subseteq raw \cup Present(j)
      /\ ingest' \subseteq ingest \cup Present(j)
      /\ UNCHANGED <<connections, latest, notices, frame, sweep>>
  BY <1>2 DEF JobDone, JobFails
<1>4. failures' \in Nat
  BY DEF IInv, TypeOK, JobDone, JobFails
<1>5. TypeOK'
  BY <1>2, <1>3, <1>4 DEF IInv, TypeOK
<1>6. \A x \in (jobs \cup raw \cup ingest)' : Owned(x)
  BY <1>2, <1>3 DEF IInv, AllOwned
<1> QED
  BY <1>3, <1>5, <1>6, WorkerStep

-------------------------------------------------------------------------------

\* The invariant is inductive.
THEOREM Inductive == Spec => []IInv
<1>1. Init => IInv
  BY IdleFrame DEF Init, IInv, TypeOK, AllOwned, FrameOwned
<1>2. IInv /\ [Next]_vars => IInv'
  <2> SUFFICES ASSUME IInv, [Next]_vars
               PROVE  IInv'
    OBVIOUS
  <2>1. CASE UNCHANGED vars
    BY <2>1 DEF vars, IInv, TypeOK, AllOwned, FrameOwned, Owned
  <2>2. ASSUME NEW n \in NangoIds, Change(n)
        PROVE  IInv'
    <3>1. TypeOK'
      BY <2>2 DEF IInv, TypeOK, Change
    <3> QED
      BY <2>2, <3>1, WorkerStep DEF IInv, AllOwned, Change
  <2>3. ASSUME NEW h \in Handlers, Request(h) \/ HandlerStep(h) \/ RequestFails(h)
        PROVE  IInv'
    BY <2>3, RequestStep, RegisterStep, AddJobStep, BackfillStep, RequestFailsStep
       DEF HandlerStep
  <2>4. CASE SweepTick \/ SweepOne \/ SweepFails
    BY <2>4, SweepStep
  <2>5. ASSUME NEW j \in jobs, JobDone(j) \/ JobFails(j)
        PROVE  IInv'
    BY <2>5, JobStep
  <2> QED
    BY <2>1, <2>2, <2>3, <2>4, <2>5 DEF Next
<1> QED
  BY <1>1, <1>2, PTL DEF Spec

\* Every state is well-typed; a running sweep only knows registered connections.
THEOREM TypeCorrect == Spec => []TypeOK
<1>1. IInv => TypeOK
  BY DEF IInv
<1> QED
  BY <1>1, Inductive, PTL

\* No path enqueues for a tenant what it has not registered the connection of.
THEOREM Isolation == Spec => []OwnRecordsOnly
<1>1. IInv => OwnRecordsOnly
  BY DEF IInv, AllOwned, OwnRecordsOnly, Owned
<1> QED
  BY <1>1, Inductive, PTL

===============================================================================
