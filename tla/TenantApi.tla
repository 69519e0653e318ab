------------------------------- MODULE TenantApi ------------------------------
(* The tenant-scoped part of the API and what fans out by connection: POST      *)
(* /connections, the webhook's lookup, the manual reconcile, the backfill of a  *)
(* connection, and the worker's sweep over all connections (app.ts,             *)
(* middleware/tenantAuth.ts, models/Connection.ts, queue/reconcileSweep.ts,     *)
(* queue/replay.ts).                                                            *)
(*                                                                              *)
(* Several tenants may register one Nango connection.  A handler is a frame     *)
(* that waits at each of its writes, so handlers, sweeps and jobs interleave    *)
(* there.  Reconcile and WebhookSync have the runs of a job; here one ends with *)
(* the present record of its Nango connection landed and enqueued, or fails.    *)
EXTENDS Naturals, FiniteSets

CONSTANTS
  Tenants,         \* tenants; an API key belongs to one of them
  NangoIds,        \* Nango's connections
  ConnectionIds,   \* bound: the _ids that connections may get
  Handlers,        \* requests and scripts at work at a time
  MaxChanges,      \* bound: changes of a Nango connection's record
  MaxNotices,      \* bound: webhooks sent
  MaxFailures      \* bound: how often a write or a job may fail

VARIABLES
  connections,     \* the collection: [id, tenant, nango]
  latest,          \* latest[n]: version of the record that Nango holds for n, 0 for none
  notices,         \* webhooks received so far
  frame,           \* frame[h]: the request that a handler is at
  sweep,           \* connections the running sweep has still to add a job for
  jobs,            \* nango-sync and reconcile jobs not finished
  raw,             \* raw_records: [tenant, connection, nango, version]
  ingest,          \* payloads enqueued for ingest: [tenant, connection, nango, version]
  failures         \* failures so far

vars == <<connections, latest, notices, frame, sweep, jobs, raw, ingest, failures>>

Connection == [id : ConnectionIds, tenant : Tenants, nango : NangoIds]

Document == [tenant : Tenants, connection : ConnectionIds, nango : NangoIds, version : Nat \ {0}]

\* A job carries copies of its connection's fields.  `key` is the jobId, given
\* for a reconcile job and a fresh one for a sync job.
Job == [queue : {"nango-sync", "reconcile"}, key : Nat, tenant : Tenants,
        connection : ConnectionIds, nango : NangoIds]

ReconcileJob(c) == [queue |-> "reconcile", key |-> 0, tenant |-> c.tenant,
                    connection |-> c.id, nango |-> c.nango]

SyncJob(c) == [queue |-> "nango-sync", key |-> notices, tenant |-> c.tenant,
               connection |-> c.id, nango |-> c.nango]

Idle == [pc |-> "idle"]

Frames ==
  {Idle}
    \cup [pc : {"register"}, tenant : Tenants, nango : NangoIds, new : BOOLEAN]
    \cup [pc : {"add"}, job : Job]
    \cup [pc : {"backfill"}, tenant : Tenants, connection : ConnectionIds, todo : SUBSET Document]

Init ==
  /\ connections = {}
  /\ latest = [n \in NangoIds |-> 0]
  /\ notices = 0
  /\ frame = [h \in Handlers |-> Idle]
  /\ sweep = {}
  /\ jobs = {}
  /\ raw = {}
  /\ ingest = {}
  /\ failures = 0

\* The record changes at the provider, and Nango syncs it.
Change(n) ==
  /\ latest[n] < MaxChanges
  /\ latest' = [latest EXCEPT ![n] = @ + 1]
  /\ UNCHANGED <<connections, notices, frame, sweep, jobs, raw, ingest, failures>>

-------------------------------------------------------------------------------
(* Connections.  tenantAuth resolves the key of a request, which is unique, to   *)
(* its tenant; requests without a known key end there.                          *)

FreeIds == ConnectionIds \ {c.id : c \in connections}

NewId == CHOOSE id \in FreeIds : TRUE

\* The upsert of POST /connections looks for the tenant's document ...
PostConnection(h, t, n) ==
  /\ frame[h] = Idle
  /\ frame' = [frame EXCEPT ![h] =
       [pc |-> "register", tenant |-> t, nango |-> n,
        new |-> \A c \in connections : ~(c.tenant = t /\ c.nango = n)]]
  /\ UNCHANGED <<connections, latest, notices, sweep, jobs, raw, ingest, failures>>

\* The demonstration scripts' upsert (ensureDemoContext), from a process of their own:
\* any connection of the tenant will do, since all are of provider "github".
EnsureDemo(h, t, n) ==
  /\ frame[h] = Idle
  /\ frame' = [frame EXCEPT ![h] =
       [pc |-> "register", tenant |-> t, nango |-> n,
        new |-> \A c \in connections : c.tenant # t]]
  /\ UNCHANGED <<connections, latest, notices, sweep, jobs, raw, ingest, failures>>

\* ... and inserts one when there was none: no unique index keeps a second out.
\* An update sets what is set already.
WriteConnection(h) ==
  /\ frame[h].pc = "register"
  /\ \/ /\ frame[h].new /\ FreeIds # {}
        /\ connections' = connections \cup
             {[id |-> NewId, tenant |-> frame[h].tenant, nango |-> frame[h].nango]}
     \/ ~frame[h].new /\ UNCHANGED connections
  /\ frame' = [frame EXCEPT ![h] = Idle]
  /\ UNCHANGED <<latest, notices, sweep, jobs, raw, ingest, failures>>

-------------------------------------------------------------------------------
(* Requests that add jobs.                                                     *)

\* findOne by nangoConnectionId alone: one of them, whoever's it is.
Lookup(n) == {c \in connections : c.nango = n}

\* The webhook adds a job for one connection with the notified id; without one
\* it answers and is done.
PostWebhook(h, n) ==
  /\ frame[h] = Idle
  /\ notices < MaxNotices
  /\ notices' = notices + 1
  /\ \/ \E c \in Lookup(n) : frame' = [frame EXCEPT ![h] = [pc |-> "add", job |-> SyncJob(c)]]
     \/ Lookup(n) = {} /\ UNCHANGED frame
  /\ UNCHANGED <<connections, latest, sweep, jobs, raw, ingest, failures>>

\* Only a connection of the tenant's own is found.
PostReconcile(h, t, id) ==
  /\ frame[h] = Idle
  /\ \E c \in connections :
       /\ c.id = id /\ c.tenant = t
       /\ frame' = [frame EXCEPT ![h] = [pc |-> "add", job |-> ReconcileJob(c)]]
  /\ UNCHANGED <<connections, latest, notices, sweep, jobs, raw, ingest, failures>>

\* A reconcile job that is still in its queue swallows one with the same jobId.
AddJob(h) ==
  /\ frame[h].pc = "add"
  /\ jobs' = jobs \cup {frame[h].job}
  /\ frame' = [frame EXCEPT ![h] = Idle]
  /\ UNCHANGED <<connections, latest, notices, sweep, raw, ingest, failures>>

\* Mutant of Landed: the query without its tenant.
LandedForAny(t, id) == {d \in raw : d.connection = id}

Landed(t, id) == {d \in raw : d.tenant = t /\ d.connection = id}

\* The id of a backfill is not looked up: the query finds nothing for another
\* tenant's connection.
PostBackfill(h, t, id) ==
  /\ frame[h] = Idle
  /\ Landed(t, id) # {}
  /\ frame' = [frame EXCEPT ![h] =
       [pc |-> "backfill", tenant |-> t, connection |-> id, todo |-> Landed(t, id)]]
  /\ UNCHANGED <<connections, latest, notices, sweep, jobs, raw, ingest, failures>>

Without(f, d) == IF f.todo = {d} THEN Idle ELSE [f EXCEPT !.todo = @ \ {d}]

\* One job for each document, as it was when it was read.
BackfillOne(h) ==
  /\ frame[h].pc = "backfill"
  /\ \E d \in frame[h].todo :
       /\ ingest' = ingest \cup
            {[tenant |-> frame[h].tenant, connection |-> frame[h].connection,
              nango |-> d.nango, version |-> d.version]}
       /\ frame' = [frame EXCEPT ![h] = Without(frame[h], d)]
  /\ UNCHANGED <<connections, latest, notices, sweep, jobs, raw, failures>>

\* MongoDB or Redis throws: 500, and what is done is done.
RequestFails(h) ==
  /\ frame[h] # Idle
  /\ failures < MaxFailures
  /\ failures' = failures + 1
  /\ frame' = [frame EXCEPT ![h] = Idle]
  /\ UNCHANGED <<connections, latest, notices, sweep, jobs, raw, ingest>>

-------------------------------------------------------------------------------
(* The worker.                                                                 *)

\* Mutant of Swept: one connection for each Nango connection.
SweptOncePerNango ==
  {CHOOSE c \in connections : c.nango = n : n \in {c.nango : c \in connections}}

\* Connections are registered as active and with a nangoConnectionId, and stay so.
Swept == connections

\* A tick of the scheduler: the sweep reads the connections ...
SweepTick ==
  /\ sweep = {}
  /\ Swept # {}
  /\ sweep' = Swept
  /\ UNCHANGED <<connections, latest, notices, frame, jobs, raw, ingest, failures>>

\* ... and adds a job for each, in any order.
SweepOne ==
  /\ \E c \in sweep :
       /\ jobs' = jobs \cup {ReconcileJob(c)}
       /\ sweep' = sweep \ {c}
  /\ UNCHANGED <<connections, latest, notices, frame, raw, ingest, failures>>

\* An add throws: the connections not reached wait for the next tick.
SweepFails ==
  /\ sweep # {}
  /\ failures < MaxFailures
  /\ failures' = failures + 1
  /\ sweep' = {}
  /\ UNCHANGED <<connections, latest, notices, frame, jobs, raw, ingest>>

\* Mutant of Present: an empty answer lands a document too.
PresentOrEmpty(j) == {[tenant |-> j.tenant, connection |-> j.connection, nango |-> j.nango,
                       version |-> latest[j.nango]]}

\* What the records API returns for a job: at first nothing.
Present(j) == {[tenant |-> j.tenant, connection |-> j.connection, nango |-> j.nango,
                version |-> v] : v \in {latest[j.nango]} \ {0}}

\* Landing overwrites the connection's document of the record.
Land(j) ==
  IF Present(j) = {} THEN raw
  ELSE {d \in raw : ~(d.tenant = j.tenant /\ d.connection = j.connection /\ d.nango = j.nango)}
         \cup Present(j)

JobDone(j) ==
  /\ raw' = Land(j)
  /\ ingest' = ingest \cup Present(j)
  /\ jobs' = jobs \ {j}
  /\ UNCHANGED <<connections, latest, notices, frame, sweep, failures>>

\* A job's attempts are used up, before or after the record was landed.
JobFails(j) ==
  /\ failures < MaxFailures
  /\ failures' = failures + 1
  /\ raw' \in {raw, Land(j)}
  /\ jobs' = jobs \ {j}
  /\ UNCHANGED <<connections, latest, notices, frame, sweep, ingest>>

-------------------------------------------------------------------------------

Request(h) ==
  \/ \E t \in Tenants :
       \/ \E n \in NangoIds : PostConnection(h, t, n) \/ EnsureDemo(h, t, n)
       \/ \E id \in ConnectionIds : PostReconcile(h, t, id) \/ PostBackfill(h, t, id)
  \/ \E n \in NangoIds : PostWebhook(h, n)

HandlerStep(h) == WriteConnection(h) \/ AddJob(h) \/ BackfillOne(h)

Next ==
  \/ \E n \in NangoIds : Change(n)
  \/ \E h \in Handlers : Request(h) \/ HandlerStep(h) \/ RequestFails(h)
  \/ SweepTick
  \/ SweepOne
  \/ SweepFails
  \/ \E j \in jobs : JobDone(j) \/ JobFails(j)

Spec == Init /\ [][Next]_vars

\* The sweep is a repeatable job, and the worker runs it and the jobs it adds.
\* Nobody owes a request, a webhook or a change.
FairSpec ==
  /\ Spec
  /\ WF_vars(SweepTick)
  /\ WF_vars(SweepOne)
  /\ \A t \in Tenants, id \in ConnectionIds, n \in NangoIds :
       LET j == ReconcileJob([id |-> id, tenant |-> t, nango |-> n])
       IN  WF_vars(j \in jobs /\ JobDone(j))

-------------------------------------------------------------------------------
(* Properties.                                                                 *)

TypeOK ==
  /\ connections \subseteq Connection
  /\ latest \in [NangoIds -> Nat]
  /\ notices \in Nat
  /\ frame \in [Handlers -> Frames]
  /\ sweep \subseteq connections
  /\ jobs \subseteq Job
  /\ raw \subseteq Document
  /\ ingest \subseteq Document
  /\ failures \in Nat

\* What is enqueued for a tenant comes from the Nango connection it registered
\* under that very connection, on every path: webhook, sweep, manual reconcile,
\* backfill by an id of the caller's choice.
OwnRecordsOnly ==
  \A i \in ingest :
    [id |-> i.connection, tenant |-> i.tenant, nango |-> i.nango] \in connections

\* The webhook feeds one of the tenants that share a Nango connection.  The sweep
\* makes up for that: what Nango holds reaches each of them, though sweeps break
\* off, jobs fail and tenants register meanwhile.
EveryTenantFed ==
  \A t \in Tenants, n \in NangoIds, v \in 1 .. MaxChanges :
    (latest[n] >= v /\ \E c \in connections : c.tenant = t /\ c.nango = n)
      ~> (\E i \in ingest : i.tenant = t /\ i.nango = n /\ i.version >= v)

===============================================================================
