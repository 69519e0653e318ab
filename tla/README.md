# Formal models of shiplog-sync

shiplog-sync takes changes of GitHub data from Nango, lands them raw, and ingests
them through a BullMQ queue into a tenant-scoped, append-only table of events.
This directory holds TLA+ models of the parts where order, concurrency and failure
decide whether that is right, the TLC configurations that check them on small
instances, and TLAPS proofs of the properties that matter most.

Paths below are relative to the repository's root.

## The system

    provider --> Nango --webhook--> POST /webhooks/nango --> nango-sync queue --+
                   |                                                           |
                   |<--- listRecords --- syncProcessor <-----------------------+
                   |                        |  \
                   |                        |   +--> raw_records ---backfill---+
                   |<--- listRecords --- reconcileProcessor                     |
                   |                        |   ^ sync_state cursor             |
         sweep (repeatable job), POST /connections/:id/reconcile                |
                                            v                                   v
                                       ingest queue  <---------------------------
                                            |   ^
                                     ingestProcessor
                                      |          \ failed, terminal
                                 ingestEvent      +--> dead_letter --POST /dlq/:id/replay
                                      v
                                   events

Two processes: the API (`src/server.ts`), which only adds jobs, and the worker
(`src/worker.ts`), which runs three BullMQ workers with five slots each. They share
MongoDB and Redis and nothing else. A dashboard in the browser (`dashboard/`) lists
what the API answers and POSTs to it; scripts (`scripts/`) write to the same database
and queue from processes of their own.

### Inventory

| component | state | operations | what is hard | what makes it correct |
|---|---|---|---|---|
| **event spine** `src/events/ingest.ts`, `src/models/Event.ts` | `events`, unique on `idempotencyKey` | `ingestEvent`: exists, findOne latest, upsert | four awaits, concurrent workers, an upsert that fails after it landed | one row per version, nothing rewritten, answers that are true of the table |
| **ingest queue** `src/queue/ingest*.ts`, `src/worker.ts` | jobs in Redis, slots, running `failed` listeners | take, process, retry, fail, crash, shutdown | two slots on one job, attempt counting, a listener nobody waits for | a completed job is in the spine; a given-up job is a dead letter |
| **dead letters, replay** `src/queue/deadLetter.ts`, `replay.ts` | `dead_letter`, dlq queue, `replayedAt` | persist, park, replay, backfill | two writes without a transaction | one letter per given-up job; a truthful stamp |
| **retry policy** `src/queue/errors.ts`, `backoff.ts` | none (attempts, delays) | classify, parse, delay | overlapping error shapes, boundaries, the cap | only transient errors are retried, Retry-After wins, delays grow up to the cap |
| **poller** `src/nango/reconcileProcessor.ts`, `src/queue/reconcile*.ts` | `sync_state.cursor`, one job per key | trigger, page, land, checkpoint | source moving under the paging, crash within a page, stalled takeover | the cursor never passes what is not landed and enqueued; all is delivered in the end |
| **webhook path** `src/app.ts`, `src/nango/syncProcessor.ts` | nango-sync jobs | receive, page, land | lost, repeated and reordered notifications; parallel jobs | a completed job handed over what it was notified of |
| **raw layer** `src/events/raw.ts` | `raw_records`, no unique index | `landRawRecord` | upserts that race, older copies landed later | a document for all that is enqueued |
| **HTTP API, tenants** `src/app.ts`, `src/middleware`, `src/repository` | `tenants`, `connections` | routes | lookups that are not tenant-scoped, upserts that race | no tenant reads or moves another's rows |
| **normalizer** `src/normalize/github.ts`, `src/events/schema.ts`, `hash.ts` | none | record to identity, version, content | issues and pull requests share numbers; two names per model | records of different things share no row |
| **dashboard** `dashboard/src` | selected tenant, query cache, mutations | switch, list, replay, reconcile, backfill | late answers, fetches asked for before a change, refreshes at fixed times, buttons that forget | rows of the tenant on screen only; what a click did becomes visible |
| **scripts** `scripts/` | none | inject a failure, set up a tenant, drive the demos | they write beside the API and the worker | nothing above breaks |
| signature, records client, process wiring | none | pure functions, set-up | - | - |

## Modules

| module | models | proofs |
|---|---|---|
| `EventSpine` | abstract: rows are appended once per version, an input is acknowledged only when it is represented | |
| `EventIngest` | `ingestEvent`, one action per stretch between awaits | `EventIngestProofs` |
| `Normalize` | `normalizeGithubRecord`, the schema and the hashes: what a record is to `ingestEvent` | |
| `GithubIngest` | `EventIngest` fed with normalized records | `GithubIngestProofs` |
| `IngestQueue` | the ingest worker with its queue, dead letters and replay, on top of `EventSpine` | `IngestQueueProofs` |
| `RetryPolicy` | the errors and delays of one job | `RetryPolicyProofs` |
| `RecordsApi` | external: Nango's records API, shared by the next two | |
| `Reconcile` | the poller for one (tenant, connection, model) | `ReconcileProofs` |
| `WebhookSync` | notifications, the webhook route, sync jobs, the raw upsert | `WebhookSyncProofs` |
| `TenantApi` | connections of several tenants, the routes that add jobs, the sweep's fan-out, the backfill | `TenantApiProofs` |
| `Dashboard` | the panels, their query cache and their buttons, on top of `IngestQueue` | `DashboardProofs` |

`MC...` modules only give constants their values. Operators marked *Mutant of* are
plausible bugs of the operator they precede; nothing else uses them.

**EventSpine and EventIngest.** `spine` is the `events` collection as a set of rows;
`EventIngest` gives each row its `_id` and its `occurredAt`, because `ingestEvent` takes the
first of `{occurredAt: -1, _id: -1}` for the latest (`ingest.ts:68`). `Call`, `CheckExists`,
`ReadLatest`, `Upsert` and `Return` follow the code's awaits; `UpsertLost` is an append
that finds another call's row there, `Abort` a failed or abandoned call. Hashes are abstracted to the fields
they are taken of, so keys are equal exactly when those are. `EventIngest` implements
`EventSpine` (`ImplementsSpine`), so the modules above it use the abstract one.

**Normalize and GithubIngest.** A record is its model name, its number or sha (or `Missing`),
its url, its dates, one value for the other normalized fields, one for the rest, and whether
url, title and dates are whole. `Normalized` gives identity, version and content hash as
tuples of these, equal exactly when the strings of the code are. `Parses` says what is let
through: a commit without a sha has no version and is refused, an issue or a pull request
without a number is `issue:undefined` or `pr:undefined` and is not (`schema.ts:15` asks for
one character); the run `ingest_shapeless` shows what becomes of those. `GithubIngest` is `EventIngest` whose `Inputs` are
the normalized records that parse (`FeedAssumption`), so that one can say what becomes of a
*record*, not of an input that already lost its model.

**IngestQueue.** A job is `[payload, attemptsMade, stalls, state, lock]`. `Take` is a
slot's lock, `Process` the processor up to `ingestEvent`, `Land` and `Answer` the
abstract spine's steps, `Complete`/`Fail` BullMQ's scripts, which check the lock
(`LostLock` otherwise). The `failed` listener is `Fail` (its decision) and the handlers
`Create` and `Park` (its two writes). Producers `Enqueue` records, good or malformed;
`inject-failure` adds jobs that are poisoned or carry the self-healing `demoFault`
(`Inject`), and may ingest the record itself first (`Seed`). With `acked` taken to be the completed jobs' inputs it
implements `EventSpine` too.

**RetryPolicy.** One job whose attempts end with any error of a set. `ClassifyError`,
`Thrown`, `ComputeBackoff` and `IsTerminal` are `classifyError`, the catch of
`ingestProcessor`, `computeBackoff` and `isTerminalFailure`; BullMQ's rule for another
attempt is the guard of `Retry`.

**Reconcile.** `Trigger` is an add with the deterministic jobId, from the sweep or the
route; `Load`, `FetchPage`, `LandRaw`, `AddIngest`, `Checkpoint` are the awaits of the
loop. `NextCursors` lets the API return the page's end, nothing, or the token it was
given, and the records may carry cursors or not, so all branches of
`cursor ?? next_cursor ?? cursor` are taken.

**WebhookSync.** `Notify`, `Lose`, `ReceiveAndRepeat` are Nango's deliveries, in any
order; `Receive` is the route after its signature check. The API may echo the token it was given, as it may to the
poller; nothing in `syncProcessor.ts:53` guards against that, and the job then goes on. The
upsert of `landRawRecord` is two steps, `FindRaw` and `WriteRaw`, as MongoDB does not make an upsert atomic
without a unique index.

**TenantApi.** A request is a frame that waits at each of its writes: `PostConnection` and
`WriteConnection` are the two steps of the upsert of `POST /connections`, which no unique
index guards either; `PostWebhook` and `PostReconcile` find the connection (`Lookup`, by
`nangoConnectionId` alone, and by id and tenant) and `AddJob` adds the job; `PostBackfill`
reads the raw documents of (tenant, id), and `BackfillOne` enqueues them one by one.
`SweepTick` reads the connections and `SweepOne` adds a job for each. Jobs carry copies of
their connection's fields. `JobDone` stands for a whole run of `Reconcile` or `WebhookSync`,
`JobFails` for one that gave up. `EnsureDemo` is the upsert of the scripts, by provider where
the route goes by `nangoConnectionId`. A job's model (GitHub's issues, pulls, ...) is one more
field of the same key and left out.

**Dashboard.** `tenant` is `App`'s state, `data` and `fetch` React Query's cache and the
fetches under way, by query key, `posts` the mutations. A fetch is asked for by mounting
(`Mount`, on `Switch`) or by an invalidation (`Invalidate`), read in the database
(`ServeGet`) and shown later (`Arrive`), with a failure and one retry between. A click is a
POST (`ClickReplay`, `ClickSync`), served by `IngestQueue`'s own actions (`ServeReplay`,
which adds and then stamps, and `ServeSync`), then `Answered` and `Timer`, the two refreshes of
`onSuccess`, bound to the tenant the panel was rendered for. `PostFails` is a POST that does
not reach the API, one whose answer is lost, or one whose stamp is not saved after its job
was added. React Query is external: it
keeps one fetch per key, lets an invalidation replace the fetch of a mounted key that has
data, and forgets a mutation's state with its panel (`visit`). Only the panels whose rows
change are modelled.

## Runs

All runs are bounded by explicit constants: `MaxJobs`, `MaxUpdates` (changes in the
source), `Attempts`, and `Budget` and `UserBudget`, how often each kind of failure (or
click) may strike. In a pooled budget the kinds share a total, `any`: each behaviour
has a few failures, but *any* few of them, in any order.

| run | instance | shows |
|---|---|---|
| `ingest_race` | 2 workers; an issue under two model names, in two versions, the second with two contents under one token; a pull request with its number and `updated_at`; a malformed record, a commit without sha and a record of an unknown model | types; every answer is true of the table and stays so, rows are unique, history is append-only, the spine is implemented, and no numbered record is taken for another thing's |
| `queue_failures` | 2 slots, 2 jobs (good, self-healing or malformed), any 2 of 6 kinds of failure | types, refinement of the spine, sound dead letters, truthful stamps, settled jobs stay settled; a dead letter is missing only after a crash, a shutdown or a failed write; malformed payloads are tried once; every job is settled, and a replay made after the dead letter completes |
| `retry_policy` | 23 error shapes (7 of them overlaps), 4 attempts, a cap the third delay reaches | what is retried and after which delay |
| `reconcile` | 2 records, 2 slots, page of 1, 2 changes, any 2 of throw (twice), crash, lost lock | the cursor covers what is behind it although two runs write it; until a lock is lost, one writer, and neither the cursor nor the raw copies go back; runs end; all is delivered once the source is quiet |
| `webhook_jobs` | 2 records, 2 slots, 2 jobs, 2 changes; jobs that overlap once, and any 2 of: notification lost, repeated, throw, crash, lost lock | completed jobs cover their notification; all that is enqueued is landed; without overlap, one raw document per record |
| `tenant_api` | 2 tenants that share a Nango connection, 2 requests (or a script) at a time, 2 connection ids, 1 change, 1 webhook, 1 failure | nothing is enqueued for a tenant that is not its own, on any path; the sweep feeds each tenant, though the webhook feeds one |
| `dashboard` | 2 tenants, one with a record that fails until it is dead-lettered; any 3 of 2 clicks, 2 switches, a failed GET, a failed POST | a panel shows its tenant's rows only; an answered replay shows as replayed; an event stored before the last refresh shows |

Five more runs end in a violation, and are meant to: each states what a comment or a
document says and the code does not do.

| run | said | done |
|---|---|---|
| `ingest_stale` | "a stale version can never overwrite the current state" (`ingest.ts:32`) | contents A, B, A: version 3 is not stored, being equal to version 1; version 2, delivered after it, is then the highest version stored and reads back as current |
| `ingest_shapeless` | a record in an unexpected shape "fails Zod validation", lands in the DLQ and is replayed, "no data lost" (`README.md:221`, `:471`) | an issue without `number` is accepted as `issue:undefined`; all of a tenant share that entity, and of two with one `updated_at` the second is "unchanged" and nowhere in the spine |
| `queue_shutdown` | on terminal failure the job is persisted to dead_letter (`README.md:441`) | a graceful shutdown does not wait for the listener |
| `webhook_upsert` | landing is "idempotent per {tenantId, connectionId, nangoRecordId}" (`raw.ts:25`) | two upserts at once insert two documents |
| `dashboard_late` | a replayed event "shows up in the Events panel once the worker processes it" (`DlqPanel.tsx:14`) | the last refresh is 1500 ms after the answer; what the worker does later is not shown |

One disagreement has no run, because the models follow the code and nothing else depends on
it: the raw layer is called immutable (`raw.ts:24`, `RawRecord.ts:19`, `README.md:48` and
`:508`, `FLOW.md:129`, `raw.test.ts:20`), and `landRawRecord` overwrites the payload of the
document it finds (`$set`, `raw.ts:35`). What is kept is one document per record, with the
last payload landed, not the history of payloads; a backfill replays that. The property
about it, `RawNeverRegresses`, is what the code can be held to: a document is not
overwritten by an older copy.

Properties that hold under a condition only: `SingleWriter`, `CursorNeverRegresses` and
`RawNeverRegresses` until a run has lost its lock (`LocksHeld`, stated in each of them),
because a run never checks its lock before it writes; `NoSilentDrop` without crash, shutdown
and failed writes (`DropNeedsFault` in `queue_failures`), because nothing waits for the
`failed` listener; `OneRawPerRecord` for jobs that do not overlap (`SerialOneRaw` in
`webhook_jobs`), because `raw_records` has no unique index; `NothingSwallowed` for records
that carry their number; `StoredInTimeShows` for events stored before the last refresh.

Why the bounds are enough. What goes wrong here takes two actors and one failure: two
calls between check and append, two slots on one job, one crash between two writes, one
change between two pages. Each instance has at least two of the actors and one more
step than the shortest such story. Two attempts have one that is retried and one that is last;
`retry_policy` has two more in the middle. A page of one record makes every record a page
boundary, where a moving source can be skipped; pages of any size are in the proofs of
`NeverSkips` and `CompletedHasCovered`. `ingest_race` has one tenant and two workers, the theorems any number. In `dashboard` a switch and
a switch back, or a switch in the middle of a replay, or a fetch that fails beside either, are
all within three acts of the user. Out of its reach, and of `queue_failures`', is a second
replay of one letter: with two jobs there is room for one (three exceed what TLC can do in
minutes), so only the theorems, which know no bound, speak of it. The poller's two changes
move a record twice, or two records past each other, while a run pages. `MaxStalls` has
its real value. In `tenant_api` the two ids are either one connection of each tenant or two
of one tenant, whose requests raced. Deadlock is checked for the poller and `tenant_api`, which always
have a sweep to come; the other models stop when the bounded inputs are used up.

## Fairness

Only what the code or BullMQ schedules by itself is fair: a slot's steps while the
process runs, BullMQ's delayed-job and stalled checks, the `failed` listeners, and, for
the poller and `TenantApi`, the sweep, since it is a repeatable job, with the reconcile
jobs it adds; and in `Dashboard` the browser's fetches and timers and the API's handlers, with
the worker, as one (`System`): each of them does a bounded amount of work, so none can
keep the others waiting for ever. Nobody owes a change, a
request, a notification, a replay, a failure or the end of an outage. All fairness is weak. The
delivery property assumes what its bounds say: the source becomes quiet and failures end.

## Proofs

**EventIngestProofs**, for any workers, tenants and inputs. `TypeCorrect`,
`NoDuplicateRows`, `NoDoubleCount`, `HistoryIsAppendOnly`, `AnswersAreKept` and `Refinement`
follow from one inductive invariant: types, unique versions in the table, and for each call
what it knows at its await: the key it saw or did not see, the latest row it read being a
row still, the answer it will give being represented. The last part is what makes it
inductive: an answer is formed two awaits before it is given.

**GithubIngestProofs**, for any records besides, with a number or without.
`NothingIsSwallowed` (`NothingSwallowed`) adds to that invariant that every row is made from
one input (`TableOfInputs`), and so from a record that parses: a represented input then has
a row with its version or content that came from a record with its `externalId`, and two
records share one that has a number in it only if they are the same thing (`IdsTellApart`).
Assumed: the records are of one repository (`OneRepository`), as the externalId does not
name it.

**ReconcileProofs**, for any records, slots, page size, attempts and failures. `TypeCorrect`
and `NeverSkips` (`CursorCovers`) follow from `IInv`: the durable cursor is covered; the two
cursors of *every* frame are covered too, as any of them may be written next; and the page a
frame is at holds every record that last changed between its page cursor and its last
record, with what is no longer `todo` landed and enqueued. What others do in between only
lands, enqueues or moves records past the clock, so what is covered stays covered
(`Survives`, `LaterStep`); a fetched page is complete because a record before the last one
has fewer before it (`PageComplete`). Assumed: the records are finitely many, the page size
is positive, and Nango orders records by their last change.

A second invariant of this module, `SInv`, is about runs that have lost no lock so far (`LocksHeld`).
Whoever is at work then holds the job's lock, so there is one of them; its cursors are the
durable one; and what it has done of its page is in `raw` as the page has it, unless the
record changed after all that the page covers. `OneWriter` (`SingleWriter`),
`CursorKeepsGround` (`CursorNeverRegresses`) and `RawKeepsGround` (`RawNeverRegresses`)
follow, each with the condition in its statement, since the run `reconcile` has states
without it in which they fail. `RawStaysCurrent` says more of the copies than the run
checks: what the cursor has passed is in `raw` as it is in the source.

**TenantApiProofs**, for any tenants, connections, handlers and bounds. `TypeCorrect` and
`Isolation` (`OwnRecordsOnly`) follow from `IInv`: every job, raw document, payload and
whatever a waiting request holds names a connection that its tenant registered, with the
Nango connection it stands for. `OwnRecordsOnly` alone is not inductive, since a payload is
made of a job, and a job of what a request or a sweep read earlier; it holds over those gaps
because connections only grow (`Owned` survives each step).

**IngestQueueProofs**, for any slots, payloads, attempts, stalls and failures. One invariant
carries all: types; a lock only on an active job, and an attempt left for a job that is not
settled; for a dead letter *and for a running listener*, that BullMQ has given its job up,
that no other letter or listener has the job, and that a listener about to create finds no
letter; a later job for a replay that is between its add and its stamp; a spine that has the
record of a slot about to answer. `CompletedIsRepresented`, `DeadLettersAreSound`,
`StampsAreTrue` and `DropsNeedFaults` need just these frames in flight: each property is
about what a later step writes from what an earlier one saw. For `MalformedFailsAtOnce` the
invariant follows a malformed payload from slot to slot as long as there was no outage.
`SettledForGood` is the action property; `Refinement` maps every step to a step of
`EventSpine` or a stutter. `TypeCorrect` needed a correction of the model's types: they
bounded a job's `stalls` by `MaxStalls + 1`, which no run exceeded and which is not an
invariant, since a job that stalled too often may lose its lock again before its slot fails
it; it also takes a bound on the number of dead letters (`LettersBounded`), one for each
job.

**RetryPolicyProofs**, for any errors, base and cap. The invariant ties each entry of the
history to the two functions that made it: what `ingestProcessor` throws for some error, and
`computeBackoff` of that attempt (`HistorySound`). `OnlyTransientIsRetried` and
`OneDeadLetterIsWritten` follow for any number of attempts; `RateLimitIsHonoured` and
`ScheduleNeverShrinks` for at most ten (the code makes five, `queues.ts:15`), since the
provers know powers of two as numerals only. That the schedule does not shrink is
arithmetic: a quarter of jitter on one delay stays below twice that delay, and the cap keeps
order.

**WebhookSyncProofs**, for any slots, records, page size, attempts and failures. A job
covers the records that changed in its window. `RunsCover` says where each of them is while
a run is under way: handed over, in the page at its present version, or ahead of the run in
the source. A change takes its record out of every window, and a retry starts before all of
them, so this survives; when nothing is ahead the job completes and `CompletedHasCovered`
holds. `LandedBeforeEnqueued` needs what `FindRaw` saw: documents are never removed. As long
as no two jobs overlapped, `Serial` says the same of `raw` (`LandsInSeries`) with one
document per record (`OneRawInSeries`); it needs besides that a record that changed after
its page was read changed too late for the jobs that are done (`LateChanges`). None of this
needs the paging to advance: the API may echo its token.

**DashboardProofs**, for any tenants, payloads, clicks and failures. `DrivesTheQueue`: the
dashboard's steps are steps of `IngestQueue` or leave the queue alone, so all theorems about
the queue hold behind it, and are used here. `OwnRowsOnly` (`ShownIsOwn`) says the same of
the cache *and of the answers under way* (`CacheSound`), whatever tenant is on screen when
they arrive. `AnsweredReplayShows` and `StoredEventShows` need `Refreshed`: after an
answered POST the panel's query has the row, or a fetch that will bring it is under way,
because letters keep their stamp and the spine its rows. Both hold while no more GETs failed
than a query retries (`FewFailed`; beyond that it gives up, and keeps its old rows until
something asks again). The instance of the run has one failed GET and one retry, so there
the condition always holds. Assumed: no set of rows is the value that stands for a query
without data (`NoDataAssumption`).

The invariants `IInv`, `SInv` and `UInv` were checked by TLC on the runs' instances before
they were proved.

Only model-checked: liveness, as temporal proofs under fairness are out of the prover's
reach: `EverySettles` and `HealsOnceDeadLettered` (`queue_failures`), `RunsEnd` and
`EventuallyDelivered` (`reconcile`), `EveryTenantFed` (`tenant_api`). Every other
property of a passing run is stated by a theorem.

## Plan

1. `EventSpine`, `EventIngest`, `IngestQueue`, `Reconcile`, `RetryPolicy`,
   `WebhookSync`; proofs of the first and the poller. *Done.*
2. Proofs of the queue, the retry policy, the webhook path, the poller's single writer and the
   dashboard. *Done.*
3. `Delivery`: webhook, poller and backfill over one raw layer, implementing an abstract
   "every present version is handed over". *Next*, with its refinement proof.
4. `TenantApi`: the HTTP API by tenant and the sweep's fan-out, with its proof. *Done*; the
   lists of rows and the replay by tenant are in `Dashboard`.
5. `Normalize`: which records share an identity and a version; the hashes' fields. *Done*, with
   `GithubIngestProofs`.
6. `Dashboard`: cached answers and a tenant switch, over the queue. *Done.*

## Not modelled

Logging, job descriptions and pruning of finished jobs by count; delays in `IngestQueue`
(any delay is possible); HTTP status codes; the signature check, which has no state;
the fixture adapter, one behaviour of the records API; `sync_runs`, which only scripts write,
once, with status `running`, so that the Sync Runs panel has nothing to tell apart; the
other scripts' output, and `clean-demo`, which deletes rows and is meant for a system at rest;
several repositories of one tenant, whose issues would share `externalId`s
(`OneRepository`); React
Query's collection of data unmounted for five minutes, and list limits of 100 rows; clocks:
times are the order of changes. A lost connection that MongoDB's driver retries by itself is
the success it ends with.
