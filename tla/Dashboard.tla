------------------------------- MODULE Dashboard ------------------------------
(* The dashboard and the API and worker behind it: panels that show a cache of *)
(* what the API answered, kept per tenant, and buttons whose POSTs change what *)
(* the panels ought to show some time after they are answered.                 *)
(*                                                                             *)
(*   Switch, Invalidate -> Ask -> ServeGet -> Arrive          (a panel's rows) *)
(*   Click -> Serve ... -> Answered -> Timer                  (a button)       *)
(*                                                                             *)
(* The queue, the worker and the dead letters are those of IngestQueue, whose  *)
(* actions are taken as they are.  React Query is external and modelled the    *)
(* way the code relies on it: one fetch per key at a time; an invalidation     *)
(* cancels the fetch of a key that has data and starts another, for mounted    *)
(* panels only; mounting starts a fetch unless one is under way; a fetch that  *)
(* fails is tried again `Retries` times while its panel is mounted.  Cached    *)
(* data is not collected (React Query does so after five minutes unmounted).   *)
EXTENDS Naturals, Sequences, FiniteSets

CONSTANTS Slots, Payloads, Attempts, MaxStalls, MaxJobs, Budget, NoSlot,
  First,        \* TENANTS[0], selected when the page is loaded
  Connections,  \* [id, tenant] of the connections listed in Sync Control
  Retries,      \* retry of the queryClient (1)
  UserBudget,   \* bound: clicks, tenant switches, failed GETs and POSTs, all together
  NoData        \* a query without data

VARIABLES jobs, slot, handlers, deadLetters, parked, replaying, failMode, spine, left,
  tenant,       \* App's state: the tenant whose panels are mounted
  data,         \* data[k]: the rows cached for query key k
  fetch,        \* fetch[k]: the fetch under way for k
  visit,        \* how often panels have been mounted
  posts,        \* the mutations so far, in the order of the clicks
  spare         \* what is left of UserBudget

server == <<jobs, slot, handlers, deadLetters, parked, replaying, failMode, spine, left>>
ui     == <<tenant, visit, data, fetch, posts, spare>>
vars   == <<server, ui>>

Queue == INSTANCE IngestQueue

Tenants == {p.tenant : p \in Payloads}

\* The panels whose rows change.  Sync Runs is refreshed with them, but nothing
\* writes sync_runs; a tenant's connections do not change.
Panels == {"events", "dlq"}

ASSUME QueueAssumption ==
  /\ Attempts \in Nat \ {0} /\ MaxStalls \in Nat /\ MaxJobs \in Nat
  /\ Budget \in [Queue!Failures -> Nat]
  /\ NoSlot \notin Slots
ASSUME FirstAssumption == First \in Tenants
ASSUME RetriesAssumption == Retries \in Nat
ASSUME UserBudgetAssumption ==
  UserBudget \in [{"click", "switch", "get", "post", "any"} -> Nat]

\* The rows the list routes may answer with; no two dead letters are of one job.
EventRows  == {Queue!Spine!Row(p.tenant, p.ev) : p \in Payloads}
LetterRows == [doc : 1 .. MaxJobs, tenant : Tenants, replayed : BOOLEAN]

ASSUME NoDataAssumption == \A rows \in SUBSET (EventRows \cup LetterRows) : rows # NoData

Keys == Panels \X Tenants

\* Mutant of QueryKey: the key does not tell tenants apart.
QueryKeyShared(panel, t) == <<panel, First>>

\* queryKey: [panel, apiKey]
QueryKey(panel, t) == <<panel, t>>

\* The keys of the panels on screen; `key={tenant.apiKey}` remounts them together.
Mounted == {QueryKey(panel, tenant) : panel \in Panels}

NoFetch == [pc |-> "none", tenant |-> First, rows |-> {}, tries |-> 0]

\* A fetch carries the API key its panel was rendered with.
Asked(t) == [NoFetch EXCEPT !.pc = "ask", !.tenant = t]

Shown(panel) ==
  IF data[QueryKey(panel, tenant)] = NoData THEN {} ELSE data[QueryKey(panel, tenant)]

Spend(what) ==
  /\ spare[what] > 0 /\ spare["any"] > 0
  /\ spare' = [spare EXCEPT ![what] = @ - 1, !["any"] = @ - 1]

-------------------------------------------------------------------------------
(* The list routes.                                                            *)

\* GET /events, through withTenant.
EventsOf(t) == {row \in spine : row.tenant = t}

\* GET /dlq, by tenantId.  A replayed letter is listed still, with its stamp.
LettersOf(t) ==
  {[doc |-> d, tenant |-> t, replayed |-> deadLetters[d].replayed]
    : d \in {e \in DOMAIN deadLetters : deadLetters[e].payload.tenant = t}}

RowsOf(panel, t) == IF panel = "events" THEN EventsOf(t) ELSE LettersOf(t)

-------------------------------------------------------------------------------
(* Queries.                                                                    *)

\* Mounting panels: a fetch starts for each key without one under way.
Mount(fetches, t) ==
  [k \in Keys |-> IF k \in {QueryKey(panel, t) : panel \in Panels} /\ fetches[k].pc = "none"
                  THEN Asked(t) ELSE fetches[k]]

\* Mutant of Restarts: an invalidation leaves a fetch under way alone.
RestartsIdle(k) == k \in Mounted /\ fetch[k].pc = "none"

\* The keys an invalidation fetches again: mounted, and not in their first load.
Restarts(k) == k \in Mounted /\ (fetch[k].pc = "none" \/ data[k] # NoData)

Invalidate(keys) ==
  fetch' = [k \in Keys |-> IF k \in keys /\ Restarts(k) THEN Asked(tenant) ELSE fetch[k]]

\* tenantAuth takes the tenant from the API key the request carries.
ServeGet(k) ==
  /\ fetch[k].pc = "ask"
  /\ fetch' = [fetch EXCEPT ![k].pc = "answered", ![k].rows = RowsOf(k[1], fetch[k].tenant)]
  /\ UNCHANGED <<server, tenant, visit, data, posts, spare>>

Arrive(k) ==
  /\ fetch[k].pc = "answered"
  /\ data' = [data EXCEPT ![k] = fetch[k].rows]
  /\ fetch' = [fetch EXCEPT ![k] = NoFetch]
  /\ UNCHANGED <<server, tenant, visit, posts, spare>>

MayRetry(k) == k \in Mounted /\ fetch[k].tries < Retries

\* The request or its answer is lost, or the route answers with an error.
GetFails(k) ==
  /\ fetch[k].pc \in {"ask", "answered"}
  /\ Spend("get")
  /\ fetch' = [fetch EXCEPT ![k] =
                 IF MayRetry(k)
                 THEN [fetch[k] EXCEPT !.pc = "backoff", !.rows = {}, !.tries = @ + 1]
                 ELSE NoFetch]
  /\ UNCHANGED <<server, tenant, visit, data, posts>>

\* After the retry delay; the panel may be gone by then.
Retry(k) ==
  /\ fetch[k].pc = "backoff"
  /\ fetch' = [fetch EXCEPT ![k] = IF k \in Mounted THEN [@ EXCEPT !.pc = "ask"] ELSE NoFetch]
  /\ UNCHANGED <<server, tenant, visit, data, posts, spare>>

-------------------------------------------------------------------------------
(* The tenant switcher and the buttons.                                        *)

\* The panels of the tenant before are unmounted: what their hooks observed is
\* forgotten, their requests and timers go on.
Switch(t) ==
  /\ t # tenant
  /\ Spend("switch")
  /\ tenant' = t
  /\ visit' = visit + 1
  /\ fetch' = Mount(fetch, t)
  /\ UNCHANGED <<server, data, posts>>

\* The targets of the pending request a panel's useMutation observes: the last one
\* this mount of the panel has sent of its kind.
Pending(kind) ==
  {posts[m].target : m \in {n \in DOMAIN posts :
     /\ posts[n].kind = kind /\ posts[n].visit = visit
     /\ posts[n].pc \in {"sent", "added", "served"}
     /\ \A later \in n + 1 .. Len(posts) : posts[later].kind # kind}}

\* DlqPanel: replay.isPending && replay.variables === it._id
ReplayDisabled(d) == d \in Pending("replay")

\* SyncControl's pendingId: a pending reconcile hides a pending backfill.
SyncDisabled(id) ==
  id \in IF Pending("reconcile") # {} THEN Pending("reconcile") ELSE Pending("backfill")

Post(kind, target) ==
  /\ Spend("click")
  /\ posts' = Append(posts, [kind |-> kind, tenant |-> tenant, target |-> target,
                             visit |-> visit, pc |-> "sent", due |-> FALSE])
  /\ UNCHANGED <<server, tenant, visit, data, fetch>>

ClickReplay ==
  \E row \in Shown("dlq") : ~ReplayDisabled(row.doc) /\ Post("replay", row.doc)

ClickSync ==
  \E c \in Connections, kind \in {"reconcile", "backfill"} :
    c.tenant = tenant /\ ~SyncDisabled(c.id) /\ Post(kind, c.id)

-------------------------------------------------------------------------------
(* The POST routes.                                                            *)

Advance(m, pc) ==
  /\ posts' = [posts EXCEPT ![m].pc = pc]
  /\ UNCHANGED <<tenant, visit, data, fetch, spare>>

\* POST /dlq/:id/replay: the letter must be the tenant's; add, then stamp.
ServeReplay(m) ==
  /\ posts[m].kind = "replay"
  /\ LET d == posts[m].target
     IN  \/ /\ posts[m].pc = "sent"
            /\ deadLetters[d].payload.tenant = posts[m].tenant
            /\ Queue!ReplayAdd(d)
            /\ Advance(m, "added")
         \/ /\ posts[m].pc = "added"
            /\ IF d \in replaying THEN Queue!ReplayStamp(d) ELSE UNCHANGED server
            /\ Advance(m, "served")

\* POST .../backfill adds a job for each raw record of the tenant's connection (bound:
\* for one of them); POST .../reconcile a job of the poller, whose ingest jobs come
\* later, by Produce.
Raws(t) == {p \in Payloads : p.tenant = t /\ p.fault = "none"}

ServeSync(m) ==
  /\ posts[m].kind # "replay" /\ posts[m].pc = "sent"
  /\ \/ /\ posts[m].kind = "backfill"
        /\ \E p \in Raws(posts[m].tenant) : Queue!Enqueue(p)
     \/ /\ posts[m].kind = "reconcile" \/ Raws(posts[m].tenant) = {}
        /\ UNCHANGED server
  /\ Advance(m, "served")

\* Mutant of Later: the Events panel is not refreshed.
LaterWithoutEvents(m) == {QueryKey("dlq", posts[m].tenant)}

\* What onSuccess invalidates at once, and after 1500 ms: the keys of the tenant
\* the panel was rendered for, also when another is on screen by then.
AtOnce(m) ==
  {QueryKey(panel, posts[m].tenant)
    : panel \in IF posts[m].kind = "replay" THEN {"dlq"} ELSE Panels}
Later(m) == {QueryKey(panel, posts[m].tenant) : panel \in Panels}

\* onSuccess, and the timer it starts.
Answered(m) ==
  /\ posts[m].pc = "served"
  /\ posts' = [posts EXCEPT ![m].pc = "timer"]
  /\ Invalidate(AtOnce(m))
  /\ UNCHANGED <<server, tenant, visit, data, spare>>

\* The event of a replayed letter.
Reflowed(m) == Queue!Spine!Row(posts[m].tenant, deadLetters[posts[m].target].payload.ev)

\* `due`, which no step reads, remembers whether a replay's event was stored, and
\* the Events panel loaded, when the timer went off.
Timer(m) ==
  /\ posts[m].pc = "timer"
  /\ posts' = [posts EXCEPT
       ![m].pc = "done",
       ![m].due = /\ posts[m].kind = "replay" /\ Reflowed(m) \in spine
                  /\ data[QueryKey("events", posts[m].tenant)] # NoData]
  /\ Invalidate(Later(m))
  /\ UNCHANGED <<server, tenant, visit, data, spare>>

\* The request does not reach the API, or its answer is lost, or the save of the
\* stamp throws and the route answers 500: the job is added then, and its letter not
\* stamped by this request.  Mutations are not retried, and onSuccess does not run.
PostFails(m) ==
  /\ posts[m].pc \in {"sent", "added", "served"}
  /\ Spend("post")
  /\ posts' = [posts EXCEPT ![m].pc = "failed"]
  /\ UNCHANGED <<server, tenant, visit, data, fetch>>

-------------------------------------------------------------------------------

\* The page is loaded before anything is in the database or the queue.
Init ==
  /\ Queue!Init
  /\ tenant = First
  /\ visit = 0
  /\ data = [k \in Keys |-> NoData]
  /\ fetch = Mount([k \in Keys |-> NoFetch], First)
  /\ posts = <<>>
  /\ spare = UserBudget

\* Bound: the producers add a record once, so that repeats are the buttons' doing.
Produce(p) ==
  /\ \A j \in DOMAIN jobs : jobs[j].payload # p
  /\ Queue!Enqueue(p) \/ Queue!Inject(p)
  /\ UNCHANGED ui

\* The worker and its listeners, behind the API.
Worker ==
  /\ (\E s \in Slots : Queue!SlotStep(s)) \/ Queue!RedisStep \/ Queue!HandlerStep
  /\ UNCHANGED ui

Query(k) == ServeGet(k) \/ Arrive(k) \/ Retry(k)

Mutation(m) == ServeReplay(m) \/ ServeSync(m) \/ Answered(m) \/ Timer(m)

System ==
  \/ Worker
  \/ \E k \in Keys : Query(k)
  \/ \E m \in DOMAIN posts : Mutation(m)

User ==
  \/ \E t \in Tenants : Switch(t)
  \/ ClickReplay
  \/ ClickSync

Failure ==
  \/ \E k \in Keys : GetFails(k)
  \/ \E m \in DOMAIN posts : PostFails(m)

Next ==
  \/ System
  \/ \E p \in Payloads : Produce(p)
  \/ User
  \/ Failure

Spec == Init /\ [][Next]_vars

\* The browser, the API and the worker go on until they have nothing to do, which
\* each of them reaches: no step of theirs can be put off for ever.
FairSpec == Spec /\ WF_vars(System)

-------------------------------------------------------------------------------
(* Properties.                                                                 *)

\* "No previous tenant's rows can ever flash": what a panel shows belongs to the
\* tenant on screen, however late an answer, a retry or a timer of the tenant
\* before comes.
ShownIsOwn == \A panel \in Panels : \A row \in Shown(panel) : row.tenant = tenant

\* The replays that the panels now on screen have asked for.
OnScreen(m) == posts[m].kind = "replay" /\ posts[m].visit = visit

Settled(panel) == fetch[QueryKey(panel, tenant)].pc = "none"

\* A replay that was answered shows: once its refreshes are over the DLQ panel has
\* the letter "replayed", although fetches asked for before it answer after it
\* and one of them fails.
ReplayedShows ==
  \A m \in DOMAIN posts :
    OnScreen(m) /\ posts[m].pc = "done" /\ Settled("dlq") =>
      \E row \in Shown("dlq") : row.doc = posts[m].target /\ row.replayed

\* An event that was stored before the second refresh of its replay, with the Events
\* panel past its first load, shows there once that refresh is over.
StoredInTimeShows ==
  \A m \in DOMAIN posts :
    OnScreen(m) /\ posts[m].due /\ Settled("events") => Reflowed(m) \in Shown("events")

\* DlqPanel: "The re-flowed event shows up in the Events panel once the worker
\* processes it", as long as the user stays.
ReflowedShows ==
  \A m \in 1 .. UserBudget["click"] :
    (/\ m \in DOMAIN posts /\ OnScreen(m) /\ posts[m].pc \in {"timer", "done"}
     /\ Reflowed(m) \in spine)
      ~> (m \in DOMAIN posts /\ (OnScreen(m) => Reflowed(m) \in Shown("events")))

===============================================================================
