--------------------------- MODULE DashboardProofs ---------------------------
(* What the panels show, for any tenants, payloads, clicks and failures.  The  *)
(* queue behind the API takes its steps only, so what IngestQueueProofs says   *)
(* of it holds here.  The strengthening says of every cached row and of every  *)
(* fetch under way whose it is (CacheSound), of every button what has become   *)
(* of its letter (PostsSound), and of a panel that was refreshed that its rows,*)
(* the answer on its way to it or the one it will ask for next are new enough  *)
(* (Refreshed).                                                                *)
EXTENDS Dashboard, SequenceTheorems, TLAPS

QP == INSTANCE IngestQueueProofs

\* The rows a panel may have cached for a tenant.
RowsFor(panel, t) ==
  IF panel = "events"
  THEN {row \in EventRows : row.tenant = t}
  ELSE {row \in LetterRows : /\ row.tenant = t
                             /\ row.doc \in DOMAIN deadLetters
                             /\ deadLetters[row.doc].payload.tenant = t}

Fetches == [pc : {"none", "ask", "answered", "backoff"}, tenant : Tenants,
            rows : SUBSET (EventRows \cup LetterRows), tries : Nat]

Posts == [kind : {"replay", "reconcile", "backfill"}, tenant : Tenants,
          target : Nat \cup {c.id : c \in Connections}, visit : Nat,
          pc : {"sent", "added", "served", "timer", "done", "failed"}, due : BOOLEAN]

UiTypes ==
  /\ spine \subseteq EventRows
  /\ tenant \in Tenants /\ visit \in Nat
  /\ data = [k \in Keys |-> data[k]]
  /\ fetch \in [Keys -> Fetches]
  /\ posts \in Seq(Posts)
  /\ spare \in [{"click", "switch", "get", "post", "any"} -> Nat]

CacheSound ==
  \A k \in Keys :
    /\ data[k] # NoData => data[k] \subseteq RowsFor(k[1], k[2])
    /\ fetch[k].rows \subseteq RowsFor(k[1], k[2])
    /\ fetch[k].pc # "none" => fetch[k].tenant = k[2]

\* A fetch has been tried again no more often than GETs have failed.
TriesSound == \A k \in Keys : fetch[k].tries + spare["get"] <= UserBudget["get"]

\* A button belongs to the tenant that was on screen; a replay's letter exists, and is
\* stamped once the replay is served; what `due` remembers is so still.
PostSound(m) ==
  LET d == posts[m].target
  IN  /\ posts[m].visit <= visit
      /\ posts[m].visit = visit => posts[m].tenant = tenant
      /\ posts[m].kind = "replay" =>
           /\ d \in DOMAIN deadLetters
           /\ deadLetters[d].payload.tenant = posts[m].tenant
           /\ posts[m].pc = "added" => d \in replaying \/ deadLetters[d].replayed
           /\ posts[m].pc \in {"served", "timer", "done"} => deadLetters[d].replayed
           /\ data[QueryKey("dlq", posts[m].tenant)] # NoData
      /\ posts[m].due =>
           /\ posts[m].kind = "replay"
           /\ Reflowed(m) \in spine
           /\ data[QueryKey("events", posts[m].tenant)] # NoData

PostsSound == \A m \in DOMAIN posts : PostSound(m)

\* No more GETs have failed so far than a query makes up for by itself.
FewFailed == UserBudget["get"] <= spare["get"] + Retries

\* The row is shown, or will be once the fetch under way has been answered.
FreshAt(k, row) ==
  /\ fetch[k].pc = "none" => row \in data[k]
  /\ fetch[k].pc = "answered" => row \in fetch[k].rows

Letter(m) == [doc |-> posts[m].target, tenant |-> posts[m].tenant, replayed |-> TRUE]

Refreshed ==
  \A m \in DOMAIN posts :
    OnScreen(m) =>
      /\ posts[m].pc \in {"timer", "done"} => FreshAt(QueryKey("dlq", tenant), Letter(m))
      /\ posts[m].due => FreshAt(QueryKey("events", tenant), Reflowed(m))

UInv ==
  /\ UiTypes
  /\ CacheSound
  /\ TriesSound
  /\ PostsSound
  /\ FewFailed => Refreshed

-------------------------------------------------------------------------------
(* The queue.                                                                  *)

LEMMA QueueConstants ==
  /\ Attempts \in Nat \ {0} /\ MaxStalls \in Nat /\ MaxJobs \in Nat
  /\ Budget \in [QP!Failures -> Nat]
  /\ NoSlot \notin Slots
BY QueueAssumption DEF QP!Failures, Queue!Failures

\* What the dashboard's Worker does, IngestQueueProofs knows.
LEMMA WorkerStep ==
  ASSUME Worker
  PROVE  /\ \/ \E s \in Slots : QP!SlotStep(s)
            \/ QP!RedisStep
            \/ QP!HandlerStep
         /\ UNCHANGED ui
<1>1. \A s \in Slots : Queue!SlotStep(s) => QP!SlotStep(s)
  BY DEF Queue!SlotStep, QP!SlotStep, Queue!JobIds, QP!JobIds, Queue!Take, QP!Take,
         Queue!Process, QP!Process, Queue!Land, QP!Land, Queue!Answer, QP!Answer,
         Queue!Complete, QP!Complete, Queue!Fail, QP!Fail, Queue!LostLock, QP!LostLock,
         Queue!Idle, QP!Idle, Queue!Job, QP!Job, Queue!Holds, QP!Holds,
         Queue!Verdict, QP!Verdict, Queue!HasDeadLetter, QP!HasDeadLetter,
         Queue!DocIds, QP!DocIds, Queue!ShouldRetry, QP!ShouldRetry,
         Queue!IsTerminal, QP!IsTerminal,
         Queue!Spine!Row, QP!Spine!Row, Queue!Spine!SameVersion, QP!Spine!SameVersion,
         Queue!Spine!SameContent, QP!Spine!SameContent,
         Queue!Spine!Represented, QP!Spine!Represented
<1>2. Queue!RedisStep => QP!RedisStep
  BY DEF Queue!RedisStep, QP!RedisStep, Queue!JobIds, QP!JobIds,
         Queue!Promote, QP!Promote, Queue!Stalled, QP!Stalled
<1>3. Queue!HandlerStep => QP!HandlerStep
  BY DEF Queue!HandlerStep, QP!HandlerStep, Queue!Create, QP!Create, Queue!Park, QP!Park
<1> QED BY <1>1, <1>2, <1>3 DEF Worker

\* So do the buttons and the producers, once a replay's letter is known to exist.
LEMMA ServerStep ==
  ASSUME PostsSound, [Next]_vars
  PROVE  [QP!Next]_(QP!vars)
<1>1. CASE UNCHANGED server BY <1>1 DEF server, QP!vars
<1>2. CASE Worker BY <1>2, WorkerStep DEF QP!Next
<1>3. ASSUME NEW p \in Payloads, Queue!Enqueue(p) \/ Queue!Inject(p) PROVE QP!Next
  <2>1. QP!Enqueue(p) \/ QP!Inject(p)
    BY <1>3 DEF Queue!Enqueue, QP!Enqueue, Queue!Inject, QP!Inject, Queue!Add, QP!Add,
                Queue!NewJob, QP!NewJob
  <2> QED BY <2>1 DEF QP!Next
<1>4. ASSUME NEW m \in DOMAIN posts, ServeReplay(m) PROVE [QP!Next]_(QP!vars)
  <2>1. posts[m].target \in QP!DocIds
    BY <1>4 DEF PostsSound, PostSound, ServeReplay, QP!DocIds
  <2>2. \/ QP!ReplayAdd(posts[m].target) \/ QP!ReplayStamp(posts[m].target)
        \/ UNCHANGED server
    BY <1>4 DEF ServeReplay, Queue!ReplayAdd, QP!ReplayAdd, Queue!ReplayStamp,
                QP!ReplayStamp, Queue!NewJob, QP!NewJob
  <2> QED BY <1>1, <2>1, <2>2 DEF QP!Next
<1>5. ASSUME NEW m \in DOMAIN posts, ServeSync(m) PROVE [QP!Next]_(QP!vars)
  BY <1>1, <1>3, <1>5 DEF ServeSync, Raws
<1>6. CASE UNCHANGED vars BY <1>1, <1>6 DEF vars
<1>7. CASE Next
  BY <1>1, <1>2, <1>3, <1>4, <1>5, <1>7
     DEF Next, System, Query, Mutation, User, Failure, Produce, ServeGet, Arrive, Retry,
         Answered, Timer, Switch, ClickReplay, ClickSync, Post, GetFails, PostFails
<1> QED BY <1>6, <1>7

\* What the panels rely on: letters and events stay, letters keep their payload and,
\* once they have it, their stamp; and a replay under way is stamped when it ends.
LEMMA ServerGrows ==
  ASSUME QP!IInv, PostsSound, [Next]_vars
  PROVE  /\ DOMAIN deadLetters \subseteq DOMAIN deadLetters'
         /\ \A d \in DOMAIN deadLetters :
              /\ deadLetters'[d].payload = deadLetters[d].payload
              /\ deadLetters[d].replayed => deadLetters'[d].replayed
              /\ d \in replaying => d \in replaying' \/ deadLetters'[d].replayed
         /\ spine \subseteq spine'
         /\ \A row \in spine' : row \in spine \/ row \in EventRows
<1>1. QP!TypeInv /\ [QP!Next]_(QP!vars) BY ServerStep DEF QP!IInv
<1>2. /\ QP!DocIds = DOMAIN deadLetters /\ (QP!DocIds)' = DOMAIN deadLetters'
      /\ \A d \in QP!DocIds : deadLetters'[d].payload = deadLetters[d].payload
      /\ QP!DocIds \subseteq (QP!DocIds)'
  BY <1>1, QP!DocsStep, QueueConstants DEF QP!DocIds
<1>3. \A d \in QP!DocIds : deadLetters[d].replayed => deadLetters'[d].replayed
  BY <1>1, QP!StampsStay, QueueConstants
<1>4. /\ spine \subseteq spine'
      /\ \A row \in spine' \ spine : \E p \in Payloads : row = QP!Spine!Row(p.tenant, p.ev)
  BY <1>1, QP!SpineMoves, QueueConstants
<1>5. \A p \in Payloads : QP!Spine!Row(p.tenant, p.ev) \in EventRows
  BY DEF QP!Spine!Row, Queue!Spine!Row, EventRows
<1>6. ASSUME NEW d \in DOMAIN deadLetters, d \in replaying
      PROVE  d \in replaying' \/ deadLetters'[d].replayed
  <2>1. \/ replaying \subseteq replaying'
        \/ \E m \in DOMAIN posts : Queue!ReplayStamp(posts[m].target)
    <3>1. CASE Worker
      BY <3>1 DEF Worker, Queue!SlotStep, Queue!RedisStep, Queue!HandlerStep, Queue!Take,
                  Queue!Process, Queue!Land, Queue!Answer, Queue!Complete, Queue!Fail,
                  Queue!LostLock, Queue!Promote, Queue!Stalled, Queue!Create, Queue!Park
    <3>2. \A p : Queue!Enqueue(p) \/ Queue!Inject(p) => replaying' = replaying
      BY DEF Queue!Enqueue, Queue!Inject, Queue!Add
    <3>3. \A m \in DOMAIN posts :
            ServeReplay(m) => \/ replaying \subseteq replaying'
                              \/ Queue!ReplayStamp(posts[m].target)
      BY DEF ServeReplay, Queue!ReplayAdd, server
    <3>4. \A m \in DOMAIN posts : ServeSync(m) => replaying' = replaying
      BY <3>2 DEF ServeSync, server
    <3> QED
      BY <3>1, <3>2, <3>3, <3>4
         DEF vars, server, Next, System, Query, Mutation, User, Failure, Produce, ServeGet,
             Arrive, Retry, Answered, Timer, Switch, ClickReplay, ClickSync, Post, GetFails,
             PostFails
  <2>2. ASSUME NEW e, Queue!ReplayStamp(e), e = d PROVE deadLetters'[d].replayed
    <3>1. deadLetters[d] \in QP!Docs BY <1>1, <1>2, <1>6, QP!DocTypes, QueueConstants
    <3>2. deadLetters'[d] = [deadLetters[d] EXCEPT !.replayed = TRUE]
      BY <1>6, <2>2 DEF Queue!ReplayStamp
    <3> QED BY <3>1, <3>2 DEF QP!Docs
  <2>3. \A e : Queue!ReplayStamp(e) => replaying' = replaying \ {e}
    BY DEF Queue!ReplayStamp
  <2> QED BY <1>6, <2>1, <2>2, <2>3
<1> QED BY <1>2, <1>3, <1>4, <1>5, <1>6

-------------------------------------------------------------------------------
(* The cache.                                                                  *)

LEMMA KeyFacts ==
  /\ \A panel \in Panels, t \in Tenants :
       /\ QueryKey(panel, t) \in Keys
       /\ QueryKey(panel, t)[1] = panel /\ QueryKey(panel, t)[2] = t
  /\ \A k \in Keys : k[1] \in Panels /\ k[2] \in Tenants /\ k = QueryKey(k[1], k[2])
  /\ \A k \in Mounted : k[2] = tenant
  /\ \A k \in Keys : k[2] = tenant => k \in Mounted
BY DEF QueryKey, Keys, Mounted

\* The rows of one tenant stay rows of that tenant.
LEMMA RowsForGrow ==
  ASSUME QP!IInv, PostsSound, [Next]_vars, NEW panel, NEW t
  PROVE  \A rows : rows \subseteq RowsFor(panel, t) => rows \subseteq RowsFor(panel, t)'
BY ServerGrows DEF RowsFor

\* The list routes answer with rows of the tenant that asks.
LEMMA RouteAnswers ==
  ASSUME QP!IInv, spine \subseteq EventRows, NEW panel \in Panels, NEW t \in Tenants
  PROVE  RowsOf(panel, t) \subseteq RowsFor(panel, t)
<1>1. CASE panel = "events" BY <1>1 DEF RowsOf, EventsOf, RowsFor
<1>2. CASE panel = "dlq"
  <2>1. /\ DOMAIN deadLetters = 1 .. Len(deadLetters) /\ Len(deadLetters) \in Nat
        /\ \A d \in DOMAIN deadLetters : deadLetters[d] \in QP!Docs
    BY QP!DocTypes, QueueConstants DEF QP!IInv, QP!DocIds
  <2>2. Len(deadLetters) <= MaxJobs
    BY QP!LettersBounded, QueueConstants DEF QP!IInv
  <2>3. \A d \in DOMAIN deadLetters : d \in 1 .. MaxJobs BY <2>1, <2>2, QueueConstants
  <2>4. \A d \in DOMAIN deadLetters : deadLetters[d].replayed \in BOOLEAN
    BY <2>1 DEF QP!Docs
  <2> QED BY <1>2, <2>3, <2>4 DEF RowsOf, LettersOf, RowsFor, LetterRows
<1> QED BY <1>1, <1>2 DEF Panels

\* An answer is never mistaken for a query without data.
LEMMA RowsAreData ==
  \A panel, t, rows : rows \subseteq RowsFor(panel, t) =>
    rows # NoData /\ rows \subseteq EventRows \cup LetterRows
<1>1. \A panel, t, rows : rows \subseteq RowsFor(panel, t) =>
        rows \in SUBSET (EventRows \cup LetterRows)
  BY DEF RowsFor
<1> QED BY <1>1, NoDataAssumption

\* What a step can do to one query.
SameData(k) == data'[k] = data[k]

KeyEdge(k) ==
  \/ fetch'[k] = fetch[k] /\ SameData(k)
  \/ fetch'[k] = Asked(k[2]) /\ SameData(k)
  \/ /\ fetch[k].pc = "ask"
     /\ fetch'[k] = [fetch[k] EXCEPT !.pc = "answered", !.rows = RowsOf(k[1], fetch[k].tenant)]
     /\ SameData(k)
  \/ /\ fetch[k].pc = "answered"
     /\ fetch'[k] = NoFetch /\ data'[k] = fetch[k].rows
  \/ /\ fetch[k].pc # "none" /\ MayRetry(k) /\ spare'["get"] = spare["get"] - 1
     /\ fetch'[k] = [fetch[k] EXCEPT !.pc = "backoff", !.rows = {}, !.tries = @ + 1]
     /\ SameData(k)
  \/ /\ fetch[k].pc # "none" /\ ~ MayRetry(k) /\ spare'["get"] = spare["get"] - 1
     /\ fetch'[k] = NoFetch /\ SameData(k)
  \/ /\ fetch[k].pc = "backoff" /\ k \in Mounted
     /\ fetch'[k] = [fetch[k] EXCEPT !.pc = "ask"] /\ SameData(k)
  \/ /\ fetch[k].pc = "backoff" /\ k \notin Mounted
     /\ fetch'[k] = NoFetch /\ SameData(k)

CacheMoves ==
  /\ fetch' = [k \in Keys |-> fetch'[k]] /\ data' = [k \in Keys |-> data'[k]]
  /\ \A k \in Keys : KeyEdge(k)

\* A step of one query is one of these for that query, and nothing for the others.
LEMMA OneKeyMoves ==
  ASSUME UiTypes, NEW k \in Keys, NEW f, NEW d,
         fetch' = [fetch EXCEPT ![k] = f], data' = [data EXCEPT ![k] = d],
         fetch'[k] = f /\ data'[k] = d => KeyEdge(k)
  PROVE  CacheMoves
<1>1. /\ fetch = [q \in Keys |-> fetch[q]] /\ data = [q \in Keys |-> data[q]]
      /\ DOMAIN fetch = Keys /\ DOMAIN data = Keys
  BY DEF UiTypes
<1>2. fetch'[k] = f /\ data'[k] = d BY <1>1
<1>3. \A q \in Keys : q # k => fetch'[q] = fetch[q] /\ data'[q] = data[q] BY <1>1
<1>4. \A q \in Keys : KeyEdge(q) BY <1>2, <1>3 DEF KeyEdge, SameData
<1>5. fetch' = [q \in Keys |-> fetch'[q]] /\ data' = [q \in Keys |-> data'[q]] BY <1>1
<1> QED BY <1>4, <1>5 DEF CacheMoves

LEMMA QueryMoves ==
  ASSUME UiTypes, NEW k \in Keys, Query(k) \/ GetFails(k)
  PROVE  CacheMoves
<1>0. data = [data EXCEPT ![k] = data[k]] /\ fetch[k] \in Fetches /\ DOMAIN fetch = Keys
  BY DEF UiTypes
<1>1. CASE ServeGet(k)
  <2> DEFINE f == [fetch[k] EXCEPT !.pc = "answered", !.rows = RowsOf(k[1], fetch[k].tenant)]
  <2>1. fetch' = [fetch EXCEPT ![k] = f] BY <1>0, <1>1 DEF ServeGet
  <2>2. data' = [data EXCEPT ![k] = data[k]] BY <1>0, <1>1 DEF ServeGet
  <2>3. fetch'[k] = f /\ data'[k] = data[k] => KeyEdge(k)
    BY <1>1 DEF ServeGet, KeyEdge, SameData
  <2> HIDE DEF f
  <2> QED BY <2>1, <2>2, <2>3, OneKeyMoves
<1>2. CASE Arrive(k)
  <2>1. fetch'[k] = NoFetch /\ data'[k] = fetch[k].rows => KeyEdge(k)
    BY <1>2 DEF Arrive, KeyEdge
  <2> QED BY <1>2, <2>1, OneKeyMoves DEF Arrive
<1>3. CASE Retry(k)
  <2> DEFINE f == IF k \in Mounted THEN [fetch[k] EXCEPT !.pc = "ask"] ELSE NoFetch
  <2>1. fetch' = [fetch EXCEPT ![k] = f] BY <1>0, <1>3 DEF Retry
  <2>2. data' = [data EXCEPT ![k] = data[k]] BY <1>0, <1>3 DEF Retry
  <2>3. fetch'[k] = f /\ data'[k] = data[k] => KeyEdge(k)
    BY <1>3 DEF Retry, KeyEdge, SameData
  <2> HIDE DEF f
  <2> QED BY <2>1, <2>2, <2>3, OneKeyMoves
<1>4. CASE GetFails(k)
  <2>1. spare'["get"] = spare["get"] - 1 /\ data' = [data EXCEPT ![k] = data[k]]
    BY <1>0, <1>4 DEF GetFails, Spend, UiTypes
  <2>2. CASE MayRetry(k)
    <3> DEFINE f == [fetch[k] EXCEPT !.pc = "backoff", !.rows = {}, !.tries = @ + 1]
    <3>1. fetch' = [fetch EXCEPT ![k] = f] BY <1>0, <1>4, <2>2 DEF GetFails
    <3>2. fetch'[k] = f /\ data'[k] = data[k] => KeyEdge(k)
      BY <1>4, <2>1, <2>2 DEF GetFails, KeyEdge, SameData
    <3> HIDE DEF f
    <3> QED BY <2>1, <3>1, <3>2, OneKeyMoves
  <2>3. CASE ~ MayRetry(k)
    <3>1. fetch' = [fetch EXCEPT ![k] = NoFetch] BY <1>0, <1>4, <2>3 DEF GetFails
    <3>2. fetch'[k] = NoFetch /\ data'[k] = data[k] => KeyEdge(k)
      BY <1>4, <2>1, <2>3 DEF GetFails, KeyEdge, SameData
    <3> QED BY <2>1, <3>1, <3>2, OneKeyMoves
  <2> QED BY <2>2, <2>3
<1> QED BY <1>1, <1>2, <1>3, <1>4 DEF Query

LEMMA CacheStep ==
  ASSUME UiTypes, [Next]_vars
  PROVE  CacheMoves
<1>0. /\ fetch = [q \in Keys |-> fetch[q]] /\ data = [q \in Keys |-> data[q]]
  BY DEF UiTypes
<1>1. CASE UNCHANGED <<data, fetch>>
  BY <1>0, <1>1 DEF CacheMoves, KeyEdge, SameData
<1>2. ASSUME NEW k \in Keys, Query(k) \/ GetFails(k) PROVE CacheMoves
  BY <1>2, QueryMoves
<1>3. ASSUME NEW keys, Invalidate(keys), UNCHANGED data PROVE CacheMoves
  <2>1. fetch' = [k \in Keys |-> IF k \in keys /\ Restarts(k) THEN Asked(tenant) ELSE fetch[k]]
    BY <1>3 DEF Invalidate
  <2>2. \A k \in Keys : fetch'[k] = fetch[k] \/ fetch'[k] = Asked(k[2])
    BY <2>1, KeyFacts DEF Restarts
  <2> QED BY <1>0, <1>3, <2>1, <2>2 DEF CacheMoves, KeyEdge, SameData
<1>4. ASSUME NEW t \in Tenants, Switch(t) PROVE CacheMoves
  <2>1. fetch' = Mount(fetch, t) /\ data' = data BY <1>4 DEF Switch
  <2>2. \A k \in Keys : fetch'[k] = fetch[k] \/ fetch'[k] = Asked(k[2])
    BY <2>1, KeyFacts DEF Mount
  <2>3. fetch' = [k \in Keys |-> fetch'[k]] BY <2>1 DEF Mount
  <2> QED BY <1>0, <2>1, <2>2, <2>3 DEF CacheMoves, KeyEdge, SameData
<1> QED
  BY <1>1, <1>2, <1>3, <1>4
     DEF vars, ui, Next, System, Worker, Mutation, User, Failure, Produce, ServeReplay,
         ServeSync, Advance, Answered, Timer, ClickReplay, ClickSync, Post, PostFails

-------------------------------------------------------------------------------
(* The buttons.                                                                *)

DueNow(m) ==
  /\ posts[m].kind = "replay" /\ Reflowed(m) \in spine
  /\ data[QueryKey("events", posts[m].tenant)] # NoData

\* What a step can do to one button.
PostEdge(m) ==
  \/ posts'[m].pc = posts[m].pc /\ posts'[m].due = posts[m].due
  \/ posts'[m].pc = "failed" /\ posts'[m].due = posts[m].due
  \/ /\ posts'[m].pc \in {"added", "served"} /\ posts'[m].due = posts[m].due
     /\ \/ posts[m].kind # "replay"
        \/ posts'[m].pc = "added" /\ posts[m].target \in replaying'
        \/ /\ posts[m].pc = "added" /\ posts'[m].pc = "served"
           /\ \/ posts[m].target \notin replaying
              \/ Queue!ReplayStamp(posts[m].target)
  \/ /\ posts[m].pc = "served" /\ posts'[m].pc = "timer" /\ posts'[m].due = posts[m].due
     /\ Invalidate(AtOnce(m)) /\ UNCHANGED <<server, tenant, visit, data>>
  \/ /\ posts[m].pc = "timer" /\ posts'[m].pc = "done" /\ posts'[m].due = DueNow(m)
     /\ Invalidate(Later(m)) /\ UNCHANGED <<server, tenant, visit, data>>

SamePost(m) ==
  /\ posts'[m].kind = posts[m].kind /\ posts'[m].tenant = posts[m].tenant
  /\ posts'[m].target = posts[m].target /\ posts'[m].visit = posts[m].visit

NewPost(m) ==
  /\ posts'[m].pc = "sent" /\ ~ posts'[m].due
  /\ posts'[m].visit = visit /\ posts'[m].tenant = tenant
  /\ posts'[m].kind = "replay" => \E row \in Shown("dlq") : posts'[m].target = row.doc
  /\ UNCHANGED <<server, tenant, visit, data, fetch>>

PostsMove ==
  /\ posts' \in Seq(Posts)
  /\ DOMAIN posts \subseteq DOMAIN posts'
  /\ \A m \in DOMAIN posts : SamePost(m) /\ PostEdge(m)
  /\ \A m \in DOMAIN posts' \ DOMAIN posts : NewPost(m)

LEMMA PostTypes ==
  ASSUME UiTypes
  PROVE  /\ DOMAIN posts = 1 .. Len(posts) /\ Len(posts) \in Nat
         /\ \A m \in DOMAIN posts : posts[m] \in Posts
<1> DEFINE S == Posts
<1>1. posts \in Seq(S) BY DEF UiTypes
<1> HIDE DEF S
<1>2. DOMAIN posts = 1 .. Len(posts) /\ Len(posts) \in Nat BY <1>1, LenProperties
<1>3. \A m \in 1 .. Len(posts) : posts[m] \in S BY <1>1, ElementOfSeq
<1> QED BY <1>2, <1>3 DEF S

\* One button moves on; the others stay as they are.
LEMMA OnePostMoves ==
  ASSUME UiTypes, NEW m \in DOMAIN posts, NEW f \in Posts,
         f.kind = posts[m].kind, f.tenant = posts[m].tenant,
         f.target = posts[m].target, f.visit = posts[m].visit,
         posts' = [posts EXCEPT ![m] = f],
         posts'[m] = f => PostEdge(m)
  PROVE  PostsMove
<1> DEFINE S == Posts
<1>1. posts \in Seq(S) /\ f \in S /\ m \in 1 .. Len(posts) BY PostTypes DEF UiTypes
<1> HIDE DEF S
<1>2. /\ posts' \in Seq(S) /\ Len(posts') = Len(posts)
      /\ \A n \in 1 .. Len(posts) : posts'[n] = IF n = m THEN f ELSE posts[n]
  BY <1>1, ExceptSeq
<1>3. DOMAIN posts' = DOMAIN posts BY <1>1, <1>2, LenProperties
<1>4. \A n \in DOMAIN posts : posts'[n] = IF n = m THEN f ELSE posts[n]
  BY <1>2, PostTypes
<1>5. \A n \in DOMAIN posts : SamePost(n) /\ PostEdge(n)
  BY <1>4 DEF SamePost, PostEdge
<1> QED BY <1>2, <1>3, <1>5 DEF PostsMove, S

\* A click is a button of the panels on screen.
LEMMA ClickMoves ==
  ASSUME UiTypes, QP!IInv, CacheSound, ClickReplay \/ ClickSync
  PROVE  PostsMove
<1> DEFINE S == Posts
           New(kind, target) == [kind |-> kind, tenant |-> tenant, target |-> target,
                                 visit |-> visit, pc |-> "sent", due |-> FALSE]
<1>1. PICK kind \in {"replay", "reconcile", "backfill"},
           target \in Nat \cup {c.id : c \in Connections} :
        /\ Post(kind, target)
        /\ kind = "replay" => \E row \in Shown("dlq") : target = row.doc
  <2>1. \A row \in Shown("dlq") : row.doc \in Nat
    <3>1. QueryKey("dlq", tenant) \in Keys /\ QueryKey("dlq", tenant)[1] = "dlq"
      BY KeyFacts DEF UiTypes, Panels
    <3>2. \A row \in Shown("dlq") : row \in LetterRows
      BY <3>1 DEF Shown, CacheSound, RowsFor
    <3> QED BY <3>2, QueueConstants DEF LetterRows
  <2>2. CASE ClickReplay BY <2>1, <2>2 DEF ClickReplay
  <2>3. CASE ClickSync BY <2>3 DEF ClickSync
  <2> QED BY <2>2, <2>3
<1> DEFINE new == New(kind, target)
<1>2. /\ posts' = Append(posts, new) /\ UNCHANGED <<server, tenant, visit, data, fetch>>
      /\ new \in S /\ posts \in Seq(S)
  BY <1>1 DEF Post, Posts, UiTypes
<1>3. /\ new.pc = "sent" /\ ~ new.due /\ new.visit = visit /\ new.tenant = tenant
      /\ new.kind = kind /\ new.target = target
  OBVIOUS
<1> HIDE DEF S, new
<1>4. /\ posts' \in Seq(S) /\ Len(posts') = Len(posts) + 1
      /\ \A n \in 1 .. Len(posts) : posts'[n] = posts[n]
      /\ posts'[Len(posts) + 1] = new
  BY <1>2, AppendProperties
<1>5. DOMAIN posts' = 1 .. Len(posts) + 1 BY <1>4, LenProperties
<1>6. DOMAIN posts \subseteq DOMAIN posts'
      /\ \A m \in DOMAIN posts' \ DOMAIN posts : m = Len(posts) + 1
  BY <1>5, PostTypes
<1>7. \A m \in DOMAIN posts : posts'[m] = posts[m] BY <1>4, PostTypes
<1>8. \A m \in DOMAIN posts' \ DOMAIN posts : NewPost(m)
  BY <1>1, <1>2, <1>3, <1>4, <1>6 DEF NewPost
<1> QED BY <1>4, <1>6, <1>7, <1>8 DEF PostsMove, SamePost, PostEdge, S

\* A button of which only the `pc` changes.
LEMMA AdvanceMoves ==
  ASSUME UiTypes, NEW m \in DOMAIN posts,
         NEW pc \in {"sent", "added", "served", "timer", "done", "failed"},
         posts' = [posts EXCEPT ![m].pc = pc],
         posts'[m].pc = pc /\ posts'[m].due = posts[m].due => PostEdge(m)
  PROVE  PostsMove
<1> DEFINE f == [posts[m] EXCEPT !.pc = pc]
<1>0. posts[m] \in Posts BY PostTypes
<1>1. /\ f \in Posts /\ f.pc = pc /\ f.due = posts[m].due
      /\ f.kind = posts[m].kind /\ f.tenant = posts[m].tenant
      /\ f.target = posts[m].target /\ f.visit = posts[m].visit
  BY <1>0 DEF Posts
<1>2. posts' = [posts EXCEPT ![m] = f] BY <1>0
<1> HIDE DEF f
<1> QED BY <1>1, <1>2, OnePostMoves

LEMMA MutationMoves ==
  ASSUME UiTypes, NEW m \in DOMAIN posts, Mutation(m) \/ PostFails(m)
  PROVE  PostsMove
<1>0. posts[m] \in Posts BY PostTypes
<1>1. CASE ServeReplay(m)
  <2> DEFINE d == posts[m].target
  <2>1. CASE posts[m].pc = "sent"
    <3>1. d \in replaying' BY <1>1, <2>1 DEF ServeReplay, Queue!ReplayAdd
    <3>2. posts' = [posts EXCEPT ![m].pc = "added"] BY <1>1, <2>1 DEF ServeReplay, Advance
    <3> QED BY <3>1, <3>2, AdvanceMoves DEF PostEdge
  <2>2. CASE posts[m].pc = "added"
    <3>1. d \notin replaying \/ Queue!ReplayStamp(d) BY <1>1, <2>2 DEF ServeReplay
    <3>2. posts' = [posts EXCEPT ![m].pc = "served"] BY <1>1, <2>2 DEF ServeReplay, Advance
    <3> QED BY <2>2, <3>1, <3>2, AdvanceMoves DEF PostEdge
  <2> QED BY <1>1, <2>1, <2>2 DEF ServeReplay
<1>2. CASE ServeSync(m)
  <2>1. posts' = [posts EXCEPT ![m].pc = "served"] /\ posts[m].kind # "replay"
    BY <1>2 DEF ServeSync, Advance
  <2> QED BY <2>1, AdvanceMoves DEF PostEdge
<1>3. CASE Answered(m) BY <1>3, AdvanceMoves DEF Answered, PostEdge
<1>4. CASE Timer(m)
  <2> DEFINE f == [posts[m] EXCEPT !.pc = "done", !.due = DueNow(m)]
  <2>0. DueNow(m) \in BOOLEAN BY DEF DueNow
  <2>1. /\ f \in Posts /\ f.pc = "done" /\ f.due = DueNow(m)
        /\ f.kind = posts[m].kind /\ f.tenant = posts[m].tenant
        /\ f.target = posts[m].target /\ f.visit = posts[m].visit
    BY <1>0, <2>0 DEF Posts
  <2>2. posts' = [posts EXCEPT ![m] = f] BY <1>0, <1>4 DEF Timer, DueNow
  <2>3. posts[m].pc = "timer" /\ Invalidate(Later(m)) /\ UNCHANGED <<server, tenant, visit, data>>
    BY <1>4 DEF Timer
  <2> HIDE DEF f
  <2> QED BY <2>1, <2>2, <2>3, OnePostMoves DEF PostEdge
<1>5. CASE PostFails(m) BY <1>5, AdvanceMoves DEF PostFails, PostEdge
<1> QED BY <1>1, <1>2, <1>3, <1>4, <1>5 DEF Mutation

LEMMA PostsStep ==
  ASSUME UiTypes, QP!IInv, CacheSound, [Next]_vars
  PROVE  PostsMove
<1>1. CASE UNCHANGED posts
  BY <1>1, PostTypes DEF UiTypes, PostsMove, SamePost, PostEdge
<1> QED
  BY <1>1, ClickMoves, MutationMoves
     DEF vars, ui, Next, System, Worker, User, Failure, Produce, Query, ServeGet, Arrive,
         Retry, Switch, GetFails

-------------------------------------------------------------------------------
(* The steps keep UInv.                                                        *)

\* The bounds only fall, and a page visit ends with a switch of the tenant.
LEMMA SpareStep ==
  ASSUME UiTypes, [Next]_vars
  PROVE  /\ spare' \in [{"click", "switch", "get", "post", "any"} -> Nat]
         /\ spare'["get"] <= spare["get"]
         /\ visit' \in Nat /\ tenant' \in Tenants
         /\ \/ visit' = visit /\ tenant' = tenant
            \/ visit' = visit + 1 /\ UNCHANGED <<server, posts, data>>
<1>1. UNCHANGED spare \/ \E what \in {"click", "switch", "get", "post"} : Spend(what)
  BY DEF vars, ui, Next, System, Worker, Mutation, User, Failure, Produce, Query, ServeGet,
         Arrive, Retry, ServeReplay, ServeSync, Advance, Answered, Timer, ClickReplay,
         ClickSync, Post, Switch, GetFails, PostFails
<1>2. ASSUME NEW what \in {"click", "switch", "get", "post"}, Spend(what)
      PROVE  /\ spare' \in [{"click", "switch", "get", "post", "any"} -> Nat]
             /\ spare'["get"] <= spare["get"]
  BY <1>2 DEF Spend, UiTypes
<1>3. \/ UNCHANGED <<visit, tenant>>
      \/ \E t \in Tenants : /\ visit' = visit + 1 /\ tenant' = t
                            /\ UNCHANGED <<server, posts, data>>
  BY DEF vars, ui, Next, System, Worker, Mutation, User, Failure, Produce, Query, ServeGet,
         Arrive, Retry, ServeReplay, ServeSync, Advance, Answered, Timer, ClickReplay,
         ClickSync, Post, Switch, GetFails, PostFails
<1>4. UNCHANGED spare => /\ spare' \in [{"click", "switch", "get", "post", "any"} -> Nat]
                         /\ spare'["get"] <= spare["get"]
  BY DEF UiTypes
<1> QED BY <1>1, <1>2, <1>3, <1>4 DEF UiTypes

\* Every cached row, and every row on its way, is of the key's tenant; and a fetch is
\* tried again only when a GET has failed.
LEMMA CacheSoundStep ==
  ASSUME UiTypes, QP!IInv, CacheSound, TriesSound, PostsSound, [Next]_vars
  PROVE  /\ fetch' \in [Keys -> Fetches]
         /\ data' = [k \in Keys |-> data'[k]]
         /\ CacheSound'
         /\ TriesSound'
<1>0. /\ fetch \in [Keys -> Fetches] /\ CacheMoves
      /\ spare["get"] \in Nat /\ spare'["get"] \in Nat /\ spare'["get"] <= spare["get"]
      /\ UserBudget["get"] \in Nat
  BY CacheStep, SpareStep, UserBudgetAssumption DEF UiTypes
<1>n. NoFetch \in Fetches /\ NoFetch.pc = "none" /\ NoFetch.rows = {} /\ NoFetch.tries = 0
  BY FirstAssumption DEF NoFetch, Fetches
<1>a. \A t \in Tenants : /\ Asked(t) \in Fetches /\ Asked(t).rows = {} /\ Asked(t).tries = 0
                         /\ Asked(t).tenant = t
  BY <1>n DEF Asked, Fetches, NoFetch
<1>1. ASSUME NEW k \in Keys
      PROVE  /\ fetch'[k] \in Fetches
             /\ data'[k] # NoData => data'[k] \subseteq RowsFor(k[1], k[2])
             /\ fetch'[k].rows \subseteq RowsFor(k[1], k[2])
             /\ fetch'[k].pc # "none" => fetch'[k].tenant = k[2]
             /\ fetch'[k].tries + spare'["get"] <= UserBudget["get"]
  <2>0. /\ fetch[k] \in Fetches /\ k[1] \in Panels /\ k[2] \in Tenants
        /\ data[k] # NoData => data[k] \subseteq RowsFor(k[1], k[2])
        /\ fetch[k].rows \subseteq RowsFor(k[1], k[2])
        /\ fetch[k].pc # "none" => fetch[k].tenant = k[2]
        /\ fetch[k].tries + spare["get"] <= UserBudget["get"]
    BY <1>0, KeyFacts DEF CacheSound, TriesSound
  <2>t. fetch[k].tries \in Nat BY <2>0 DEF Fetches
  <2>b. spare'["get"] <= UserBudget["get"]
        /\ fetch[k].tries + spare'["get"] <= UserBudget["get"]
    BY <1>0, <2>0, <2>t
  <2>1. CASE fetch'[k] = fetch[k] /\ SameData(k)
    BY <2>0, <2>b, <2>1 DEF SameData
  <2>2. CASE fetch'[k] = Asked(k[2]) /\ SameData(k)
    BY <1>0, <1>a, <2>0, <2>b, <2>2 DEF SameData
  <2>3. CASE /\ fetch[k].pc = "ask"
             /\ fetch'[k] = [fetch[k] EXCEPT !.pc = "answered",
                                             !.rows = RowsOf(k[1], fetch[k].tenant)]
             /\ SameData(k)
    <3>1. RowsOf(k[1], fetch[k].tenant) \subseteq RowsFor(k[1], k[2])
      BY <2>0, <2>3, RouteAnswers DEF UiTypes
    <3>2. RowsOf(k[1], fetch[k].tenant) \subseteq EventRows \cup LetterRows
      BY <3>1, RowsAreData
    <3> DEFINE rows == RowsOf(k[1], fetch[k].tenant)
    <3> HIDE DEF rows
    <3>3. rows \subseteq RowsFor(k[1], k[2]) /\ rows \in SUBSET (EventRows \cup LetterRows)
      BY <3>1, <3>2 DEF rows
    <3>4. fetch'[k] = [fetch[k] EXCEPT !.pc = "answered", !.rows = rows] BY <2>3 DEF rows
    <3>5. /\ fetch'[k] \in Fetches /\ fetch'[k].rows = rows
          /\ fetch'[k].tenant = fetch[k].tenant /\ fetch'[k].tries = fetch[k].tries
      BY <2>0, <3>3, <3>4 DEF Fetches
    <3> QED BY <2>0, <2>3, <2>b, <3>3, <3>5 DEF SameData
  <2>4. CASE fetch[k].pc = "answered" /\ fetch'[k] = NoFetch /\ data'[k] = fetch[k].rows
    BY <1>0, <1>n, <2>0, <2>b, <2>4
  <2>5. CASE /\ fetch[k].pc # "none" /\ spare'["get"] = spare["get"] - 1
             /\ fetch'[k] = [fetch[k] EXCEPT !.pc = "backoff", !.rows = {}, !.tries = @ + 1]
             /\ SameData(k)
    <3> DEFINE more == fetch[k].tries + 1
               g == [fetch[k] EXCEPT !.pc = "backoff", !.rows = {}, !.tries = more]
    <3>a. fetch'[k] = g BY <2>5
    <3>b. more \in Nat /\ {} \in SUBSET (EventRows \cup LetterRows) BY <2>t
    <3> HIDE DEF more
    <3>c. g \in Fetches /\ g.rows = {} /\ g.tenant = fetch[k].tenant /\ g.tries = more
      BY <2>0, <3>b DEF Fetches
    <3> HIDE DEF g
    <3>1. /\ fetch'[k] \in Fetches /\ fetch'[k].rows = {}
          /\ fetch'[k].tenant = fetch[k].tenant /\ fetch'[k].tries = fetch[k].tries + 1
      BY <3>a, <3>c DEF more
    <3> QED BY <1>0, <2>0, <2>t, <2>5, <3>1 DEF SameData
  <2>6. CASE fetch'[k] = NoFetch /\ SameData(k)
    BY <1>0, <1>n, <2>0, <2>b, <2>6 DEF SameData
  <2>7. CASE /\ fetch[k].pc = "backoff"
             /\ fetch'[k] = [fetch[k] EXCEPT !.pc = "ask"] /\ SameData(k)
    <3>1. /\ fetch'[k] \in Fetches /\ fetch'[k].rows = fetch[k].rows
          /\ fetch'[k].tenant = fetch[k].tenant /\ fetch'[k].tries = fetch[k].tries
      BY <2>0, <2>7 DEF Fetches
    <3> QED BY <2>0, <2>b, <2>7, <3>1 DEF SameData
  <2> QED
    BY <1>0, <2>1, <2>2, <2>3, <2>4, <2>5, <2>6, <2>7 DEF CacheMoves, KeyEdge
<1>2. \A k \in Keys : /\ data'[k] # NoData => data'[k] \subseteq RowsFor(k[1], k[2])'
                      /\ fetch'[k].rows \subseteq RowsFor(k[1], k[2])'
  BY <1>1, RowsForGrow
<1> QED BY <1>0, <1>1, <1>2 DEF CacheMoves, CacheSound, TriesSound

\* Data that is there stays.
LEMMA DataStays ==
  ASSUME UiTypes, CacheSound, [Next]_vars, NEW k \in Keys, data[k] # NoData
  PROVE  data'[k] # NoData
<1>1. fetch[k].rows # NoData BY RowsAreData DEF CacheSound
<1>2. KeyEdge(k) BY CacheStep DEF CacheMoves
<1> QED BY <1>1, <1>2 DEF KeyEdge, SameData

\* The event of a replay is that of its letter, which does not change.
LEMMA ReflowedStays ==
  ASSUME QP!IInv, PostsSound, [Next]_vars, NEW m \in DOMAIN posts, SamePost(m),
         posts[m].kind = "replay"
  PROVE  Reflowed(m)' = Reflowed(m)
<1>1. posts[m].target \in DOMAIN deadLetters BY DEF PostsSound, PostSound
<1>2. deadLetters'[posts[m].target].payload = deadLetters[posts[m].target].payload
  BY <1>1, ServerGrows
<1> QED BY <1>2 DEF SamePost, Reflowed, Queue!Spine!Row

LEMMA PostsSoundStep ==
  ASSUME UiTypes, QP!IInv, CacheSound, PostsSound, [Next]_vars
  PROVE  PostsSound'
<1>0. /\ PostsMove /\ visit \in Nat /\ visit' \in Nat /\ tenant \in Tenants
      /\ \/ visit' = visit /\ tenant' = tenant
         \/ visit' = visit + 1 /\ UNCHANGED <<server, posts, data>>
  BY PostsStep, SpareStep DEF UiTypes
<1>1. ASSUME NEW m \in DOMAIN posts PROVE PostSound(m)'
  <2> DEFINE d == posts[m].target
             p == posts[m]
             q == posts'[m]
  <2>0. p \in Posts /\ PostSound(m) /\ SamePost(m) /\ PostEdge(m)
    BY <1>0, PostTypes DEF PostsMove, PostsSound
  <2>1. q.kind = p.kind /\ q.tenant = p.tenant /\ q.target = d /\ q.visit = p.visit
    BY <2>0 DEF SamePost
  <2>2. p.visit \in Nat /\ p.tenant \in Tenants BY <2>0 DEF Posts
  <2>3. /\ q.visit <= visit'
        /\ q.visit = visit' => q.tenant = tenant'
    BY <1>0, <2>0, <2>1, <2>2 DEF PostSound
  <2>4. ASSUME p.kind = "replay"
        PROVE  /\ d \in DOMAIN deadLetters'
               /\ deadLetters'[d].payload.tenant = p.tenant
               /\ q.pc = "added" => d \in replaying' \/ deadLetters'[d].replayed
               /\ q.pc \in {"served", "timer", "done"} => deadLetters'[d].replayed
               /\ data'[QueryKey("dlq", p.tenant)] # NoData
    <3>1. /\ d \in DOMAIN deadLetters
          /\ deadLetters[d].payload.tenant = p.tenant
          /\ p.pc = "added" => d \in replaying \/ deadLetters[d].replayed
          /\ p.pc \in {"served", "timer", "done"} => deadLetters[d].replayed
          /\ data[QueryKey("dlq", p.tenant)] # NoData
      BY <2>0, <2>4 DEF PostSound
    <3>2. /\ d \in DOMAIN deadLetters'
          /\ deadLetters'[d].payload = deadLetters[d].payload
          /\ deadLetters[d].replayed => deadLetters'[d].replayed
          /\ d \in replaying => d \in replaying' \/ deadLetters'[d].replayed
      BY <3>1, ServerGrows
    <3>3. QueryKey("dlq", p.tenant) \in Keys BY <2>2, KeyFacts DEF Panels
    <3>4. data'[QueryKey("dlq", p.tenant)] # NoData BY <3>1, <3>3, DataStays
    <3>5. Queue!ReplayStamp(d) => deadLetters'[d].replayed
      <4>1. deadLetters[d] \in QP!Docs
        BY <3>1, QP!DocTypes, QueueConstants DEF QP!IInv, QP!DocIds
      <4>2. Queue!ReplayStamp(d) =>
              deadLetters'[d] = [deadLetters[d] EXCEPT !.replayed = TRUE]
        BY <3>1 DEF Queue!ReplayStamp
      <4> QED BY <4>1, <4>2 DEF QP!Docs
    <3>6. /\ q.pc = "added" => d \in replaying' \/ deadLetters'[d].replayed
          /\ q.pc \in {"served", "timer", "done"} => deadLetters'[d].replayed
      BY <2>0, <2>4, <3>1, <3>2, <3>5 DEF PostEdge
    <3> QED BY <3>1, <3>2, <3>4, <3>6
  <2>5. ASSUME q.due
        PROVE  /\ p.kind = "replay"
               /\ Reflowed(m)' \in spine'
               /\ data'[QueryKey("events", p.tenant)] # NoData
    <3>1. /\ p.kind = "replay" /\ Reflowed(m) \in spine
          /\ data[QueryKey("events", p.tenant)] # NoData
      BY <2>0, <2>5 DEF PostEdge, DueNow, PostSound
    <3>2. Reflowed(m)' = Reflowed(m) BY <2>0, <3>1, ReflowedStays
    <3>3. QueryKey("events", p.tenant) \in Keys BY <2>2, KeyFacts DEF Panels
    <3> QED BY <3>1, <3>2, <3>3, DataStays, ServerGrows
  <2>6. \A panel, t : QueryKey(panel, t)' = QueryKey(panel, t) BY DEF QueryKey
  <2> HIDE DEF d, p, q
  <2> QED BY <2>1, <2>3, <2>4, <2>5, <2>6 DEF PostSound, d, p, q
<1>2. ASSUME NEW m \in DOMAIN posts' \ DOMAIN posts PROVE PostSound(m)'
  <2>1. NewPost(m) BY <1>0 DEF PostsMove
  <2>2. /\ posts'[m].visit = visit' /\ posts'[m].tenant = tenant'
        /\ UNCHANGED <<server, tenant, data>>
    BY <2>1 DEF NewPost
  <2>3. ASSUME posts'[m].kind = "replay"
        PROVE  /\ posts'[m].target \in DOMAIN deadLetters
               /\ deadLetters[posts'[m].target].payload.tenant = tenant
               /\ data[QueryKey("dlq", tenant)] # NoData
    <3>1. PICK row \in Shown("dlq") : posts'[m].target = row.doc BY <2>1, <2>3 DEF NewPost
    <3>2. data[QueryKey("dlq", tenant)] # NoData /\ row \in data[QueryKey("dlq", tenant)]
      BY DEF Shown
    <3>3. row \in RowsFor("dlq", tenant) BY <1>0, <3>2, KeyFacts DEF CacheSound, Panels
    <3> QED BY <3>1, <3>2, <3>3 DEF RowsFor
  <2> QED BY <1>0, <2>1, <2>2, <2>3 DEF PostSound, NewPost, server, QueryKey
<1>3. \A m \in DOMAIN posts' : PostSound(m)' BY <1>1, <1>2
<1> QED BY <1>3 DEF PostsSound

\* A panel that is refreshed asks again.
LEMMA AskedAgain ==
  ASSUME NEW keys, Invalidate(keys), NEW k \in keys, k \in Keys, k \in Mounted,
         data[k] # NoData, NEW row
  PROVE  FreshAt(k, row)'
<1>1. fetch'[k] = Asked(tenant) BY DEF Invalidate, Restarts
<1>2. Asked(tenant).pc = "ask" BY DEF Asked, NoFetch
<1> QED BY <1>1, <1>2 DEF FreshAt

\* A row the API answers with stays shown, or on its way, while the panel is mounted.
LEMMA FreshStep ==
  ASSUME UiTypes, CacheSound, TriesSound, [Next]_vars, FewFailed', NEW k \in Keys,
         k \in Mounted, NEW row \in RowsOf(k[1], k[2]), FreshAt(k, row)
  PROVE  FreshAt(k, row)'
<1>0. /\ fetch[k] \in Fetches /\ KeyEdge(k) /\ fetch[k].tries \in Nat
      /\ fetch[k].tries + spare["get"] <= UserBudget["get"]
      /\ fetch[k].pc # "none" => fetch[k].tenant = k[2]
      /\ spare["get"] \in Nat /\ UserBudget["get"] \in Nat
  BY CacheStep, UserBudgetAssumption
     DEF UiTypes, CacheMoves, CacheSound, TriesSound, Fetches
<1>1. CASE fetch'[k] = fetch[k] /\ SameData(k) BY <1>1 DEF FreshAt, SameData
<1>2. CASE fetch'[k] = Asked(k[2])
  BY <1>2 DEF FreshAt, Asked, NoFetch
<1>3. CASE /\ fetch[k].pc = "ask"
           /\ fetch'[k] = [fetch[k] EXCEPT !.pc = "answered",
                                           !.rows = RowsOf(k[1], fetch[k].tenant)]
  <2> DEFINE rows == RowsOf(k[1], fetch[k].tenant)
  <2>1. row \in rows BY <1>0, <1>3
  <2>2. fetch'[k] = [fetch[k] EXCEPT !.pc = "answered", !.rows = rows] BY <1>3
  <2> HIDE DEF rows
  <2>3. fetch'[k].pc = "answered" /\ fetch'[k].rows = rows BY <1>0, <2>2 DEF Fetches
  <2> QED BY <2>1, <2>3 DEF FreshAt
<1>4. CASE fetch[k].pc = "answered" /\ fetch'[k] = NoFetch /\ data'[k] = fetch[k].rows
  BY <1>4 DEF FreshAt, NoFetch
<1>5. CASE fetch'[k] = [fetch[k] EXCEPT !.pc = "backoff", !.rows = {}, !.tries = @ + 1]
  <2>1. fetch'[k].pc = "backoff" BY <1>0, <1>5 DEF Fetches
  <2> QED BY <2>1 DEF FreshAt
<1>6. CASE ~ MayRetry(k) /\ spare'["get"] = spare["get"] - 1
  <2>1. fetch[k].tries >= Retries BY <1>0, <1>6, RetriesAssumption DEF MayRetry
  <2>2. UserBudget["get"] <= spare["get"] - 1 + Retries BY <1>6 DEF FewFailed
  <2> QED BY <1>0, <2>1, <2>2, RetriesAssumption
<1>7. CASE fetch'[k] = [fetch[k] EXCEPT !.pc = "ask"]
  <2>1. fetch'[k].pc = "ask" BY <1>0, <1>7 DEF Fetches
  <2> QED BY <2>1 DEF FreshAt
<1> QED BY <1>0, <1>1, <1>2, <1>3, <1>4, <1>5, <1>6, <1>7 DEF KeyEdge

\* A replay that has been answered, or whose event was stored in time, is shown in the
\* panels still on screen, or will be.
LEMMA RefreshedStep ==
  ASSUME UiTypes, QP!IInv, CacheSound, TriesSound, PostsSound, [Next]_vars,
         FewFailed', Refreshed
  PROVE  Refreshed'
<1> SUFFICES ASSUME NEW m \in DOMAIN posts', OnScreen(m)'
             PROVE  /\ posts'[m].pc \in {"timer", "done"} =>
                         FreshAt(QueryKey("dlq", tenant), Letter(m))'
                    /\ posts'[m].due => FreshAt(QueryKey("events", tenant), Reflowed(m))'
  BY DEF Refreshed
<1>0. /\ PostsMove /\ visit \in Nat /\ visit' \in Nat /\ tenant \in Tenants
      /\ \/ visit' = visit /\ tenant' = tenant
         \/ visit' = visit + 1 /\ UNCHANGED <<server, posts, data>>
  BY PostsStep, SpareStep DEF UiTypes
<1>1. CASE m \notin DOMAIN posts
  BY <1>0, <1>1 DEF PostsMove, NewPost
<1>2. CASE m \in DOMAIN posts
  <2>0. /\ posts[m] \in Posts /\ PostSound(m) /\ SamePost(m) /\ PostEdge(m)
    BY <1>0, <1>2, PostTypes DEF PostsMove, PostsSound
  <2>1. /\ visit' = visit /\ tenant' = tenant /\ OnScreen(m)
        /\ posts[m].tenant = tenant /\ posts[m].kind = "replay"
    <3>1. /\ posts[m].visit <= visit /\ posts[m].visit \in Nat
          /\ posts[m].visit = visit' /\ posts[m].kind = "replay"
      BY <2>0 DEF PostSound, SamePost, OnScreen, Posts
    <3>2. visit' = visit /\ tenant' = tenant BY <1>0, <3>1
    <3> QED BY <2>0, <3>1, <3>2 DEF PostSound, OnScreen
  <2>2. /\ QueryKey("dlq", tenant) \in Keys /\ QueryKey("dlq", tenant) \in Mounted
        /\ QueryKey("dlq", tenant)[1] = "dlq" /\ QueryKey("dlq", tenant)[2] = tenant
        /\ QueryKey("events", tenant) \in Keys /\ QueryKey("events", tenant) \in Mounted
        /\ QueryKey("events", tenant)[1] = "events"
        /\ QueryKey("events", tenant)[2] = tenant
        /\ data[QueryKey("dlq", tenant)] # NoData
    BY <1>0, <2>0, <2>1, KeyFacts DEF Panels, PostSound
  <2>3. ASSUME posts'[m].pc \in {"timer", "done"}
        PROVE  FreshAt(QueryKey("dlq", tenant), Letter(m))'
    <3>1. PICK k, row : k = QueryKey("dlq", tenant) /\ row = Letter(m) OBVIOUS
    <3>2. k = QueryKey("dlq", tenant)' /\ row = Letter(m)'
      BY <2>0, <2>1, <3>1 DEF QueryKey, Letter, SamePost
    <3>3. CASE posts'[m].pc = posts[m].pc
      <4>1. FreshAt(k, row) BY <1>2, <2>1, <2>3, <3>1, <3>3 DEF Refreshed
      <4>2. row \in RowsOf(k[1], k[2])
        <5>1. /\ posts[m].target \in DOMAIN deadLetters
              /\ deadLetters[posts[m].target].payload.tenant = tenant
              /\ deadLetters[posts[m].target].replayed
          BY <2>0, <2>1, <2>3, <3>3 DEF PostSound
        <5>2. deadLetters[posts[m].target].replayed = TRUE
          <6>1. deadLetters[posts[m].target] \in QP!Docs
            BY <5>1, QP!DocTypes, QueueConstants DEF QP!IInv, QP!DocIds
          <6> QED BY <5>1, <6>1 DEF QP!Docs
        <5> QED BY <2>1, <2>2, <3>1, <5>1, <5>2 DEF RowsOf, LettersOf, Letter
      <4>3. FreshAt(k, row)' BY <2>2, <3>1, <4>1, <4>2, FreshStep
      <4> QED BY <3>2, <4>3
    <3>4. CASE posts'[m].pc # posts[m].pc
      <4>1. Invalidate(AtOnce(m)) \/ Invalidate(Later(m))
        BY <2>0, <2>3, <3>4 DEF PostEdge
      <4>2. k \in AtOnce(m) /\ k \in Later(m)
        BY <2>1, <3>1 DEF AtOnce, Later, Panels
      <4>3. FreshAt(k, row)' BY <2>2, <3>1, <4>1, <4>2, AskedAgain
      <4> QED BY <3>2, <4>3
    <3> QED BY <3>3, <3>4
  <2>4. ASSUME posts'[m].due PROVE FreshAt(QueryKey("events", tenant), Reflowed(m))'
    <3>1. PICK k, row : k = QueryKey("events", tenant) /\ row = Reflowed(m) OBVIOUS
    <3>2. k = QueryKey("events", tenant)' BY <2>1, <3>1 DEF QueryKey
    <3>3. row = Reflowed(m)' BY <1>2, <2>0, <2>1, <3>1, ReflowedStays
    <3>4. CASE posts'[m].due = posts[m].due
      <4>1. posts[m].due /\ FreshAt(k, row)
        BY <1>2, <2>1, <2>4, <3>1, <3>4 DEF Refreshed
      <4>2. row \in RowsOf(k[1], k[2])
        <5>1. Reflowed(m) \in spine BY <2>0, <4>1 DEF PostSound
        <5>2. Reflowed(m).tenant = tenant BY <2>1 DEF Reflowed, Queue!Spine!Row
        <5> QED BY <2>2, <3>1, <5>1, <5>2 DEF RowsOf, EventsOf
      <4>3. FreshAt(k, row)' BY <2>2, <3>1, <4>1, <4>2, FreshStep
      <4> QED BY <3>2, <3>3, <4>3
    <3>5. CASE posts'[m].due # posts[m].due
      <4>1. Invalidate(Later(m)) /\ data[QueryKey("events", tenant)] # NoData
        BY <2>0, <2>1, <2>4, <3>5 DEF PostEdge, DueNow
      <4>2. k \in Later(m) BY <2>1, <3>1 DEF Later, Panels
      <4>3. FreshAt(k, row)' BY <2>2, <3>1, <4>1, <4>2, AskedAgain
      <4> QED BY <3>2, <3>3, <4>3
    <3> QED BY <3>4, <3>5
  <2> QED BY <2>3, <2>4
<1> QED BY <1>1, <1>2

LEMMA UInvStep == QP!IInv /\ UInv /\ [Next]_vars => (QP!IInv)' /\ UInv'
<1> SUFFICES ASSUME QP!IInv, UInv, [Next]_vars PROVE (QP!IInv)' /\ UInv'
  OBVIOUS
<1>0. UiTypes /\ CacheSound /\ TriesSound /\ PostsSound BY DEF UInv
<1>1. (QP!IInv)' BY <1>0, ServerStep, QP!IInvStep, QueueConstants
<1>2. UiTypes'
  <2>1. spine' \subseteq EventRows' BY <1>0, ServerGrows DEF UiTypes, EventRows
  <2>2. posts' \in Seq(Posts) BY <1>0, PostsStep DEF PostsMove
  <2>3. Posts' = Posts /\ Fetches' = Fetches
    BY DEF Posts, Fetches, EventRows, LetterRows, Tenants
  <2>4. /\ spare' \in [{"click", "switch", "get", "post", "any"} -> Nat]
        /\ visit' \in Nat /\ tenant' \in Tenants
    BY <1>0, SpareStep
  <2>5. fetch' \in [Keys -> Fetches] /\ data' = [k \in Keys |-> data'[k]]
    BY <1>0, CacheSoundStep
  <2> QED BY <2>1, <2>2, <2>3, <2>4, <2>5 DEF UiTypes
<1>3. CacheSound' /\ TriesSound' BY <1>0, CacheSoundStep
<1>4. PostsSound' BY <1>0, PostsSoundStep
<1>5. ASSUME FewFailed' PROVE Refreshed'
  <2>1. FewFailed
    <3>1. /\ spare["get"] \in Nat /\ spare'["get"] \in Nat /\ spare'["get"] <= spare["get"]
          /\ UserBudget["get"] \in Nat
      BY <1>0, SpareStep, UserBudgetAssumption DEF UiTypes
    <3> QED BY <1>5, <3>1, RetriesAssumption DEF FewFailed
  <2> QED BY <1>0, <1>5, <2>1, RefreshedStep DEF UInv
<1> QED BY <1>1, <1>2, <1>3, <1>4, <1>5 DEF UInv

LEMMA InitUInv == Init => QP!IInv /\ UInv
<1> SUFFICES ASSUME Init PROVE QP!IInv /\ UInv
  OBVIOUS
<1>1. QP!Init BY DEF Init, Queue!Init, QP!Init, Queue!Idle, QP!Idle
<1>2. QP!IInv BY <1>1, QP!InitIInv, QueueConstants
<1>n. NoFetch \in Fetches /\ NoFetch.pc = "none" /\ NoFetch.rows = {} /\ NoFetch.tries = 0
  BY FirstAssumption DEF NoFetch, Fetches
<1>a. /\ Asked(First) \in Fetches /\ Asked(First).rows = {} /\ Asked(First).tries = 0
      /\ Asked(First).tenant = First
  BY <1>n, FirstAssumption DEF Asked, Fetches, NoFetch
<1>3. /\ fetch = [k \in Keys |-> fetch[k]]
      /\ \A k \in Keys : \/ fetch[k] = NoFetch
                         \/ fetch[k] = Asked(First) /\ k[2] = First
  BY FirstAssumption, KeyFacts DEF Init, Mount
<1>4. /\ \A k \in Keys : data[k] = NoData
      /\ spine = {} /\ posts = <<>> /\ spare = UserBudget /\ visit = 0 /\ tenant = First
      /\ data = [k \in Keys |-> data[k]]
  BY DEF Init, Queue!Init
<1>5. UiTypes
  BY <1>n, <1>a, <1>3, <1>4, FirstAssumption, UserBudgetAssumption DEF UiTypes
<1>6. CacheSound /\ TriesSound
  <2>1. UserBudget["get"] \in Nat BY UserBudgetAssumption
  <2> QED BY <1>n, <1>a, <1>3, <1>4, <2>1 DEF CacheSound, TriesSound
<1>7. PostsSound /\ Refreshed BY <1>4 DEF PostsSound, Refreshed
<1> QED BY <1>2, <1>5, <1>6, <1>7 DEF UInv

-------------------------------------------------------------------------------

\* The invariant of the dashboard and of the queue behind it.
THEOREM Inductive == Spec => [](QP!IInv /\ UInv)
BY InitUInv, UInvStep, PTL DEF Spec

\* Whatever the buttons do, the queue takes steps of IngestQueue only, so all that is
\* proved of it holds behind the dashboard.
THEOREM DrivesTheQueue == Spec => QP!Spec
<1>1. Init => QP!Init BY DEF Init, Queue!Init, QP!Init, Queue!Idle, QP!Idle
<1>2. UInv /\ [Next]_vars => [QP!Next]_(QP!vars) BY ServerStep DEF UInv
<1> QED BY <1>1, <1>2, Inductive, PTL DEF Spec, QP!Spec

\* "No previous tenant's rows can ever flash": a panel's rows are of the tenant on
\* screen, in whatever order answers, retries and timers come.
THEOREM OwnRowsOnly == Spec => []ShownIsOwn
<1>1. UInv => ShownIsOwn
  <2> SUFFICES ASSUME UInv, NEW panel \in Panels, NEW row \in Shown(panel)
               PROVE  row.tenant = tenant
    BY DEF ShownIsOwn
  <2>1. row \in RowsFor(panel, tenant)
    BY KeyFacts DEF UInv, UiTypes, CacheSound, Shown
  <2> QED BY <2>1 DEF RowsFor
<1> QED BY <1>1, Inductive, PTL

\* A replay that was answered shows once the DLQ panel has come to rest, as long as no
\* more GETs have failed than a query retries.
THEOREM AnsweredReplayShows == Spec => [](FewFailed => ReplayedShows)
<1>1. UInv => (FewFailed => ReplayedShows)
  <2> SUFFICES ASSUME UInv, FewFailed, NEW m \in DOMAIN posts, OnScreen(m),
                      posts[m].pc = "done", Settled("dlq")
               PROVE  \E row \in Shown("dlq") : row.doc = posts[m].target /\ row.replayed
    BY DEF ReplayedShows
  <2>1. Letter(m) \in data[QueryKey("dlq", tenant)]
    BY DEF UInv, Refreshed, FreshAt, Settled
  <2>2. data[QueryKey("dlq", tenant)] # NoData
    BY DEF UInv, PostsSound, PostSound, OnScreen
  <2>3. Letter(m).doc = posts[m].target /\ Letter(m).replayed BY DEF Letter
  <2> QED BY <2>1, <2>2, <2>3 DEF Shown
<1> QED BY <1>1, Inductive, PTL

\* Likewise the event of a replay that was stored before the second refresh shows once
\* the Events panel has come to rest.
THEOREM StoredEventShows == Spec => [](FewFailed => StoredInTimeShows)
<1>1. UInv => (FewFailed => StoredInTimeShows)
  <2> SUFFICES ASSUME UInv, FewFailed, NEW m \in DOMAIN posts, OnScreen(m),
                      posts[m].due, Settled("events")
               PROVE  Reflowed(m) \in Shown("events")
    BY DEF StoredInTimeShows
  <2>1. Reflowed(m) \in data[QueryKey("events", tenant)]
    BY DEF UInv, Refreshed, FreshAt, Settled
  <2>2. data[QueryKey("events", tenant)] # NoData
    BY DEF UInv, PostsSound, PostSound, OnScreen
  <2> QED BY <2>1, <2>2 DEF Shown
<1> QED BY <1>1, Inductive, PTL

===============================================================================
