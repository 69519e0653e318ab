--------------------------- MODULE EventIngestProofs --------------------------
(* Proofs about EventIngest, for every set of tenants, inputs and workers.     *)
(* TypeOK and the answers' contract are strengthened to IInv: what a frame     *)
(* knows at each await (FramesKept), that _ids are unique and below the        *)
(* counter (Ids), and that an _id is given to one call only (Winners).         *)
EXTENDS EventIngest, TLAPS

Ids ==
  /\ \A row \in events : row.id < nextId
  /\ \A r1, r2 \in events : r1.id = r2.id => r1 = r2

\* Kept, with the table as a parameter: what is true of a table is true of every
\* table that extends it.
KeptIn(rows, f) ==
  /\ f.status \in Landed =>
       \E row \in rows : /\ row.id = f.id
                         /\ SameKey(row, f.tenant, f.ev)
                         /\ row.contentHash = f.ev.contentHash
  /\ f.status = "updated" =>
       \E prev \in rows : /\ prev.tenant = f.tenant
                          /\ prev.externalId = f.ev.externalId
                          /\ prev.id < f.id
                          /\ prev.contentHash # f.ev.contentHash
  /\ f.status = "unchanged" =>
       \E row \in rows : /\ row.tenant = f.tenant
                         /\ row.externalId = f.ev.externalId
                         /\ row.version = f.ev.version \/ row.contentHash = f.ev.contentHash

\* Between the awaits a frame knows something that later steps cannot undo.
FrameKeptIn(rows, f) ==
  /\ f.pc = "append" =>
       /\ f.status \in Landed
       /\ f.status = "updated" =>
            \E prev \in rows : /\ prev.tenant = f.tenant
                               /\ prev.externalId = f.ev.externalId
                               /\ prev.contentHash # f.ev.contentHash
  /\ f.pc = "return" => f.status \in Statuses /\ KeptIn(rows, f)

FramesKept == \A w \in Workers : FrameKeptIn(events, call[w])

Winner(f) == f.status \in Landed

Winners ==
  /\ \A f, g \in returned : Winner(f) /\ Winner(g) /\ f.id = g.id => f = g
  /\ \A w \in Workers, f \in returned :
       call[w].pc = "return" /\ Winner(call[w]) /\ Winner(f) => call[w].id # f.id
  /\ \A v, w \in Workers :
       /\ call[v].pc = "return" /\ call[w].pc = "return"
       /\ Winner(call[v]) /\ Winner(call[w]) /\ v # w
       => call[v].id # call[w].id

IInv ==
  /\ TypeOK
  /\ Ids
  /\ OneRowPerVersion
  /\ FramesKept
  /\ AnswersKept
  /\ Winners

-------------------------------------------------------------------------------
(* The types of frames.                                                        *)

\* The idle frame is at no program point of the function.
LEMMA IdleFrame ==
  /\ Idle \notin Frames
  /\ Idle.pc = "idle"
  /\ \A f \in Frames : f.pc # "idle"
BY DEF Idle, Frames, FrameShape

\* A worker whose frame is at a program point other than "idle" is in a call.
LEMMA BusyFrame ==
  ASSUME TypeOK, NEW w \in Workers, call[w].pc # "idle"
  PROVE  call[w] \in Frames
BY DEF TypeOK, Idle

\* The two forms of the contract agree on the table as it is.
LEMMA KeptNow == \A f : Kept(f) <=> KeptIn(events, f)
BY DEF Kept, KeptIn, OfEntity

\* What an answer or a frame says of a table it says of every larger one.
LEMMA StillKept ==
  ASSUME NEW rows, NEW more, rows \subseteq more, NEW f
  PROVE  /\ KeptIn(rows, f) => KeptIn(more, f)
         /\ FrameKeptIn(rows, f) => FrameKeptIn(more, f)
<1>1. KeptIn(rows, f) => KeptIn(more, f)
  BY DEF KeptIn
<1> QED BY <1>1 DEF FrameKeptIn

\* Initially no variable leaves its type and nothing has been promised.
LEMMA InitIInv == Init => IInv
BY DEF Init, IInv, TypeOK, Ids, OneRowPerVersion, FramesKept, FrameKeptIn,
       AnswersKept, Winners, Idle

\* Each step keeps the types of the variables; an answer has the type of one
\* because a frame that is about to return has classified its input.
LEMMA TypeStep == TypeOK /\ FramesKept /\ [Next]_vars => TypeOK'
<1> SUFFICES ASSUME TypeOK, FramesKept, [Next]_vars PROVE TypeOK'
  OBVIOUS
<1>1. ASSUME NEW w \in Workers, NEW t \in Tenants, NEW ev \in Inputs, Call(w, t, ev)
      PROVE  TypeOK'
  <2>1. [pc |-> "exists", tenant |-> t, ev |-> ev, status |-> "none", id |-> 0] \in Frames
    BY DEF Frames, FrameShape
  <2> QED BY <1>1, <2>1 DEF Call, TypeOK
<1>2. ASSUME NEW w \in Workers, CheckExists(w) PROVE TypeOK'
  <2>1. call[w] \in Frames /\ call[w].pc # "return" /\ "unchanged" \notin Landed
    BY <1>2, BusyFrame DEF CheckExists, Landed
  <2>2. [call[w] EXCEPT !.pc = "latest"] \in Frames BY <2>1 DEF Frames, FrameShape
  <2>3. [call[w] EXCEPT !.pc = "return", !.status = "unchanged"] \in Frames
    BY <2>1 DEF Frames, FrameShape, Statuses
  <2> QED BY <1>2, <2>2, <2>3 DEF CheckExists, TypeOK
<1>3. ASSUME NEW w \in Workers, ReadLatest(w) PROVE TypeOK'
  <2>1. call[w] \in Frames /\ call[w].pc # "return" /\ "unchanged" \notin Landed
    BY <1>3, BusyFrame DEF ReadLatest, Landed
  <2>2. [call[w] EXCEPT !.pc = "return", !.status = "unchanged"] \in Frames
    BY <2>1 DEF Frames, FrameShape, Statuses
  <2>3. \A s \in Landed : [call[w] EXCEPT !.pc = "append", !.status = s] \in Frames
    BY <2>1 DEF Frames, FrameShape, Statuses
  <2>4. "added" \in Landed /\ "updated" \in Landed BY DEF Landed
  <2>5. call' \in [Workers -> Frames \cup {Idle}]
    BY <1>3, <2>2, <2>3, <2>4 DEF ReadLatest, TypeOK
  <2> QED BY <1>3, <2>5 DEF ReadLatest, TypeOK
<1>4. ASSUME NEW w \in Workers, Upsert(w) PROVE TypeOK'
  <2>1. call[w] \in Frames BY <1>4, BusyFrame DEF Upsert, Appended
  <2>2. [call[w] EXCEPT !.pc = "return", !.id = nextId] \in Frames
    <3>1. call[w].status \in Landed
      BY <1>4 DEF Upsert, FramesKept, FrameKeptIn
    <3>2. nextId \in Nat /\ nextId # 0 BY DEF TypeOK
    <3> QED BY <2>1, <3>1, <3>2 DEF Frames, FrameShape
  <2>3. NewRow(call[w].tenant, call[w].ev) \in Rows
    BY <2>1, InputsAssumption DEF NewRow, Rows, Frames, FrameShape, TypeOK
  <2>4. nextId + 1 \in Nat \ {0} BY DEF TypeOK
  <2> QED BY <1>4, <2>2, <2>3, <2>4 DEF Upsert, Appended, TypeOK
<1>5. ASSUME NEW w \in Workers, UpsertLost(w) PROVE TypeOK'
  <2>1. call[w] \in Frames /\ call[w].pc # "return" /\ "unchanged" \notin Landed
    BY <1>5, BusyFrame DEF UpsertLost, Landed
  <2>2. [call[w] EXCEPT !.pc = "return", !.status = "unchanged"] \in Frames
    BY <2>1 DEF Frames, FrameShape, Statuses
  <2> QED BY <1>5, <2>2 DEF UpsertLost, TypeOK
<1>6. ASSUME NEW w \in Workers, Return(w) PROVE TypeOK'
  <2>1. call[w] \in Frames BY <1>6, BusyFrame DEF Return
  <2>2. call[w].status \in Statuses /\ call[w].pc = "return" BY <1>6 DEF Return, FramesKept, FrameKeptIn
  <2>3. Answer(call[w]) \in Answers BY <2>1, <2>2 DEF Answer, Answers, Frames, FrameShape
  <2> QED BY <1>6, <2>3 DEF Return, TypeOK
<1>7. ASSUME NEW w \in Workers, Abort(w) PROVE TypeOK'
  BY <1>7 DEF Abort, TypeOK
<1>8. CASE UNCHANGED vars
  BY <1>8 DEF vars, TypeOK
<1> QED BY <1>1, <1>2, <1>3, <1>4, <1>5, <1>6, <1>7, <1>8 DEF Next, Step

-------------------------------------------------------------------------------
(* The table.                                                                  *)

\* Only an upsert that finds no row with the key changes the table, and it adds
\* one row, with the next id.
LEMMA TableStep ==
  ASSUME TypeOK, [Next]_vars
  PROVE  \/ UNCHANGED <<events, nextId>>
         \/ \E w \in Workers : Upsert(w)
BY DEF Next, Step, Call, CheckExists, ReadLatest, UpsertLost, Return, Abort, vars

\* The table only grows.
LEMMA Grows ==
  ASSUME TypeOK, [Next]_vars
  PROVE  events \subseteq events'
BY TableStep DEF Upsert, Appended

\* The ids stay unique and below the counter, and a version keeps its one row.
LEMMA RowsStep == IInv /\ [Next]_vars => Ids' /\ OneRowPerVersion'
<1> SUFFICES ASSUME IInv, [Next]_vars PROVE Ids' /\ OneRowPerVersion'
  OBVIOUS
<1>0. TypeOK /\ Ids /\ OneRowPerVersion BY DEF IInv
<1>1. CASE UNCHANGED <<events, nextId>>
  BY <1>0, <1>1 DEF Ids, OneRowPerVersion
<1>2. ASSUME NEW w \in Workers, Upsert(w) PROVE Ids' /\ OneRowPerVersion'
  <2> DEFINE new == NewRow(call[w].tenant, call[w].ev)
  <2>1. events' = events \cup {new} /\ nextId' = nextId + 1
    BY <1>2 DEF Upsert, Appended
  <2>2. new.id = nextId BY DEF NewRow
  <2>3. \A row \in events : row.id \in Nat BY <1>0 DEF TypeOK, Rows
  <2>4. nextId \in Nat BY <1>0 DEF TypeOK
  <2>5. Ids' BY <1>0, <2>1, <2>2, <2>3, <2>4 DEF Ids
  <2>6. /\ new.tenant = call[w].tenant
        /\ new.externalId = call[w].ev.externalId
        /\ new.version = call[w].ev.version
    BY DEF NewRow
  <2>7. \A row \in events : ~SameKey(row, call[w].tenant, call[w].ev)
    BY <1>2 DEF Upsert, KeyExists
  <2>8. OneRowPerVersion'
    BY <1>0, <2>1, <2>6, <2>7 DEF OneRowPerVersion, SameKey
  <2> QED BY <2>5, <2>8
<1> QED BY <1>0, <1>1, <1>2, TableStep

-------------------------------------------------------------------------------
(* The frames and the answers.                                                 *)

\* What a frame knows, and owes at its return, is kept by its own step and by
\* everybody else's.
LEMMA FramesStep == IInv /\ [Next]_vars => FramesKept'
<1> SUFFICES ASSUME IInv, [Next]_vars PROVE FramesKept'
  OBVIOUS
<1>0. TypeOK /\ Ids /\ FramesKept BY DEF IInv
<1>g. events \subseteq events' BY <1>0, Grows
<1>r. \A row \in events : row.id \in Nat /\ row.id < nextId
  BY <1>0 DEF TypeOK, Rows, Ids
<1>s. \A v \in Workers : FrameKeptIn(events', call[v])
  BY <1>0, <1>g, StillKept DEF FramesKept
<1>i. \A rows : FrameKeptIn(rows, Idle)
  BY DEF FrameKeptIn, Idle
\* It is enough that the worker that moved has a sound frame.
<1>o. ASSUME NEW w \in Workers, NEW f,
             call' = [call EXCEPT ![w] = f], FrameKeptIn(events', f)
      PROVE  FramesKept'
  BY <1>0, <1>o, <1>s DEF FramesKept, TypeOK
<1>1. ASSUME NEW w \in Workers, NEW t \in Tenants, NEW ev \in Inputs, Call(w, t, ev)
      PROVE  FramesKept'
  <2> DEFINE f == [pc |-> "exists", tenant |-> t, ev |-> ev, status |-> "none", id |-> 0]
  <2>1. FrameKeptIn(events', f) BY DEF FrameKeptIn
  <2> QED BY <1>1, <1>o, <2>1 DEF Call
<1>2. ASSUME NEW w \in Workers, CheckExists(w) PROVE FramesKept'
  <2>0. call[w] \in Frames BY <1>0, <1>2, BusyFrame DEF CheckExists
  <2>1. CASE KeyExists(call[w].tenant, call[w].ev)
    <3> DEFINE f == [call[w] EXCEPT !.pc = "return", !.status = "unchanged"]
    <3>1. /\ f.pc = "return" /\ f.status = "unchanged"
          /\ f.tenant = call[w].tenant /\ f.ev = call[w].ev
      BY <2>0 DEF Frames, FrameShape
    <3>2. KeptIn(events, f)
      BY <3>1, <2>1 DEF KeptIn, KeyExists, SameKey, Landed
    <3>3. FrameKeptIn(events', f)
      BY <3>1, <3>2, <1>g, StillKept DEF FrameKeptIn, Statuses
    <3>4. call' = [call EXCEPT ![w] = f]
      BY <1>2, <2>1 DEF CheckExists
    <3> QED BY <3>3, <3>4, <1>o
  <2>2. CASE ~KeyExists(call[w].tenant, call[w].ev)
    <3> DEFINE f == [call[w] EXCEPT !.pc = "latest"]
    <3>1. f.pc = "latest" BY <2>0 DEF Frames, FrameShape
    <3>2. FrameKeptIn(events', f) BY <3>1 DEF FrameKeptIn
    <3>3. call' = [call EXCEPT ![w] = f] BY <1>2, <2>2 DEF CheckExists
    <3> QED BY <3>2, <3>3, <1>o
  <2> QED BY <2>1, <2>2
<1>3. ASSUME NEW w \in Workers, ReadLatest(w) PROVE FramesKept'
  <2>0. call[w] \in Frames BY <1>0, <1>3, BusyFrame DEF ReadLatest
  <2>1. CASE FirstSeen(call[w].tenant, call[w].ev)
             /\ call' = [call EXCEPT ![w].pc = "append", ![w].status = "added"]
    <3> DEFINE f == [call[w] EXCEPT !.pc = "append", !.status = "added"]
    <3>1. f.pc = "append" /\ f.status = "added" BY <2>0 DEF Frames, FrameShape
    <3>2. FrameKeptIn(events', f) BY <3>1 DEF FrameKeptIn, Landed
    <3> QED BY <2>1, <3>2, <1>o
  <2>2. ASSUME NEW row \in OfEntity(call[w].tenant, call[w].ev),
               row.contentHash = call[w].ev.contentHash,
               call' = [call EXCEPT ![w].pc = "return", ![w].status = "unchanged"]
        PROVE  FramesKept'
    <3> DEFINE f == [call[w] EXCEPT !.pc = "return", !.status = "unchanged"]
    <3>1. /\ f.pc = "return" /\ f.status = "unchanged"
          /\ f.tenant = call[w].tenant /\ f.ev = call[w].ev
      BY <2>0 DEF Frames, FrameShape
    <3>2. KeptIn(events, f)
      BY <3>1, <2>2 DEF KeptIn, OfEntity, Landed
    <3>3. FrameKeptIn(events', f)
      BY <3>1, <3>2, <1>g, StillKept DEF FrameKeptIn, Statuses
    <3> QED BY <2>2, <3>3, <1>o
  <2>3. ASSUME NEW row \in OfEntity(call[w].tenant, call[w].ev),
               row.contentHash # call[w].ev.contentHash,
               call' = [call EXCEPT ![w].pc = "append", ![w].status = "updated"]
        PROVE  FramesKept'
    <3> DEFINE f == [call[w] EXCEPT !.pc = "append", !.status = "updated"]
    <3>1. /\ f.pc = "append" /\ f.status = "updated"
          /\ f.tenant = call[w].tenant /\ f.ev = call[w].ev
      BY <2>0 DEF Frames, FrameShape
    <3>2. FrameKeptIn(events, f)
      BY <3>1, <2>3 DEF FrameKeptIn, OfEntity, Landed
    <3>3. FrameKeptIn(events', f) BY <3>2, <1>g, StillKept
    <3> QED BY <2>3, <3>3, <1>o
  <2> QED BY <1>3, <2>1, <2>2, <2>3 DEF ReadLatest
<1>4. ASSUME NEW w \in Workers, Upsert(w) PROVE FramesKept'
  <2> DEFINE f == [call[w] EXCEPT !.pc = "return", !.id = nextId]
             new == NewRow(call[w].tenant, call[w].ev)
  <2>0. call[w] \in Frames /\ call[w].pc = "append"
    BY <1>0, <1>4, BusyFrame DEF Upsert, Appended
  <2>1. /\ f.pc = "return" /\ f.id = nextId /\ f.status = call[w].status
        /\ f.tenant = call[w].tenant /\ f.ev = call[w].ev
    BY <2>0 DEF Frames, FrameShape
  <2>2. new \in events' BY <1>4 DEF Upsert, Appended
  <2>3. /\ new.id = nextId /\ new.contentHash = call[w].ev.contentHash
        /\ SameKey(new, call[w].tenant, call[w].ev)
    BY DEF NewRow, SameKey
  <2>4. FrameKeptIn(events, call[w]) BY <1>0 DEF FramesKept
  <2>5. f.status \in Landed /\ f.status # "unchanged" /\ f.status \in Statuses
    BY <2>0, <2>1, <2>4 DEF FrameKeptIn, Landed, Statuses
  <2>6. f.status = "updated" =>
          \E prev \in events : /\ prev.tenant = f.tenant
                               /\ prev.externalId = f.ev.externalId
                               /\ prev.id < f.id
                               /\ prev.contentHash # f.ev.contentHash
    BY <2>0, <2>1, <2>4, <1>r DEF FrameKeptIn
  <2>7. KeptIn(events', f)
    BY <2>1, <2>2, <2>3, <2>5, <2>6, <1>g DEF KeptIn
  <2>8. FrameKeptIn(events', f) BY <2>1, <2>5, <2>7 DEF FrameKeptIn
  <2> QED BY <1>4, <2>8, <1>o DEF Upsert, Appended
<1>5. ASSUME NEW w \in Workers, UpsertLost(w) PROVE FramesKept'
  <2> DEFINE f == [call[w] EXCEPT !.pc = "return", !.status = "unchanged"]
  <2>0. call[w] \in Frames BY <1>0, <1>5, BusyFrame DEF UpsertLost
  <2>1. /\ f.pc = "return" /\ f.status = "unchanged"
        /\ f.tenant = call[w].tenant /\ f.ev = call[w].ev
    BY <2>0 DEF Frames, FrameShape
  <2>2. KeptIn(events, f)
    BY <2>1, <1>5 DEF UpsertLost, KeyExists, SameKey, KeptIn, Landed
  <2>3. FrameKeptIn(events', f)
    BY <2>1, <2>2, <1>g, StillKept DEF FrameKeptIn, Statuses
  <2> QED BY <1>5, <2>3, <1>o DEF UpsertLost
<1>6. ASSUME NEW w \in Workers, Return(w) PROVE FramesKept'
  BY <1>6, <1>o, <1>i DEF Return
<1>7. ASSUME NEW w \in Workers, Abort(w) PROVE FramesKept'
  BY <1>7, <1>o, <1>i DEF Abort
<1>8. CASE UNCHANGED vars
  BY <1>0, <1>8 DEF vars, FramesKept
<1> QED BY <1>1, <1>2, <1>3, <1>4, <1>5, <1>6, <1>7, <1>8 DEF Next, Step

\* An answer given stays true, and a new one is what its frame owed.
LEMMA AnswersStep == IInv /\ [Next]_vars => AnswersKept'
<1> SUFFICES ASSUME IInv, [Next]_vars PROVE \A f \in returned' : KeptIn(events', f)
  BY DEF AnswersKept, Kept, KeptIn, OfEntity
<1>0. TypeOK /\ FramesKept /\ AnswersKept BY DEF IInv
<1>g. events \subseteq events' BY <1>0, Grows
<1>1. \A f \in returned : KeptIn(events', f)
  BY <1>0, <1>g, KeptNow, StillKept DEF AnswersKept
<1>2. ASSUME NEW w \in Workers, Return(w)
      PROVE  KeptIn(events', Answer(call[w]))
  <2>1. KeptIn(events, call[w])
    BY <1>0, <1>2 DEF Return, FramesKept, FrameKeptIn
  <2>2. KeptIn(events, Answer(call[w]))
    BY <2>1 DEF KeptIn, Answer
  <2> QED BY <2>2, <1>g, StillKept
<1>3. returned' = returned \/ \E w \in Workers : Return(w)
  BY DEF Next, Step, Call, CheckExists, ReadLatest, Upsert, UpsertLost, Abort, vars
<1> QED BY <1>1, <1>2, <1>3 DEF Return

\* An _id is given to one call: the one whose upsert drew it from the counter.
LEMMA WinnersStep == IInv /\ [Next]_vars => Winners'
<1> SUFFICES ASSUME IInv, [Next]_vars PROVE Winners'
  OBVIOUS
<1>0. TypeOK /\ Ids /\ FramesKept /\ AnswersKept /\ Winners BY DEF IInv
<1>f. /\ nextId \in Nat
      /\ \A row \in events : row.id \in Nat /\ row.id < nextId
  BY <1>0 DEF TypeOK, Rows, Ids
\* Every winner so far holds an id below the counter.
<1>r. \A f \in returned : Winner(f) => f.id # nextId
  BY <1>0, <1>f DEF AnswersKept, Kept, Winner
<1>c. \A v \in Workers : call[v].pc = "return" /\ Winner(call[v]) => call[v].id # nextId
  BY <1>0, <1>f DEF FramesKept, FrameKeptIn, KeptIn, Winner
\* Steps that return no answer and make no winner keep the winners apart.
<1>o. ASSUME NEW w \in Workers, NEW f, call' = [call EXCEPT ![w] = f],
             UNCHANGED returned, ~(f.pc = "return" /\ Winner(f))
      PROVE  Winners'
  <2>1. \A v \in Workers : call'[v] = IF v = w THEN f ELSE call[v]
    BY <1>o, <1>0 DEF TypeOK
  <2> QED BY <1>o, <1>0, <2>1 DEF Winners, Winner
<1>l. "unchanged" \notin Landed BY DEF Landed
<1>1. ASSUME NEW w \in Workers, NEW t \in Tenants, NEW ev \in Inputs, Call(w, t, ev)
      PROVE  Winners'
  <2> DEFINE f == [pc |-> "exists", tenant |-> t, ev |-> ev, status |-> "none", id |-> 0]
  <2>1. f.pc # "return" OBVIOUS
  <2> QED BY <1>1, <1>o, <2>1 DEF Call
<1>2. ASSUME NEW w \in Workers, CheckExists(w) PROVE Winners'
  <2> DEFINE f == [call[w] EXCEPT !.pc = "return", !.status = "unchanged"]
             g == [call[w] EXCEPT !.pc = "latest"]
  <2>0. call[w] \in Frames BY <1>0, <1>2, BusyFrame DEF CheckExists
  <2>1. f.status = "unchanged" /\ g.pc = "latest" BY <2>0 DEF Frames, FrameShape
  <2>2. call' = [call EXCEPT ![w] = f] \/ call' = [call EXCEPT ![w] = g]
    BY <1>2 DEF CheckExists
  <2>3. UNCHANGED returned BY <1>2 DEF CheckExists
  <2> QED BY <2>1, <2>2, <2>3, <1>o, <1>l DEF Winner
<1>3. ASSUME NEW w \in Workers, ReadLatest(w) PROVE Winners'
  <2> DEFINE f == [call[w] EXCEPT !.pc = "return", !.status = "unchanged"]
             g == [call[w] EXCEPT !.pc = "append", !.status = "added"]
             h == [call[w] EXCEPT !.pc = "append", !.status = "updated"]
  <2>0. call[w] \in Frames BY <1>0, <1>3, BusyFrame DEF ReadLatest
  <2>1. f.status = "unchanged" /\ g.pc = "append" /\ h.pc = "append"
    BY <2>0 DEF Frames, FrameShape
  <2>2. \/ call' = [call EXCEPT ![w] = f]
        \/ call' = [call EXCEPT ![w] = g]
        \/ call' = [call EXCEPT ![w] = h]
    BY <1>3 DEF ReadLatest
  <2>3. UNCHANGED returned BY <1>3 DEF ReadLatest
  <2> QED BY <2>1, <2>2, <2>3, <1>o, <1>l DEF Winner
<1>4. ASSUME NEW w \in Workers, Upsert(w) PROVE Winners'
  <2> DEFINE f == [call[w] EXCEPT !.pc = "return", !.id = nextId]
  <2>0. call[w] \in Frames BY <1>0, <1>4, BusyFrame DEF Upsert, Appended
  <2>1. f.id = nextId BY <2>0 DEF Frames, FrameShape
  <2>2. call' = [call EXCEPT ![w] = f] /\ UNCHANGED returned
    BY <1>4 DEF Upsert, Appended
  <2>3. \A v \in Workers : call'[v] = IF v = w THEN f ELSE call[v]
    BY <2>2, <1>0 DEF TypeOK
  <2> HIDE DEF f
  <2> QED BY <1>0, <1>r, <1>c, <2>1, <2>2, <2>3 DEF Winners, Winner
<1>5. ASSUME NEW w \in Workers, UpsertLost(w) PROVE Winners'
  <2> DEFINE f == [call[w] EXCEPT !.pc = "return", !.status = "unchanged"]
  <2>0. call[w] \in Frames BY <1>0, <1>5, BusyFrame DEF UpsertLost
  <2>1. f.status = "unchanged" BY <2>0 DEF Frames, FrameShape
  <2> QED BY <1>5, <2>1, <1>o, <1>l DEF UpsertLost, Winner
<1>6. ASSUME NEW w \in Workers, Return(w) PROVE Winners'
  <2> DEFINE a == Answer(call[w])
  <2>1. returned' = returned \cup {a} /\ call[w].pc = "return"
    BY <1>6 DEF Return
  <2>2. a.status = call[w].status /\ a.id = call[w].id BY DEF Answer
  <2>3. \A v \in Workers : call'[v] = IF v = w THEN Idle ELSE call[v]
    BY <1>6, <1>0 DEF Return, TypeOK
  <2>4. Idle.pc # "return" BY IdleFrame
  <2> HIDE DEF a
  <2>5. \A v \in Workers : call'[v].pc = "return" => v # w /\ call'[v] = call[v]
    BY <2>3, <2>4
  <2>6. \A f, g \in returned' : Winner(f) /\ Winner(g) /\ f.id = g.id => f = g
    BY <1>0, <2>1, <2>2 DEF Winners, Winner
  <2>7. \A v \in Workers, f \in returned' :
          call'[v].pc = "return" /\ Winner(call'[v]) /\ Winner(f) => call'[v].id # f.id
    BY <1>0, <2>1, <2>2, <2>5 DEF Winners, Winner
  <2>8. \A u, v \in Workers :
          /\ call'[u].pc = "return" /\ call'[v].pc = "return"
          /\ Winner(call'[u]) /\ Winner(call'[v]) /\ u # v
          => call'[u].id # call'[v].id
    BY <1>0, <2>5 DEF Winners
  <2> QED BY <2>6, <2>7, <2>8 DEF Winners, Winner
<1>7. ASSUME NEW w \in Workers, Abort(w) PROVE Winners'
  BY <1>7, <1>o, IdleFrame DEF Abort
<1>8. CASE UNCHANGED vars
  BY <1>0, <1>8 DEF vars, Winners, Winner
<1> QED BY <1>1, <1>2, <1>3, <1>4, <1>5, <1>6, <1>7, <1>8 DEF Next, Step

-------------------------------------------------------------------------------
(* The theorems.                                                               *)

\* IInv is inductive, so every reachable state satisfies it.
THEOREM Inductive == Spec => []IInv
<1>1. IInv /\ [Next]_vars => IInv'
  BY TypeStep, RowsStep, FramesStep, AnswersStep, WinnersStep DEF IInv
<1> QED BY InitIInv, <1>1, PTL DEF Spec

\* Type correctness of ingestEvent's state, for any number of workers.
THEOREM TypeCorrect == Spec => []TypeOK
BY Inductive, PTL DEF IInv

\* Whatever the interleaving, failures included, every answer of ingestEvent is
\* and stays true of the table.
THEOREM AnswersAreKept == Spec => []AnswersKept
BY Inductive, PTL DEF IInv

\* One row per tenant, entity and version, for any number of racing workers.
THEOREM NoDuplicateRows == Spec => []OneRowPerVersion
BY Inductive, PTL DEF IInv

\* Two calls for one version are never both told they landed it.
THEOREM NoDoubleCount == Spec => []OneWinner
<1>1. IInv => OneWinner
  <2> SUFFICES ASSUME IInv, NEW f \in returned, NEW g \in returned,
                      f.status \in Landed, g.status \in Landed,
                      f.tenant = g.tenant, f.ev.externalId = g.ev.externalId,
                      f.ev.version = g.ev.version
               PROVE  f = g
    BY DEF OneWinner
  <2>0. AnswersKept /\ OneRowPerVersion /\ Winners BY DEF IInv
  <2>1. PICK r1 \in events : r1.id = f.id /\ SameKey(r1, f.tenant, f.ev)
    BY <2>0 DEF AnswersKept, Kept
  <2>2. PICK r2 \in events : r2.id = g.id /\ SameKey(r2, g.tenant, g.ev)
    BY <2>0 DEF AnswersKept, Kept
  <2>3. r1 = r2 BY <2>0, <2>1, <2>2 DEF OneRowPerVersion, SameKey
  <2> QED BY <2>0, <2>1, <2>2, <2>3 DEF Winners, Winner
<1> QED BY <1>1, Inductive, PTL

\* No step rewrites or removes a landed row.
THEOREM HistoryIsAppendOnly == Spec => AppendOnly
<1>1. IInv /\ [Next]_vars => [events \subseteq events']_events
  BY Grows DEF IInv
<1> QED BY <1>1, Inductive, PTL DEF Spec, AppendOnly

\* The function, with its four awaits, implements the atomic spine: an upsert that
\* inserts is Land, a return is Ack, every other step changes neither.
THEOREM Refinement == Spec => ImplementsSpine
<1>1. Init => Spine!Init
  BY DEF Init, Spine!Init, spineRows, ackedInputs
<1>2. IInv /\ [Next]_vars => [Spine!Next]_(Spine!vars)
  <2> SUFFICES ASSUME IInv, [Next]_vars PROVE [Spine!Next]_(Spine!vars)
    OBVIOUS
  <2>0. TypeOK /\ AnswersKept /\ FramesKept BY DEF IInv
  <2>1. ASSUME NEW w \in Workers, Upsert(w) PROVE Spine!Next
    <3> DEFINE t == call[w].tenant
               ev == call[w].ev
    <3>0. t \in Tenants /\ ev \in Inputs
      BY <2>0, <2>1, BusyFrame DEF Upsert, Frames, FrameShape
    <3>1. \A row \in spineRows : ~Spine!SameVersion(row, t, ev)
      BY <2>1 DEF Upsert, KeyExists, SameKey, spineRows, Spine!SameVersion
    <3>2. spineRows' = spineRows \cup {Spine!Row(t, ev)}
      <4> DEFINE new == NewRow(t, ev)
      <4>1. /\ new.tenant = t                 /\ new.externalId = ev.externalId
            /\ new.version = ev.version       /\ new.contentHash = ev.contentHash
        BY DEF NewRow
      <4>2. events' = events \cup {new} BY <2>1 DEF Upsert, Appended
      <4> HIDE DEF new, t, ev
      <4> QED BY <4>1, <4>2 DEF spineRows, Spine!Row
    <3>3. ackedInputs' = ackedInputs BY <2>1 DEF Upsert, ackedInputs
    <3>4. Spine!Land(t, ev) BY <3>1, <3>2, <3>3 DEF Spine!Land
    <3> QED BY <3>0, <3>4 DEF Spine!Next
  <2>2. ASSUME NEW w \in Workers, Return(w) PROVE Spine!Next
    <3> DEFINE t == call[w].tenant
               ev == call[w].ev
    <3>0. t \in Tenants /\ ev \in Inputs
      BY <2>0, <2>2, BusyFrame DEF Return, Frames, FrameShape
    <3>1. call[w].status \in Statuses /\ KeptIn(events, call[w])
      BY <2>0, <2>2 DEF Return, FramesKept, FrameKeptIn
    <3>2. PICK row \in events :
            /\ row.tenant = t /\ row.externalId = ev.externalId
            /\ row.version = ev.version \/ row.contentHash = ev.contentHash
      BY <3>1 DEF KeptIn, SameKey, Statuses
    <3>3. Spine!Represented(spineRows, t, ev)
      <4> DEFINE r == [tenant |-> row.tenant, externalId |-> row.externalId,
                       version |-> row.version, contentHash |-> row.contentHash]
      <4>1. r \in spineRows BY DEF spineRows
      <4>2. Spine!SameVersion(r, t, ev) \/ Spine!SameContent(r, t, ev)
        BY <3>2 DEF Spine!SameVersion, Spine!SameContent
      <4> QED BY <4>1, <4>2 DEF Spine!Represented
    <3>4. ackedInputs' = ackedInputs \cup {[tenant |-> t, ev |-> ev]}
      <4> DEFINE a == Answer(call[w])
      <4>1. a.tenant = t /\ a.ev = ev BY DEF Answer
      <4>2. returned' = returned \cup {a} BY <2>2 DEF Return
      <4> HIDE DEF a, t, ev
      <4> QED BY <4>1, <4>2 DEF ackedInputs
    <3>5. spineRows' = spineRows BY <2>2 DEF Return, spineRows
    <3>6. Spine!Ack(t, ev) BY <3>3, <3>4, <3>5 DEF Spine!Ack
    <3> QED BY <3>0, <3>6 DEF Spine!Next
  <2>3. CASE UNCHANGED <<events, returned>>
    BY <2>3 DEF Spine!vars, spineRows, ackedInputs
  <2>4. \/ UNCHANGED <<events, returned>>
        \/ \E w \in Workers : Upsert(w) \/ Return(w)
    BY DEF Next, Step, Call, CheckExists, ReadLatest, UpsertLost, Abort, vars
  <2> QED BY <2>1, <2>2, <2>3, <2>4
<1> QED BY <1>1, <1>2, Inductive, PTL DEF Spec, ImplementsSpine, Spine!Spec

===============================================================================
