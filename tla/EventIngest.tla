------------------------------ MODULE EventIngest -----------------------------
(* src/events/ingest.ts: ingestEvent, as the Workers of the process run it     *)
(* against MongoDB.  Each `await` of the function is one atomic step of the    *)
(* database and a point where other workers interleave:                        *)
(*                                                                             *)
(*   Call -> CheckExists -> ReadLatest -> Upsert | UpsertLost -> Return        *)
(*                                                                             *)
(* A worker may fail (a thrown driver error) or die between any two of them.   *)
(* A row's `id` is its _id: the server hands them out in insertion order.      *)
EXTENDS Integers

CONSTANTS Tenants, Entities, Versions, Hashes, Inputs,
          Workers       \* the concurrent callers: BullMQ's concurrency slots

ASSUME VersionsAssumption == Versions \subseteq Nat
ASSUME InputsAssumption ==
  Inputs \subseteq [externalId : Entities, occurredAt : Nat, version : Versions,
                    contentHash : Hashes]

VARIABLES
  events,       \* the events collection
  nextId,       \* the next _id the server will generate
  call,         \* call[w]: the frame of the ingestEvent call worker w is in
  returned      \* the answers given so far

vars == <<events, nextId, call, returned>>

Landed == {"added", "updated"}
Statuses == Landed \cup {"unchanged"}

Rows == [id : Nat \ {0}, tenant : Tenants, externalId : Entities, occurredAt : Nat,
         version : Versions, contentHash : Hashes]

Idle == [pc |-> "idle"]

FrameShape == [pc     : {"exists", "latest", "append", "return"},
               tenant : Tenants,
               ev     : Inputs,
               status : Statuses \cup {"none"},
               id     : Nat]        \* upsertedId of the append, 0 for none

\* A frame has an upsertedId just when it returns to say that it landed a row.
Frames == {f \in FrameShape : f.id # 0 <=> f.pc = "return" /\ f.status \in Landed}

Answers == {f \in [tenant : Tenants, ev : Inputs, status : Statuses, id : Nat] :
              f.id # 0 <=> f.status \in Landed}

Answer(f) == [tenant |-> f.tenant, ev |-> f.ev, status |-> f.status, id |-> f.id]

-------------------------------------------------------------------------------
(* The queries.                                                                *)

OfEntity(t, ev) ==
  {row \in events : row.tenant = t /\ row.externalId = ev.externalId}

\* Mutant of SameKey: the key without the version.
SameKeyAnyVersion(row, t, ev) == row.tenant = t /\ row.externalId = ev.externalId

\* idempotencyKey(row) = idempotencyKey(t, ev): the hash is taken collision-free.
SameKey(row, t, ev) ==
  row.tenant = t /\ row.externalId = ev.externalId /\ row.version = ev.version

\* The first row of the sort {occurredAt: -1, _id: -1}: by insertion among the
\* versions of one thing, which have one creation time.
IsLatest(row, t, ev) ==
  /\ row \in OfEntity(t, ev)
  /\ \A other \in OfEntity(t, ev) :
       \/ other.occurredAt < row.occurredAt
       \/ other.occurredAt = row.occurredAt /\ other.id <= row.id

\* Mutant of KeyExists: only the entity's latest row is looked at.
KeyExistsAtLatest(t, ev) ==
  \E row \in events : IsLatest(row, t, ev) /\ row.version = ev.version

KeyExists(t, ev) == \E row \in events : SameKey(row, t, ev)

FirstSeen(t, ev) == OfEntity(t, ev) = {}

NewRow(t, ev) ==
  [id |-> nextId, tenant |-> t, externalId |-> ev.externalId, occurredAt |-> ev.occurredAt,
   version |-> ev.version, contentHash |-> ev.contentHash]

\* Mutant of Appended: one row per entity, the newest version over the old.
Replaced(t, ev) == (events \ OfEntity(t, ev)) \cup {NewRow(t, ev)}

Appended(t, ev) == events \cup {NewRow(t, ev)}

-------------------------------------------------------------------------------
(* The function.                                                               *)

Init ==
  /\ events = {}
  /\ nextId = 1
  /\ call = [w \in Workers |-> Idle]
  /\ returned = {}

Call(w, t, ev) ==
  /\ call[w] = Idle
  /\ call' = [call EXCEPT ![w] =
                [pc |-> "exists", tenant |-> t, ev |-> ev, status |-> "none", id |-> 0]]
  /\ UNCHANGED <<events, nextId, returned>>

\* Exact-version replay: a row with the key answers "unchanged" at once.
CheckExists(w) ==
  /\ call[w].pc = "exists"
  /\ \/ /\ KeyExists(call[w].tenant, call[w].ev)
        /\ call' = [call EXCEPT ![w].pc = "return", ![w].status = "unchanged"]
     \/ /\ ~KeyExists(call[w].tenant, call[w].ev)
        /\ call' = [call EXCEPT ![w].pc = "latest"]
  /\ UNCHANGED <<events, nextId, returned>>

\* Classify against the entity's latest row, as it is at this moment.
ReadLatest(w) ==
  LET t  == call[w].tenant
      ev == call[w].ev
  IN  /\ call[w].pc = "latest"
      /\ \/ /\ FirstSeen(t, ev)
            /\ call' = [call EXCEPT ![w].pc = "append", ![w].status = "added"]
         \/ \E row \in OfEntity(t, ev) :
              /\ IsLatest(row, t, ev)
              /\ IF row.contentHash = ev.contentHash
                 THEN call' = [call EXCEPT ![w].pc = "return", ![w].status = "unchanged"]
                 ELSE call' = [call EXCEPT ![w].pc = "append", ![w].status = "updated"]
      /\ UNCHANGED <<events, nextId, returned>>

\* The upsert finds no row with the key and inserts one: upsertedCount is 1.
Upsert(w) ==
  LET t  == call[w].tenant
      ev == call[w].ev
  IN  /\ call[w].pc = "append"
      /\ ~KeyExists(t, ev)
      /\ events' = Appended(t, ev)
      /\ nextId' = nextId + 1
      /\ call' = [call EXCEPT ![w].pc = "return", ![w].id = nextId]
      /\ UNCHANGED returned

\* Mutant of UpsertLost: upsertedCount and E11000 are not looked at.
UpsertLostCounted(w) ==
  /\ call[w].pc = "append"
  /\ KeyExists(call[w].tenant, call[w].ev)
  /\ call' = [call EXCEPT ![w].pc = "return"]
  /\ UNCHANGED <<events, nextId, returned>>

\* The key is there: $setOnInsert writes nothing (upsertedCount is 0), and the
\* unique index turns the race two inserts may still run into E11000.
UpsertLost(w) ==
  /\ call[w].pc = "append"
  /\ KeyExists(call[w].tenant, call[w].ev)
  /\ call' = [call EXCEPT ![w].pc = "return", ![w].status = "unchanged"]
  /\ UNCHANGED <<events, nextId, returned>>

Return(w) ==
  /\ call[w].pc = "return"
  /\ returned' = returned \cup {Answer(call[w])}
  /\ call' = [call EXCEPT ![w] = Idle]
  /\ UNCHANGED <<events, nextId>>

\* A driver error thrown to the caller, or the death of the process: what the
\* call did in the database stays, no answer is given.  After the append this is
\* the lost acknowledgement of a write that happened.
Abort(w) ==
  /\ call[w] # Idle
  /\ call' = [call EXCEPT ![w] = Idle]
  /\ UNCHANGED <<events, nextId, returned>>

Step(w) ==
  \/ \E t \in Tenants, ev \in Inputs : Call(w, t, ev)
  \/ CheckExists(w)
  \/ ReadLatest(w)
  \/ Upsert(w)
  \/ UpsertLost(w)
  \/ Return(w)
  \/ Abort(w)

Next == \E w \in Workers : Step(w)

Spec == Init /\ [][Next]_vars

-------------------------------------------------------------------------------
(* Properties.                                                                 *)

\* Every variable stays in its type; an answer has an upsertedId just when it says
\* that it landed a row.
TypeOK ==
  /\ events \subseteq Rows
  /\ nextId \in Nat \ {0}
  /\ call \in [Workers -> Frames \cup {Idle}]
  /\ returned \subseteq Answers

\* What an answer f promises about the table.  "added" and "updated" name the row
\* that holds the input; "updated" has an older row of the entity with other
\* content; "unchanged" has the input's version, or its content, in the table.
Kept(f) ==
  /\ f.status \in Landed =>
       \E row \in events : /\ row.id = f.id
                           /\ SameKey(row, f.tenant, f.ev)
                           /\ row.contentHash = f.ev.contentHash
  /\ f.status = "updated" =>
       \E prev \in OfEntity(f.tenant, f.ev) :
         prev.id < f.id /\ prev.contentHash # f.ev.contentHash
  /\ f.status = "unchanged" =>
       \E row \in OfEntity(f.tenant, f.ev) :
         row.version = f.ev.version \/ row.contentHash = f.ev.contentHash

\* Every answer ingestEvent ever gave is true of the table, whatever the other
\* workers did between the reads it was computed from and the append, and stays
\* true (the status contract in the comment of ingestEvent).
AnswersKept == \A f \in returned : Kept(f)

\* Re-processing one source version lands one row, whatever the interleaving and
\* whoever retries after a lost acknowledgement (the unique idempotencyKey).
OneRowPerVersion ==
  \A r1, r2 \in events :
    SameKey(r1, r2.tenant, [externalId |-> r2.externalId, version |-> r2.version])
      => r1 = r2

\* Of all the calls made for one source version at most one is told that it
\* landed the row: the added/updated counts never count a version twice.
OneWinner ==
  \A f, g \in returned :
    /\ f.status \in Landed /\ g.status \in Landed
    /\ f.tenant = g.tenant
    /\ f.ev.externalId = g.ev.externalId
    /\ f.ev.version = g.ev.version
    => f = g

\* No step rewrites or removes a landed row: history is append-only, which is what
\* makes a replay of an old version harmless to the rows that are there.
AppendOnly == [][events \subseteq events']_events

\* The entity's current row, as reads must take it: the one of highest version.
Current(t, ev) ==
  {row \in OfEntity(t, ev) : \A o \in OfEntity(t, ev) : o.version <= row.version}

\* A stale version, delivered late or replayed, never overwrites the current
\* state: when the row that landed last reads as current although a newer version
\* was answered, it says what that version said.
StaleNeverCurrent ==
  \A f \in returned :
    \A row \in Current(f.tenant, f.ev) :
      IsLatest(row, f.tenant, f.ev) /\ row.version < f.ev.version
        => row.contentHash = f.ev.contentHash

-------------------------------------------------------------------------------
(* The abstract spine this implements: the rows without their ids, and the     *)
(* inputs that were answered.                                                  *)

spineRows == {[tenant |-> row.tenant, externalId |-> row.externalId,
               version |-> row.version, contentHash |-> row.contentHash]
               : row \in events}

ackedInputs == {[tenant |-> f.tenant, ev |-> f.ev] : f \in returned}

Spine == INSTANCE EventSpine WITH spine <- spineRows, acked <- ackedInputs

\* Every behaviour of ingestEvent is one of the atomic, append-only spine.
ImplementsSpine == Spine!Spec

===============================================================================
