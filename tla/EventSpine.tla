------------------------------ MODULE EventSpine ------------------------------
(* What the event spine promises to the code around it: a tenant's table of    *)
(* versioned event rows, appended to and never rewritten, and an answer to a   *)
(* caller that is given only once the input it is about is represented in the  *)
(* table.  EventIngest shows that ingestEvent keeps this promise under         *)
(* concurrent workers, errors and crashes; IngestQueue relies on it.           *)
CONSTANTS
  Tenants,      \* tenant ids
  Entities,     \* (source, externalId) pairs: the things GitHub keeps versions of
  Versions,     \* version tokens (updatedAt), ordered
  Hashes,       \* values of contentHash
  Inputs        \* the valid normalized events: [externalId, version, contentHash]

VARIABLES
  spine,        \* set of landed rows
  acked         \* set of [tenant, ev] some caller has had an answer for

vars == <<spine, acked>>

Row(t, ev) == [tenant      |-> t,           externalId  |-> ev.externalId,
               version     |-> ev.version,  contentHash |-> ev.contentHash]

Rows == [tenant : Tenants, externalId : Entities, version : Versions,
         contentHash : Hashes]

SameVersion(row, t, ev) ==
  row.tenant = t /\ row.externalId = ev.externalId /\ row.version = ev.version

SameContent(row, t, ev) ==
  /\ row.tenant = t
  /\ row.externalId = ev.externalId
  /\ row.contentHash = ev.contentHash

\* The input's version is in the table, or its content is under another version.
Represented(rows, t, ev) ==
  \E row \in rows : SameVersion(row, t, ev) \/ SameContent(row, t, ev)

-------------------------------------------------------------------------------

Init == spine = {} /\ acked = {}

Land(t, ev) ==
  /\ \A row \in spine : ~SameVersion(row, t, ev)
  /\ spine' = spine \cup {Row(t, ev)}
  /\ UNCHANGED acked

Ack(t, ev) ==
  /\ Represented(spine, t, ev)
  /\ acked' = acked \cup {[tenant |-> t, ev |-> ev]}
  /\ UNCHANGED spine

Next == \E t \in Tenants, ev \in Inputs : Land(t, ev) \/ Ack(t, ev)

Spec == Init /\ [][Next]_vars

===============================================================================
