------------------------------ MODULE RecordsApi ------------------------------
(* Nango's records API for one connection and model, as far as the two         *)
(* processors that page through it rely on it (nango/types.ts).  External:     *)
(* records come in the order of their last change, each change moves a record  *)
(* to the end, and a page is a copy of the records as they are when it is      *)
(* asked for.                                                                  *)
EXTENDS Naturals, FiniteSets

CONSTANTS
  Records,      \* the records Nango may hold for the key
  PageSize,     \* records in a page
  MaxUpdates    \* bound: changes in the source

ASSUME RecordsAssumption == IsFiniteSet(Records)
ASSUME PageSizeAssumption == PageSize \in Nat \ {0}

VARIABLES
  source,       \* source[r]: what Nango holds of r: [seq, ver, deleted], seq 0 for nothing
  clock         \* the seq of the latest change in the source

SourceInit ==
  /\ source = [r \in Records |-> [seq |-> 0, ver |-> 0, deleted |-> FALSE]]
  /\ clock = 0

\* A record is created, changed or deleted at the provider.
SourceChange(r) ==
  /\ clock < MaxUpdates
  /\ clock' = clock + 1
  /\ \E gone \in BOOLEAN :
       source' = [source EXCEPT ![r] = [seq |-> clock + 1, ver |-> @.ver + 1, deleted |-> gone]]

Snapshot(r) == [rec |-> r, seq |-> source[r].seq, ver |-> source[r].ver,
                deleted |-> source[r].deleted]

Pending(c) == {r \in Records : source[r].seq > c}

Before(r, c) == {q \in Pending(c) : source[q].seq < source[r].seq}

\* The first PageSize records changed after the cursor.
PageAfter(c) == {r \in Pending(c) : Cardinality(Before(r, c)) < PageSize}

Snapshots == [rec : Records, seq : Nat \ {0}, ver : Nat, deleted : BOOLEAN]

===============================================================================
