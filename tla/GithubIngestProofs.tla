-------------------------- MODULE GithubIngestProofs --------------------------
(* That the normalizer and ingestEvent together swallow no record that carries *)
(* its number, for every set of records and any number of workers.  The        *)
(* answers' contract says that a row with the input's version or content is    *)
(* there (AnswersKept); here every row is shown to be made from a record       *)
(* (RowsAreRecords), and the externalId to tell the numbered things of one     *)
(* repository apart (IdsTellApart).  Without a number it does not: the run     *)
(* ingest_shapeless has two issues share issue:undefined.                      *)
EXTENDS GithubIngest, EventIngestProofs

\* Two records with one externalId, a number in it, are records of one thing: the
\* prefix keeps an issue, a pull request and a commit apart, the number the issues.
LEMMA IdsTellApart ==
  ASSUME NEW q \in Records, NEW r \in Records, Parses(q), Parses(r),
         ExternalId(q) = ExternalId(r), r.number # Missing
  PROVE  SameThing(q, r)
<1>1. TypeOf[q.model] = TypeOf[r.model] /\ q.number = r.number BY DEF ExternalId
<1> QED BY <1>1, OneRepository DEF SameThing

IsInput(row) ==
  \E ev \in Inputs : /\ row.externalId = ev.externalId
                     /\ row.version = ev.version
                     /\ row.contentHash = ev.contentHash

\* Every row of the table was made from an input.
RowsAreInputs == \A row \in events : IsInput(row)

\* The upsert, which alone adds a row, takes it from its frame's input.
LEMMA RowsAreInputsStep ==
  ASSUME TypeOK, RowsAreInputs, [Next]_vars
  PROVE  RowsAreInputs'
<1>1. CASE UNCHANGED <<events, nextId>>
  BY <1>1 DEF RowsAreInputs, IsInput
<1>2. ASSUME NEW w \in Workers, Upsert(w) PROVE RowsAreInputs'
  <2> DEFINE new == NewRow(call[w].tenant, call[w].ev)
  <2>1. call[w] \in Frames BY <1>2, BusyFrame DEF Upsert
  <2>2. call[w].ev \in Inputs BY <2>1 DEF Frames, FrameShape
  <2>3. IsInput(new) BY <2>2 DEF IsInput, NewRow
  <2>4. events' = events \cup {new} BY <1>2 DEF Upsert, Appended
  <2> QED BY <2>3, <2>4 DEF RowsAreInputs, IsInput
<1> QED BY <1>1, <1>2, TableStep

\* Every row of every reachable table was made from an input.
THEOREM TableOfInputs == Spec => []RowsAreInputs
<1>1. Init => RowsAreInputs BY DEF Init, RowsAreInputs
<1>2. TypeOK /\ RowsAreInputs /\ [Next]_vars => RowsAreInputs'
  BY RowsAreInputsStep
<1> QED BY <1>1, <1>2, TypeCorrect, PTL DEF Spec

\* Every row was made from a record that parses.
LEMMA RowsAreRecords ==
  ASSUME RowsAreInputs, NEW row \in events
  PROVE  \E q \in Records : /\ Parses(q)
                            /\ row.externalId = ExternalId(q)
                            /\ row.version = Version(q)
                            /\ row.contentHash = ContentHash(q)
<1>1. PICK ev \in Inputs : /\ row.externalId = ev.externalId
                           /\ row.version = ev.version
                           /\ row.contentHash = ev.contentHash
  BY DEF RowsAreInputs, IsInput
<1>2. PICK q \in Records : Parses(q) /\ ev = Normalized(q)
  BY FeedAssumption
<1> QED BY <1>1, <1>2 DEF Normalized

\* An answer's row is a row of the entity with its version or its content,
\* whichever of the three answers it was.
LEMMA AnswerHasRow ==
  ASSUME TypeOK, NEW f \in returned, Kept(f)
  PROVE  \E row \in OfEntity(f.tenant, f.ev) :
           row.version = f.ev.version \/ row.contentHash = f.ev.contentHash
<1>1. f.status \in Landed \/ f.status = "unchanged"
  BY DEF TypeOK, Answers, Statuses
<1>2. CASE f.status \in Landed
  BY <1>2 DEF Kept, SameKey, OfEntity
<1>3. CASE f.status = "unchanged"
  BY <1>3 DEF Kept
<1> QED BY <1>1, <1>2, <1>3

\* NothingSwallowed: a record that carries its number and whose ingest was answered
\* is in the spine as what it is, whatever else the workers ingest.
THEOREM NothingIsSwallowed == Spec => []NothingSwallowed
<1>1. TypeOK /\ AnswersKept /\ RowsAreInputs => NothingSwallowed
  <2> SUFFICES ASSUME TypeOK, AnswersKept, RowsAreInputs,
                      NEW f \in returned, NEW r \in Records,
                      Parses(r), f.ev = Normalized(r), r.number # Missing
               PROVE  InSpine(f.tenant, r)
    BY DEF NothingSwallowed, Answered
  <2>1. Kept(f) BY DEF AnswersKept
  <2>2. PICK row \in OfEntity(f.tenant, f.ev) :
          row.version = f.ev.version \/ row.contentHash = f.ev.contentHash
    BY <2>1, AnswerHasRow
  <2>3. row \in events /\ row.externalId = ExternalId(r)
    BY <2>2 DEF OfEntity, Normalized
  <2>4. row.version = Version(r) \/ row.contentHash = ContentHash(r)
    BY <2>2 DEF Normalized
  <2>5. PICK q \in Records : /\ Parses(q)
                             /\ row.externalId = ExternalId(q)
                             /\ row.version = Version(q)
                             /\ row.contentHash = ContentHash(q)
    BY <2>3, RowsAreRecords
  <2>6. SameThing(q, r) BY <2>3, <2>5, IdsTellApart
  <2> QED BY <2>2, <2>4, <2>5, <2>6 DEF InSpine
<1> QED BY <1>1, TypeCorrect, AnswersAreKept, TableOfInputs, PTL

===============================================================================
