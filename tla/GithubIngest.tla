------------------------------ MODULE GithubIngest ----------------------------
(* Records of GitHub's through the normalizer into ingestEvent: EventIngest    *)
(* with the inputs that Normalize makes of a set of records.  Those that the   *)
(* normalizer or the schema refuses never get to the spine.                    *)
EXTENDS EventIngest, Normalize

CONSTANT Records        \* what Nango may hand over, in any order and repeatedly

ASSUME FeedAssumption == Inputs = {Normalized(r) : r \in {q \in Records : Parses(q)}}

\* All records come from one repository: there a number, among the issues, the
\* pull requests or the commits, is that of one thing.
ASSUME OneRepository ==
  \A q, r \in {p \in Records : Parses(p) /\ p.number # Missing} :
    TypeOf[q.model] = TypeOf[r.model] /\ q.number = r.number => q.url = r.url

\* Two records of one thing on GitHub, under whichever model names.
SameThing(q, r) == q.url = r.url

\* What became of a record: a row with its version or its content, made from a
\* record of the same thing.
InSpine(t, r) ==
  \E row \in OfEntity(t, Normalized(r)) :
    /\ row.version = Version(r) \/ row.contentHash = ContentHash(r)
    /\ \E q \in Records :
         /\ Parses(q) /\ SameThing(q, r)
         /\ row.version = Version(q) /\ row.contentHash = ContentHash(q)

\* The record's ingest was answered.
Answered(t, r) ==
  Parses(r) /\ \E f \in returned : f.tenant = t /\ f.ev = Normalized(r)

\* A record that carries its number, and whose ingest was answered, is in the spine
\* as what it is: an issue and a pull request with one number and one updated_at
\* are not taken for versions or replays of each other, whoever races, fails or
\* retries.
NothingSwallowed ==
  \A t \in Tenants, r \in Records :
    Answered(t, r) /\ r.number # Missing => InSpine(t, r)

\* No data is lost to an unexpected shape: a record is refused (and dead-lettered,
\* to be replayed once the mapper is adjusted) or it is in the spine as what it is.
NoDataLost == \A t \in Tenants, r \in Records : Answered(t, r) => InSpine(t, r)

===============================================================================
