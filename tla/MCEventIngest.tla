----------------------------- MODULE MCEventIngest ----------------------------
(* Instances of EventIngest and GithubIngest for TLC: one issue and what Nango *)
(* may hand over of it, a pull request with the same number, and issues whose  *)
(* model has no `number`.                                                      *)
EXTENDS GithubIngest, TLC

Record(model, updated, title) ==
  [model |-> model, number |-> 1, url |-> "/issues/1", created |-> 1,
   updated |-> updated, title |-> title, state |-> "open", whole |-> TRUE]

Unnumbered(url, created, updated) ==
  [Record("Issue", updated, "A") EXCEPT !.number = Missing, !.url = url, !.created = created]

\* The title goes from A to B and back; GitHub sends one content per version.
Renamed == {Record("Issue", 1, "A"), Record("Issue", 2, "B"), Record("Issue", 3, "A")}

\* The second version's token comes with two contents (an update within the
\* resolution of updatedAt), the first under both model names and again closed; a
\* release is of no known model, and two records lack a field without which they are
\* refused.
Mixed ==
  {Record("Issue", 1, "A"), Record("GithubIssue", 1, "A"), Record("Issue", 2, "A"),
   Record("Issue", 2, "B"),
   [Record("GithubPullRequest", 1, "A") EXCEPT !.url = "/pull/1"],
   Record("Release", 1, "A"),
   [Record("Issue", 2, "A") EXCEPT !.state = "closed"],
   [Record("Issue", 2, "A") EXCEPT !.whole = FALSE],
   [Record("Commit", 2, "A") EXCEPT !.number = Missing]}

\* Three issues in a shape that has no `number`, one of them created later.
Shapeless ==
  {Unnumbered("/issues/1", 1, 2), Unnumbered("/issues/2", 1, 2), Unnumbered("/issues/3", 2, 3)}

Parsed(records) == {r \in records : Parses(r)}

RenamedInputs == {Normalized(r) : r \in Parsed(Renamed)}
MixedInputs   == {Normalized(r) : r \in Parsed(Mixed)}
ShapelessInputs == {Normalized(r) : r \in Parsed(Shapeless)}

MCEntities == {ExternalId(r) : r \in Parsed(Mixed) \cup Parsed(Shapeless)}
MCVersions == 1 .. 3
MCHashes == {ContentHash(r) : r \in Parsed(Mixed) \cup Parsed(Renamed) \cup Parsed(Shapeless)}

Symmetry == Permutations(Workers) \cup Permutations(Tenants)
===============================================================================
