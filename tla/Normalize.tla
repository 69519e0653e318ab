------------------------------- MODULE Normalize ------------------------------
(* normalize/github.ts, events/schema.ts and events/hash.ts: from a record of  *)
(* Nango's to what ingestEvent tells apart - the entity, its version, its      *)
(* content.                                                                    *)
(*                                                                             *)
(* A record is [model, number, url, created, updated, title, state, whole]:    *)
(* `number` is the issue's or pull request's number or the commit's sha, or    *)
(* Missing; `url` is its html_url, which says what it is on GitHub; `created`  *)
(* and `updated` are its dates; `title` stands for title and actor, `state`    *)
(* for the fields that are not normalized; `whole` says whether the url, the   *)
(* title and the dates are there and well-formed.  The externalId does not     *)
(* name the repository.                                                        *)

Missing == 0        \* `undefined`: GitHub numbers from 1

\* The model names: the fixtures' and the live ones.
TypeOf ==
  [GithubIssue |-> "issue", Issue |-> "issue", GithubPullRequest |-> "pr",
   GithubCommit |-> "commit", Commit |-> "commit"]

\* Mutant of ExternalId: the number alone.
ExternalIdUntyped(r) == <<r.number>>

\* issue:<number>, pr:<number>, commit:<sha>.  A template literal always gives a
\* string: without a number it is issue:undefined.
ExternalId(r) == <<TypeOf[r.model], r.number>>

IsCommit(r) == TypeOf[r.model] = "commit"

\* A commit never changes: its sha is its version.
Version(r) == IF IsCommit(r) THEN r.number ELSE r.updated

\* The hash, taken collision-free, of the semantic fields: not of the version.
ContentHash(r) == <<TypeOf[r.model], ExternalId(r), r.title, r.url, r.created>>

\* An unknown model throws in the normalizer.  The schema refuses a url, a title or
\* a date that is missing or malformed and a version that is undefined, as a
\* commit's without sha is, but takes any externalId that is not the empty string.
Parses(r) ==
  /\ r.model \in DOMAIN TypeOf
  /\ r.whole
  /\ IsCommit(r) => r.number # Missing

Normalized(r) ==
  [externalId |-> ExternalId(r), occurredAt |-> r.created,
   version |-> Version(r), contentHash |-> ContentHash(r)]

===============================================================================
