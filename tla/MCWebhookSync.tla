----------------------------- MODULE MCWebhookSync ----------------------------
(* Instances of WebhookSync for TLC.                                           *)
EXTENDS WebhookSync, TLC

\* Each of some kinds of failure once, and at most n in all; one overlap or none.
Only(kinds, n) == [k \in Failures |-> IF k = "any" THEN n ELSE IF k \in kinds THEN 1 ELSE 0]

TwoFailures == Only(Failures, 2)
Overlapping == Only({"overlap"}, 0)

Symmetry == Permutations(Slots) \cup Permutations(Records)
===============================================================================
