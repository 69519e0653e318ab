----------------------------- MODULE MCIngestQueue ----------------------------
(* Instances of IngestQueue for TLC: two versions of one record, and the faults *)
(* a payload may carry.                                                        *)
EXTENDS IngestQueue, TLC

Ev(v) == [externalId |-> "e1", version |-> v, contentHash |-> IF v = 1 THEN "A" ELSE "B"]

With(v, fault) == [tenant |-> "t1", ev |-> Ev(v), fault |-> fault]

\* A good record, a self-healing one, one that is never retried.
Mixed == {With(1, "none"), With(1, "demo"), With(2, "invalid")}

\* Poisoned ones, of which one is retried.
Poisoned == {With(1, "transient"), With(2, "logical")}

\* Each of some kinds of failure once, and at most n in all.
Only(kinds, n) == [k \in Failures |-> IF k = "any" THEN n ELSE IF k \in kinds THEN 1 ELSE 0]

TwoFailures == Only(Failures, 2)
Graceful    == Only({"shutdown"}, 1)

===============================================================================
