------------------------------ MODULE MCReconcile -----------------------------
(* Instances of Reconcile for TLC.                                             *)
EXTENDS Reconcile

\* Any two failures.  Two throws use up the attempts of a job.
TwoFailures == [k \in Failures |-> IF k \in {"throw", "any"} THEN 2 ELSE 1]
===============================================================================
