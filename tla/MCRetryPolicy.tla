----------------------------- MODULE MCRetryPolicy ----------------------------
(* Instances of RetryPolicy for TLC: one error of each shape the classifier    *)
(* tells apart, and the overlaps its order decides.                            *)
EXTENDS RetryPolicy

Plain == [tag |-> "none", zod |-> FALSE, network |-> FALSE, status |-> None,
          retryAfterMs |-> None, header |-> Absent]

Own == {[Plain EXCEPT !.tag = "transient", !.status = 503],
        [Plain EXCEPT !.tag = "transient", !.retryAfterMs = 90],
        [Plain EXCEPT !.tag = "logical"]}

Sdk == {Plain,
        [Plain EXCEPT !.zod = TRUE],
        [Plain EXCEPT !.network = TRUE],
        [Plain EXCEPT !.status = 422],
        [Plain EXCEPT !.status = 500],
        [Plain EXCEPT !.status = 599],
        [Plain EXCEPT !.status = 600]}

RateLimits == {[Plain EXCEPT !.status = 429, !.header = h] :
                 h \in {Absent, Junk, Seconds(0), Seconds(3), Date(70), Date(-70)}}

\* Errors that fit two of the classifier's rules: the earlier one decides.
Overlaps == {[Plain EXCEPT !.tag = "transient", !.zod = TRUE],
             [Plain EXCEPT !.tag = "transient", !.status = 429, !.header = Seconds(3)],
             [Plain EXCEPT !.tag = "logical", !.network = TRUE, !.status = 500],
             [Plain EXCEPT !.zod = TRUE, !.network = TRUE, !.status = 429],
             [Plain EXCEPT !.network = TRUE, !.status = 422],
             [Plain EXCEPT !.network = TRUE, !.status = 429, !.header = Seconds(3)],
             [Plain EXCEPT !.status = 429, !.retryAfterMs = 90, !.header = Seconds(3)]}

Shapes == Own \cup Sdk \cup RateLimits \cup Overlaps
===============================================================================
