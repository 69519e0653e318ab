------------------------------ MODULE MCDashboard -----------------------------
(* Instances of Dashboard for TLC: a record of one tenant that fails until it  *)
(* is dead-lettered, and a good record of another.                             *)
EXTENDS Dashboard, TLC

Record(t, fault) ==
  [tenant |-> t, fault |-> fault,
   ev |-> [externalId |-> "e1", version |-> 1, contentHash |-> "A"]]

TwoTenants == {Record("acme", "demo"), Record("globex", "none")}

MCConnections == {[id |-> "c1", tenant |-> "globex"]}

NoFailures == [k \in {"crash", "shutdown", "db", "lock", "api", "outage", "any"} |-> 0]

Bounds(click, switch, get, post, any) ==
  [click |-> click, switch |-> switch, get |-> get, post |-> post, any |-> any]

Browsing == Bounds(2, 2, 1, 1, 3)
Watching == Bounds(1, 0, 0, 0, 1)
===============================================================================
