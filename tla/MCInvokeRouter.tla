--------------------------- MODULE MCInvokeRouter ---------------------------
(* Instances of InvokeRouter for TLC. *)
EXTENDS InvokeRouter

\* The load of a run: several calls and workers with one /response or /error between them,
\* or several posts for one call and one worker, without reservation or shutdown.  Only steps
\* that owe nothing (no fairness) are cut off, so liveness is checked soundly.
Used(f) == {k \in DOMAIN f : f[k].pc \notin {"new", "unborn"}}
Load == \/ Cardinality(Used(req)) <= 1
        \/ /\ Cardinality(Used(call)) <= 1 /\ Cardinality(Used(next)) <= 1
           /\ asking = {} /\ \A t \in Timers : timer[t].st = "unused"
           /\ aborting = "no"
=============================================================================
