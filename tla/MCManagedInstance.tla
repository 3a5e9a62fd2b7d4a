-------------------------- MODULE MCManagedInstance --------------------------
(* ManagedInstance for TLC. *)
EXTENDS ManagedInstance, TLC

CONSTANTS e1, e2, n1

\* One extension is launched; a second one may be found and not be launched any more.
OneLaunched == Cardinality({a \in Agents : proc[a].life # "none"}) <= 1
Alike       == Permutations({e1, e2})
=============================================================================
