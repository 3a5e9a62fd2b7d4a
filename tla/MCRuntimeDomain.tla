--------------------------- MODULE MCRuntimeDomain ---------------------------
(* Instances of RuntimeDomain for TLC. *)
EXTENDS RuntimeDomain, TLC

InvokeAndShutdown == {{"INVOKE", "SHUTDOWN"}}

\* Resetters are interchangeable (used only where no liveness is checked).
ResetterSymmetry == Permutations(Resetters)
==============================================================================
