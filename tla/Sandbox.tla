------------------------------- MODULE Sandbox -------------------------------
(***************************************************************************)
(* What the sandbox (internal/lambda/rapid) promises to its callers: one   *)
(* operation at a time holds it, a handler succeeds only when nobody has   *)
(* canceled it, it reports a reset only when a reset did, and the flows    *)
(* are re-armed only while no handler runs.  RuntimeDomain implements this *)
(* specification; InteropServer relies on it.                              *)
(***************************************************************************)
VARIABLES holder,   \* the operation that has handlerExecutionMutex
          cancel,   \* what canceled the flows, "no" when nothing has
          outcome   \* what the last handler returned

sandboxVars == <<holder, cancel, outcome>>

Handlers == {"init", "invoke"}
Causes   == {"nil", "exit", "reset"}
Outcomes == {"ok", "fail", "reset"}

SandboxInit == holder = "none" /\ cancel = "no" /\ outcome = "none"

\* HandleInit and HandleInvoke get the mutex.
Begin(o) == holder = "none" /\ holder' = o /\ UNCHANGED <<cancel, outcome>>

\* A handler that cannot even start.
FailAtOnce == holder = "none" /\ outcome' = "fail" /\ UNCHANGED <<holder, cancel>>

\* The handler returns.
Finish(r) ==
    /\ holder \in Handlers
    /\ r = "ok" => cancel = "no"
    /\ r = "reset" => cancel = "reset"
    /\ holder' = "none" /\ outcome' = r /\ UNCHANGED cancel

\* A reset or the exit of a process cancels whatever runs; the first cause counts.
Cancel(e) == cancel = "no" /\ cancel' = e /\ UNCHANGED <<holder, outcome>>

\* HandleReset and HandleShutdown get the mutex, and let it go.
Lock   == holder = "none" /\ holder' = "reset" /\ UNCHANGED <<cancel, outcome>>
Unlock == holder = "reset" /\ holder' = "none" /\ UNCHANGED <<cancel, outcome>>

\* SandboxContext.Reset re-arms the flows after it has let the mutex go.
Rearm == holder \notin Handlers /\ cancel' = "no" /\ UNCHANGED <<holder, outcome>>

\* The program ends.
Die == /\ holder # "dead" /\ holder' = "dead"
       /\ cancel' \in Causes \cup {"no"} /\ outcome' \in Outcomes \cup {"none"}

SandboxNext ==
    \/ \E o \in Handlers : Begin(o)
    \/ \E r \in Outcomes : Finish(r)
    \/ \E e \in Causes : Cancel(e)
    \/ FailAtOnce \/ Lock \/ Unlock \/ Rearm \/ Die

SandboxSpec == SandboxInit /\ [][SandboxNext]_sandboxVars

\* A handler that is canceled returns, whatever runtime and extensions do, and a reset
\* that has the mutex lets it go.
CanceledReturns == cancel # "no" /\ holder \in Handlers ~> holder \notin Handlers
ResetUnlocks    == holder = "reset" ~> holder # "reset"
==============================================================================
