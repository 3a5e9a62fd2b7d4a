-------------------------------- MODULE Gates --------------------------------
(***************************************************************************)
(* The countdown gate of internal/lambda/core/gates.go: every handler of   *)
(* the sandbox waits for its parties (runtime, extensions) at gates.  A    *)
(* gate is a record; the mutex of its condition variable makes each method *)
(* atomic, so each method is an operator from gate to gate.                *)
(***************************************************************************)
EXTENDS Naturals

CONSTANT MaxAgentsLimit     \* core.maxAgentsLimit, math.MaxUint16 in the code

ASSUME LimitAssumption == MaxAgentsLimit \in Nat \ {0}

NoErr == "nil"              \* Go's nil error

\* What a flow is canceled with: errResetReceived, the watcher's error for a process
\* that exited, or nil.
CancelErrors == {NoErr, "reset", "exit"}

Gate == [count : Nat, arrived : Nat, canceled : BOOLEAN, err : CancelErrors]

NewGate(count) == [count |-> count, arrived |-> 0, canceled |-> FALSE, err |-> NoErr]

\* SetCount is refused (ErrGateIntegrity) for a count below what has arrived.
SetCountOK(g, count) == count <= MaxAgentsLimit /\ count >= g.arrived

SetCount(g, count) == IF SetCountOK(g, count) THEN [g EXCEPT !.count = count] ELSE g

\* Reset leaves a canceled gate alone: the cancellation must be seen.
ResetNothing(g) == g        \* mutant: arrivals of the last invoke are kept
Reset(g)        == IF g.canceled THEN g ELSE [g EXCEPT !.arrived = 0]

\* WalkThrough is refused (ErrGateIntegrity) once everyone expected has arrived.
WalkOneMore(g) == g.arrived <= g.count      \* mutant: off by one
WalkOK(g)      == g.arrived # g.count

WalkThrough(g) == IF WalkOK(g) THEN [g EXCEPT !.arrived = @ + 1] ELSE g

\* What AwaitGateCondition waits for, and what it returns.
PassOneEarly(g) == g.arrived + 1 >= g.count \/ g.canceled   \* mutant: off by one
Passable(g)     == g.arrived = g.count \/ g.canceled

AwaitError(g) == IF g.err # NoErr THEN g.err ELSE "ErrGateCanceled"

CancelWithError(g, err) == [g EXCEPT !.canceled = TRUE, !.err = err]

\* Clear forgets arrivals and cancellation but keeps the expected count.
Clear(g) == [g EXCEPT !.canceled = FALSE, !.arrived = 0, !.err = NoErr]

\* No more parties went through than the gate expects.
Sound(g) == g.arrived <= g.count
==============================================================================
