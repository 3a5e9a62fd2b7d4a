--------------------------- MODULE MCInteropServer ---------------------------
(* Instances of InteropServer for TLC. *)
EXTENDS InteropServer

\* What a goroutine of the server can still read: states that agree on it have the same
\* futures.  What it leaves out are results of the handlers and what finished goroutines
\* remember.
Readable ==
    <<holder, cancel, mutexVars, chanVars, reset, replies, crashes, panicked,
      IF rt.state = "idle" THEN [id |-> 0, state |-> "idle"] ELSE rt,
      [c \in Calls |->
         [call[c] EXCEPT !.relCtx  = IF call[c].rel = "await" THEN @ ELSE 0,
                         !.fastCtx = IF call[c].fast = "wait" THEN @ ELSE 0,
                         !.id = IF call[c].req \in {"none", "send", "default"} THEN @ ELSE 0]]>>
==============================================================================
