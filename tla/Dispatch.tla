------------------------------ MODULE Dispatch ------------------------------
(***************************************************************************)
(* What the invoke router of the managed instances promises: an idle       *)
(* runtime (a pending /next) is handed to at most one invoke, an invoke    *)
(* that is given a runtime is answered exactly once, before it ends, and   *)
(* an invoke that gets none ends without an answer.                        *)
(***************************************************************************)
CONSTANTS Calls,   \* invokes the instance receives
          Nexts    \* /next requests of the runtime's workers
VARIABLES phase,   \* of an invoke
          given    \* the /next an invoke has been given; NoNext before

dispatchVars == <<phase, given>>

NoNext == 0

DispatchInit == /\ phase = [c \in Calls |-> "new"]
                /\ given = [c \in Calls |-> NoNext]

Move(c, from, to) == phase[c] = from /\ phase' = [phase EXCEPT ![c] = to]

\* The invoke arrives, is refused, or gets a runtime nobody else has been given.
Arrive(c) == Move(c, "new", "admitted") /\ UNCHANGED given
Refuse(c) == /\ \E p \in {"new", "admitted"} : Move(c, p, "refused")
             /\ UNCHANGED given
Give(c, n) == /\ Move(c, "admitted", "running")
              /\ \A d \in Calls : given[d] # n
              /\ given' = [given EXCEPT ![c] = n]

\* The invoker gets its answer; the invoke is forgotten.
Answer(c) == Move(c, "running", "answered") /\ UNCHANGED given
Forget(c) == Move(c, "answered", "done") /\ UNCHANGED given

DispatchNext == \E c \in Calls :
    \/ Arrive(c) \/ Refuse(c) \/ Answer(c) \/ Forget(c)
    \/ \E n \in Nexts : Give(c, n)

DispatchSpec == DispatchInit /\ [][DispatchNext]_dispatchVars
=============================================================================
