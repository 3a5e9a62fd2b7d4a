---------------------------- MODULE RuntimeDomain ----------------------------
(***************************************************************************)
(* The sandbox of internal/lambda: rapid's Init, Invoke, Reset and         *)
(* Shutdown handlers, the registration service, the state machines of the  *)
(* runtime and of the extensions ("agents"), the process supervisor and    *)
(* the goroutine that watches its exit events.  The actors interleave:     *)
(*                                                                         *)
(*   handler    HandleInit / HandleInvoke, under handlerExecutionMutex     *)
(*   resetters  callers of SandboxContext.Reset / Shutdown                 *)
(*   watcher    the single watchEvents goroutine                           *)
(*   parties    runtime and extension processes calling the Runtime API    *)
(***************************************************************************)
EXTENDS Gates, FiniteSets

CONSTANTS ExtAgents,        \* external extensions, one process each
          IntAgents,        \* names internal extensions may register
          Rt,               \* the runtime, as a process name
          Resetters,        \* concurrent callers of Reset / Shutdown
          Subscriptions,    \* sets of events an external extension may choose
          MaxAgentsAllowed, \* core.MaxAgentsAllowed
          MaxInvokes, MaxResets, MaxCrashes,    \* bounds on the environment
          Exclusive,        \* no invoke starts while a reset is in progress
          StaleHandlers,    \* an HTTP handler may outlive its runtime's reset
          SlowExits         \* an exit may take longer than maxProcessExitWait

Agents == ExtAgents \cup IntAgents
Procs  == ExtAgents \cup {Rt}

ASSUME DomainAssumption ==
    /\ IsFiniteSet(Agents)
    /\ ExtAgents \cap IntAgents = {}
    /\ Rt \notin Agents
    /\ Subscriptions \subseteq SUBSET {"INVOKE", "SHUTDOWN"}
    /\ MaxAgentsAllowed \in Nat
    /\ Cardinality(Agents) <= MaxAgentsLimit
    /\ MaxInvokes \in Nat /\ MaxResets \in Nat /\ MaxCrashes \in Nat
    /\ {Exclusive, StaleHandlers, SlowExits} \subseteq BOOLEAN

VARIABLES
    gate,       \* the gates of the init and invoke flows
    regOn,      \* registrationServiceImpl.state = registrationServiceOn
    canceled,   \* registrationServiceImpl.cancelOnce has run
    overtaken,  \* history: a reset is about to clear, or has cleared, the gates that the
                \* watcher's CancelFlows canceled, and cancelOnce stays used up
    runtime,    \* the registered core.Runtime, state "nil" when there is none
    agent,      \* the registered agents, state "none" when not in the maps
    pc, op,     \* the handler's place in its code; "init" or "invoke"
    todo,       \* extensions doInitExtensions has still to launch
    res,        \* what the handler last returned
    initDone,   \* rapidContext.initDone
    gen,        \* rapidContext.runtimeDomainGeneration
    alive,      \* processes running, as <<name, generation>>
    exits,      \* exits the supervisor has still to hand to the watcher
    chans,      \* shutdownContext.runtimeDomainExited: channels created
    closed,     \* ... and of these the closed ones
    watch,      \* the watcher: [pc, ev, err]
    rpc, kind,  \* per resetter: place in its code; "reset" or "shutdown"
    shuttingDown, awaiting,     \* fields of shutdownContext
    fatal,      \* appctx first fatal error
    stale,      \* response handlers still running for a cleared runtime
    panicked,   \* the panic that ended the process, or "no"
    invokes, resets, crashes    \* uses of the bounds

flowVars  == <<gate, canceled, overtaken>>
partyVars == <<regOn, runtime, agent>>
hdlVars   == <<pc, op, todo, res, initDone>>
procVars  == <<gen, alive, exits, chans, closed>>
downVars  == <<rpc, kind, shuttingDown, awaiting>>
bounds    == <<invokes, resets, crashes>>
vars == <<flowVars, partyVars, hdlVars, procVars, watch, downVars, fatal, stale,
          panicked, bounds>>
------------------------------------------------------------------------------
InitGates   == {"extRegistered", "initRuntime", "initAgents", "restoreReady"}
InvokeGates == {"invokeResponse", "invokeRuntime", "invokeAgents"}
GateNames   == InitGates \cup InvokeGates

RuntimeStates == {"nil", "Started", "InitError", "Ready", "Running", "Response", "ResponseSent"}
AgentStates   == {"none", "Started", "Registered", "Ready", "Running", "InitError",
                  "ExitError", "ShutdownFailed", "Exited", "LaunchError"}

\* flag is ManagedThread.operatorConditionValue, waiting a /next request that is
\* suspended on it, sending a /response or /error request past SendResponse.
NewRuntime(g) == [state |-> "Started", flag |-> FALSE, waiting |-> FALSE,
                  sending |-> FALSE, gen |-> g]
NilRuntime    == [NewRuntime(0) EXCEPT !.state = "nil"]
NewAgent(g)   == [state |-> "Started", flag |-> FALSE, waiting |-> FALSE,
                  subs |-> {}, gen |-> g]
NoAgent       == [NewAgent(0) EXCEPT !.state = "none"]

Registered    == {a \in Agents : agent[a].state # "none"}
Subscribed(e) == {a \in Registered : e \in agent[a].subs}

CountExternalAgents == Cardinality(Registered \cap ExtAgents)   \* mutant: internal ones forgotten
CountAgents         == Cardinality(Registered)

\* The process that acts for a party: internal extensions live in the runtime.
Host(a) == IF a \in ExtAgents THEN <<a, agent[a].gen>> ELSE <<Rt, agent[a].gen>>

InReset(r)  == rpc[r] \notin {"idle", "lock", "clear", "clearGates"}
MutexFree   == pc = "idle" /\ \A r \in Resetters : ~InReset(r)

\* Mutants of CancelFlows that forget one of the two flows.
CancelSome(gates, err) ==
    /\ canceled' = TRUE
    /\ gate' = IF canceled THEN gate
               ELSE [g \in GateNames |-> IF g \in gates THEN CancelWithError(gate[g], err)
                                                        ELSE gate[g]]
CancelInvokeFlow(err) == CancelSome(InvokeGates, err)
CancelInitFlow(err)   == CancelSome(InitGates, err)

\* Mutant: without cancelOnce the last error counts.
CancelAgain(err) ==
    /\ canceled' = TRUE
    /\ gate' = [g \in GateNames |-> CancelWithError(gate[g], err)]

\* registrationServiceImpl.CancelFlows: only the first error counts.
CancelFlows(err) ==
    /\ canceled' = TRUE
    /\ gate' = IF canceled THEN gate
               ELSE [g \in GateNames |-> CancelWithError(gate[g], err)]

\* mutant: only the runtime's exit is recorded
StoreRuntimeExit(err) == fatal' = IF fatal = "none" /\ err = "RuntimeExit" THEN err ELSE fatal

\* appctx.StoreFirstFatalError
StoreFirstFatalError(err) == fatal' = IF fatal = "none" THEN err ELSE fatal

Init ==
    /\ gate = [g \in GateNames |->
                 NewGate(CASE g = "extRegistered" -> 0
                           [] g \in {"initAgents", "invokeAgents"} -> MaxAgentsLimit
                           [] OTHER -> 1)]
    /\ regOn = TRUE /\ canceled = FALSE /\ overtaken = FALSE
    /\ runtime = NilRuntime
    /\ agent = [a \in Agents |-> NoAgent]
    /\ pc = "new" /\ op = "init" /\ todo = {} /\ res = "none" /\ initDone = FALSE
    /\ gen = 0 /\ alive = {} /\ exits = {} /\ chans = {} /\ closed = {}
    /\ watch = [pc |-> "idle", ev |-> <<Rt, 0>>, err |-> NoErr]
    /\ rpc = [r \in Resetters |-> "idle"]
    /\ kind = [r \in Resetters |-> "reset"]
    /\ shuttingDown = FALSE /\ awaiting = {}
    /\ fatal = "none" /\ stale = 0 /\ panicked = "no"
    /\ invokes = 0 /\ resets = 0 /\ crashes = 0
------------------------------------------------------------------------------
(* The handler: doRuntimeDomainInit, then for an invoke the rest of doInvoke. *)

\* The handler returns, releasing handlerExecutionMutex.
Return(r) == pc' = "idle" /\ res' = r

\* The start of doRuntimeDomainInit and of doInitExtensions.
BeginInit ==
    /\ gen' = gen + 1
    /\ IF SetCountOK(gate["extRegistered"], Cardinality(ExtAgents))
       THEN /\ gate' = [gate EXCEPT !["extRegistered"] = SetCount(@, Cardinality(ExtAgents))]
            /\ pc' = "extensions" /\ todo' = ExtAgents /\ UNCHANGED res
       ELSE Return("ErrGateIntegrity") /\ UNCHANGED <<gate, todo>>
    /\ UNCHANGED <<canceled, overtaken, alive, exits, chans, closed>>

HandleInit ==
    /\ pc = "new"
    /\ BeginInit
    /\ UNCHANGED <<op, initDone, partyVars, watch, downVars, fatal, stale, panicked, bounds>>

HandleInvoke ==
    /\ MutexFree /\ invokes < MaxInvokes
    /\ Exclusive => \A r \in Resetters : rpc[r] = "idle"
    /\ invokes' = invokes + 1
    /\ op' = "invoke"
    /\ IF initDone
       THEN pc' = "barriers" /\ UNCHANGED <<flowVars, procVars, todo, res>>
       ELSE BeginInit
    /\ UNCHANGED <<initDone, partyVars, watch, downVars, fatal, stale, panicked, resets, crashes>>

\* What CreateExternalAgent and CreateInternalAgent require.
MayCreateExternal(a) == regOn /\ agent[a].state = "none"
MayCreateInternal(a) == regOn /\ CountAgents < MaxAgentsAllowed /\ agent[a].state = "none"

\* One round of the loop of doInitExtensions, up to and including Exec.
LaunchExtension(a) ==
    /\ pc = "extensions" /\ a \in todo
    /\ \/ /\ ~MayCreateExternal(a)
          /\ Return(IF regOn THEN "ErrAgentNameCollision" ELSE "ErrRegistrationServiceOff")
          /\ UNCHANGED <<agent, alive, fatal, todo>>
       \/ /\ MayCreateExternal(a)
          /\ \/ /\ CountAgents + 1 <= MaxAgentsAllowed
                /\ agent' = [agent EXCEPT ![a] = NewAgent(gen)]
                /\ alive' = alive \cup {<<a, gen>>}
                /\ pc' = "extChannel" /\ todo' = todo \ {a}
                /\ UNCHANGED <<res, fatal>>
             \/ /\ agent' = [agent EXCEPT ![a] = [NewAgent(gen) EXCEPT !.state = "LaunchError"]]
                /\ StoreFirstFatalError("AgentLaunchError")
                /\ Return(IF CountAgents + 1 > MaxAgentsAllowed THEN "ErrTooManyExtensions"
                                                                ELSE "ExecFailed")
                /\ UNCHANGED <<alive, todo>>
    /\ UNCHANGED <<flowVars, regOn, runtime, op, initDone, gen, exits, chans, closed,
                   watch, downVars, stale, panicked, bounds>>

\* createExitedChannel, after Exec has returned.
CreateExitedChannel(p) ==
    /\ chans' = chans \cup {<<p, gen>>}
    /\ panicked' = IF <<p, gen>> \in chans THEN "channelExists" ELSE panicked
    /\ UNCHANGED <<gen, alive, exits, closed>>

ExtensionChannel(a) ==
    /\ pc = "extChannel" /\ agent[a].gen = gen
    /\ agent[a].state # "none" /\ a \notin todo /\ <<a, gen>> \notin chans
    /\ CreateExitedChannel(a)
    /\ pc' = "extensions"
    /\ UNCHANGED <<flowVars, partyVars, op, todo, res, initDone, watch, downVars, fatal,
                   stale, bounds>>

\* The handler passes gate g, or returns what canceled it.
Await(g, next) ==
    /\ Passable(gate[g])
    /\ IF gate[g].canceled THEN Return(AwaitError(gate[g]))
                           ELSE pc' = next /\ UNCHANGED res

AwaitExternalAgentsRegistered ==
    /\ pc = "extensions" /\ todo = {}
    /\ Await("extRegistered", "runtime")
    /\ UNCHANGED <<flowVars, partyVars, op, todo, initDone, procVars, watch, downVars,
                   fatal, stale, panicked, bounds>>

\* PreregisterRuntime, doRuntimeBootstrap and Exec of the runtime.
LaunchRuntime ==
    /\ pc = "runtime"
    /\ \/ /\ ~regOn
          /\ Return("ErrRegistrationServiceOff")
          /\ UNCHANGED <<runtime, alive, fatal>>
       \/ /\ regOn
          /\ runtime' = NewRuntime(gen)
          /\ \/ /\ alive' = alive \cup {<<Rt, gen>>}
                /\ pc' = "rtChannel"
                /\ UNCHANGED <<res, fatal>>
             \/ /\ StoreFirstFatalError("InvalidEntrypoint")
                /\ Return("ExecFailed")
                /\ UNCHANGED alive
    /\ UNCHANGED <<flowVars, regOn, agent, op, todo, initDone, gen, exits, chans, closed,
                   watch, downVars, stale, panicked, bounds>>

RuntimeChannel ==
    /\ pc = "rtChannel"
    /\ CreateExitedChannel(Rt)
    /\ pc' = "awaitRuntime"
    /\ UNCHANGED <<flowVars, partyVars, op, todo, res, initDone, watch, downVars, fatal,
                   stale, bounds>>

\* AwaitRuntimeRestoreReady, then TurnOff and SetAgentsReadyCount.
AwaitRuntimeRestoreReady ==
    /\ pc = "awaitRuntime"
    /\ Passable(gate["restoreReady"])
    /\ IF gate["restoreReady"].canceled
       THEN Return(AwaitError(gate["restoreReady"])) /\ UNCHANGED <<regOn, gate>>
       ELSE /\ regOn' = FALSE
            /\ IF SetCountOK(gate["initAgents"], CountAgents)
               THEN /\ gate' = [gate EXCEPT !["initAgents"] = SetCount(@, CountAgents)]
                    /\ pc' = "awaitAgents" /\ UNCHANGED res
               ELSE Return("ErrGateIntegrity") /\ UNCHANGED gate
    /\ UNCHANGED <<canceled, overtaken, runtime, agent, op, todo, initDone, procVars, watch, downVars,
                   fatal, stale, panicked, bounds>>

\* AwaitAgentsReady of init: init is done; an invoke goes on with its own part.
InitAwaitAgentsReady ==
    /\ pc = "awaitAgents"
    /\ Passable(gate["initAgents"])
    /\ IF gate["initAgents"].canceled
       THEN Return(AwaitError(gate["initAgents"])) /\ UNCHANGED initDone
       ELSE /\ initDone' = TRUE
            /\ IF op = "init" THEN Return("ok") ELSE pc' = "barriers" /\ UNCHANGED res
    /\ UNCHANGED <<flowVars, partyVars, op, todo, procVars, watch, downVars, fatal, stale,
                   panicked, bounds>>

\* The invoke flow's gates forget the last invoke.
InitializeBarriers ==
    [g \in GateNames |-> IF g \in InvokeGates THEN Reset(gate[g]) ELSE gate[g]]

\* Agent.Release of each of as: its suspended /next request goes on.
Release(as) ==
    [a \in Agents |-> IF a \in as THEN [agent[a] EXCEPT !.flag = TRUE] ELSE agent[a]]

\* InitializeBarriers, SetAgentsReadyCount, and the release of all parties.
ReleaseParties ==
    /\ pc = "barriers"
    /\ LET subs  == Subscribed("INVOKE")
           count == Cardinality(subs)
       IN  IF SetCountOK(InitializeBarriers["invokeAgents"], count)
           THEN /\ gate' = [InitializeBarriers EXCEPT !["invokeAgents"] = SetCount(@, count)]
                /\ agent' = Release(subs)
                /\ IF runtime.state = "nil"
                   THEN panicked' = "nilRuntime" /\ UNCHANGED runtime
                   ELSE runtime' = [runtime EXCEPT !.flag = TRUE] /\ UNCHANGED panicked
                /\ pc' = "awaitResponse" /\ UNCHANGED res
           ELSE /\ gate' = InitializeBarriers
                /\ Return("ErrGateIntegrity")
                /\ UNCHANGED <<agent, runtime, panicked>>
    /\ UNCHANGED <<canceled, overtaken, regOn, op, todo, initDone, procVars, watch, downVars, fatal,
                   stale, bounds>>

AwaitRuntimeResponse ==
    /\ pc = "awaitResponse"
    /\ Await("invokeResponse", "awaitReady")
    /\ UNCHANGED <<flowVars, partyVars, op, todo, initDone, procVars, watch, downVars,
                   fatal, stale, panicked, bounds>>

\* A successful handleInvoke reads the runtime's description before it returns.
InvokeSucceeds ==
    /\ Return("ok")
    /\ panicked' = IF runtime.state = "nil" THEN "nilRuntime" ELSE panicked

\* AwaitRuntimeReady; without active extensions the invoke is over.
AwaitRuntimeReady ==
    /\ pc = "awaitReady"
    /\ Passable(gate["invokeRuntime"])
    /\ \/ /\ gate["invokeRuntime"].canceled
          /\ Return(AwaitError(gate["invokeRuntime"])) /\ UNCHANGED panicked
       \/ /\ ~gate["invokeRuntime"].canceled /\ CountAgents > 0
          /\ pc' = "awaitInvokeAgents" /\ UNCHANGED <<res, panicked>>
       \/ /\ ~gate["invokeRuntime"].canceled /\ CountAgents = 0
          /\ InvokeSucceeds
    /\ UNCHANGED <<flowVars, partyVars, op, todo, initDone, procVars, watch, downVars,
                   fatal, stale, bounds>>

InvokeAwaitAgentsReady ==
    /\ pc = "awaitInvokeAgents"
    /\ Passable(gate["invokeAgents"])
    /\ IF gate["invokeAgents"].canceled
       THEN Return(AwaitError(gate["invokeAgents"])) /\ UNCHANGED panicked
       ELSE InvokeSucceeds
    /\ UNCHANGED <<flowVars, partyVars, op, todo, initDone, procVars, watch, downVars,
                   fatal, stale, bounds>>
------------------------------------------------------------------------------
(* The parties: one action per Runtime API request that changes state. *)

othersOfParty == <<hdlVars, procVars, watch, downVars, panicked, bounds>>

RuntimeUp == runtime.state # "nil" /\ <<Rt, runtime.gen>> \in alive

\* Runtime.Ready by the runtime's state, up to the suspension.  A gate that refuses
\* the runtime makes the request fail, with the state already set to Ready.
StartedReady ==
    /\ runtime.state = "Started"
    /\ LET first  == WalkOK(gate["restoreReady"])
           second == first /\ WalkOK(gate["initRuntime"])
       IN /\ gate' = [gate EXCEPT !["restoreReady"] = WalkThrough(@),
                                  !["initRuntime"] = IF first THEN WalkThrough(@) ELSE @]
          /\ runtime' = [runtime EXCEPT !.state = "Ready", !.waiting = second]

ResponseSentReady ==
    /\ runtime.state = "ResponseSent"
    /\ gate' = [gate EXCEPT !["invokeRuntime"] = WalkThrough(@)]
    /\ runtime' = [runtime EXCEPT !.state = "Ready",
                                  !.waiting = WalkOK(gate["invokeRuntime"])]

ReadyReady ==
    /\ runtime.state = "Ready"
    /\ runtime' = [runtime EXCEPT !.waiting = TRUE] /\ UNCHANGED gate

\* GET /runtime/invocation/next
RuntimeNext ==
    /\ RuntimeUp /\ ~runtime.waiting
    /\ StartedReady \/ ResponseSentReady \/ ReadyReady
    /\ UNCHANGED <<canceled, overtaken, regOn, agent, fatal, stale, othersOfParty>>

\* mutant: operatorConditionValue is not reset
RuntimeResumeKeepsFlag ==
    /\ runtime.waiting /\ runtime.flag
    /\ runtime' = [runtime EXCEPT !.state = "Running", !.waiting = FALSE]
    /\ UNCHANGED <<flowVars, regOn, agent, fatal, stale, othersOfParty>>

\* The suspended /next request is released and answers with the event.
RuntimeResume ==
    /\ runtime.waiting /\ runtime.flag
    /\ runtime' = [runtime EXCEPT !.state = "Running", !.flag = FALSE, !.waiting = FALSE]
    /\ UNCHANGED <<flowVars, regOn, agent, fatal, stale, othersOfParty>>

\* POST /runtime/invocation/{id}/response or /error, up to the answer of the
\* interop server, which may refuse it; a refused runtime stays in Response.
Respond(accepted) ==
    /\ RuntimeUp /\ runtime.state = "Running"
    /\ runtime' = [runtime EXCEPT !.state = "Response", !.sending = accepted]
    /\ UNCHANGED <<flowVars, regOn, agent, fatal, stale, othersOfParty>>

RuntimeRespond        == Respond(TRUE)
RuntimeRespondRefused == Respond(FALSE)

\* ... and its end.  The handler's goroutine does not need the runtime to live.
RuntimeResponseSent ==
    /\ runtime.state = "Response" /\ runtime.sending
    /\ gate' = [gate EXCEPT !["invokeResponse"] = WalkThrough(@)]
    /\ runtime' = [runtime EXCEPT !.state = "ResponseSent", !.sending = FALSE]
    /\ UNCHANGED <<canceled, overtaken, regOn, agent, fatal, stale, othersOfParty>>

\* The same end for a runtime object that a reset has dropped: the state is of no
\* consequence any more, but the gate is the one the next runtime uses.
StaleResponseSent ==
    /\ stale > 0
    /\ stale' = stale - 1
    /\ gate' = [gate EXCEPT !["invokeResponse"] = WalkThrough(@)]
    /\ UNCHANGED <<canceled, overtaken, partyVars, fatal, othersOfParty>>

\* POST /runtime/init/error
RuntimeInitError ==
    /\ RuntimeUp /\ runtime.state = "Started"
    /\ runtime' = [runtime EXCEPT !.state = "InitError"]
    /\ UNCHANGED <<flowVars, regOn, agent, fatal, stale, othersOfParty>>

\* ExternalAgentStartedState.Register
StartedRegister(a, subs) ==
    /\ agent[a].state = "Started"
    /\ agent' = [agent EXCEPT ![a].state = "Registered", ![a].subs = subs]
    /\ gate' = [gate EXCEPT !["extRegistered"] = WalkThrough(@)]

\* POST /extension/register of an external extension.
RegisterExternal(a) ==
    /\ a \in ExtAgents /\ Host(a) \in alive
    /\ \E subs \in Subscriptions : StartedRegister(a, subs)
    /\ UNCHANGED <<canceled, overtaken, regOn, runtime, fatal, stale, othersOfParty>>

\* InternalAgent.validateEvent.
InternalEvents == {"INVOKE"}

\* POST /extension/register from inside the runtime creates an internal agent.
RegisterInternal(a) ==
    /\ a \in IntAgents /\ RuntimeUp
    /\ MayCreateInternal(a)
    /\ \E subs \in SUBSET InternalEvents :
          agent' = [agent EXCEPT ![a] = [NewAgent(runtime.gen) EXCEPT !.state = "Registered",
                                                                     !.subs = subs]]
    /\ UNCHANGED <<flowVars, regOn, runtime, fatal, stale, othersOfParty>>

\* The flow that is told that the agent is ready: init's the first time.
ReadyGate(a) == IF agent[a].state = "Registered" THEN "initAgents" ELSE "invokeAgents"

\* GET /extension/event/next, up to the suspension; errors of the gate are ignored.
AgentNext(a) ==
    /\ Host(a) \in alive /\ ~agent[a].waiting
    /\ agent[a].state \in {"Registered", "Running"}
    /\ gate' = [gate EXCEPT ![ReadyGate(a)] = WalkThrough(@)]
    /\ agent' = [agent EXCEPT ![a].state = "Ready", ![a].waiting = TRUE]
    /\ UNCHANGED <<canceled, overtaken, regOn, runtime, fatal, stale, othersOfParty>>

\* The suspended request is released; the agent may have reported an error since.
AgentResume(a) ==
    /\ agent[a].waiting /\ agent[a].flag
    /\ agent' = [agent EXCEPT ![a].flag = FALSE, ![a].waiting = FALSE,
                              ![a].state = IF @ = "Ready" THEN "Running" ELSE @]
    /\ UNCHANGED <<flowVars, regOn, runtime, fatal, stale, othersOfParty>>

\* POST /extension/init/error and /extension/exit/error
AgentInitError(a) ==
    /\ agent[a].state = "Registered"
    /\ agent' = [agent EXCEPT ![a].state = "InitError"]
    /\ StoreFirstFatalError("AgentInitError")

AgentExitError(a) ==
    /\ agent[a].state \in {"Registered", "Ready", "Running"}
    /\ agent' = [agent EXCEPT ![a].state = "ExitError"]
    /\ StoreFirstFatalError("AgentExitError")

AgentError(a) ==
    /\ Host(a) \in alive
    /\ AgentInitError(a) \/ AgentExitError(a)
    /\ UNCHANGED <<flowVars, regOn, runtime, stale, othersOfParty>>
------------------------------------------------------------------------------
(* The supervisor and the watcher of its events. *)

\* A process ends by itself; the supervisor's goroutine will report it.
ProcessExit(p) ==
    /\ p \in alive /\ crashes < MaxCrashes
    /\ crashes' = crashes + 1
    /\ alive' = alive \ {p} /\ exits' = exits \cup {p}
    /\ UNCHANGED <<flowVars, partyVars, hdlVars, gen, chans, closed, watch, downVars, fatal,
                   stale, panicked, invokes, resets>>

\* watchEvents takes an event; outside a shutdown the exit is an error.
WatchEvent(p) ==
    /\ watch.pc = "idle" /\ p \in exits
    /\ exits' = exits \ {p}
    /\ watch' = [pc |-> "exit", ev |-> p, err |-> IF shuttingDown THEN NoErr ELSE "exit"]
    /\ IF shuttingDown THEN UNCHANGED fatal
       ELSE StoreFirstFatalError(IF p = <<Rt, gen>> THEN "RuntimeExit" ELSE "AgentCrash")
    /\ UNCHANGED <<flowVars, partyVars, hdlVars, gen, alive, chans, closed, downVars, stale,
                   panicked, bounds>>

\* handleProcessExit: the agent's final state, then the channel is closed.
HandleProcessExit ==
    /\ watch.pc = "exit"
    /\ \E final \in {"Exited", "ShutdownFailed"} :
          agent' = [a \in Agents |->
             IF a \in awaiting /\ watch.ev = <<a, agent[a].gen>> /\ agent[a].state = "Running"
             THEN [agent[a] EXCEPT !.state = final] ELSE agent[a]]
    /\ IF watch.ev \in chans
       THEN /\ closed' = closed \cup {watch.ev}
            /\ panicked' = IF watch.ev \in closed THEN "closedTwice" ELSE panicked
       ELSE panicked' = "noChannel" /\ UNCHANGED closed
    /\ watch' = [watch EXCEPT !.pc = "cancel"]
    /\ UNCHANGED <<flowVars, regOn, runtime, hdlVars, gen, alive, exits, chans, downVars, fatal, stale,
                   bounds>>

WatcherCancelFlows ==
    /\ watch.pc = "cancel"
    /\ CancelFlows(watch.err)
    /\ overtaken' = (overtaken \/ (~canceled /\ \E r \in Resetters : rpc[r] = "clearGates"))
    /\ watch' = [watch EXCEPT !.pc = "idle"]
    /\ UNCHANGED <<partyVars, hdlVars, procVars, downVars, fatal, stale, panicked, bounds>>
------------------------------------------------------------------------------
(* HandleReset and HandleShutdown, the shutdown sequence they share, and the *)
(* Clear that SandboxContext.Reset runs after the mutex is released.         *)

BeginReset(r) ==
    /\ rpc[r] = "idle" /\ pc # "new" /\ resets < MaxResets
    /\ resets' = resets + 1
    /\ CancelFlows("reset")
    /\ rpc' = [rpc EXCEPT ![r] = "lock"] /\ kind' = [kind EXCEPT ![r] = "reset"]
    /\ UNCHANGED <<overtaken, partyVars, hdlVars, procVars, watch, shuttingDown, awaiting, fatal, stale,
                   panicked, invokes, crashes>>

\* Server.Invoke shuts the sandbox down when it learns that init has failed.
BeginShutdown(r) ==
    /\ rpc[r] = "idle" /\ pc = "idle" /\ op = "init" /\ res # "ok" /\ resets < MaxResets
    /\ resets' = resets + 1
    /\ rpc' = [rpc EXCEPT ![r] = "lock"] /\ kind' = [kind EXCEPT ![r] = "shutdown"]
    /\ UNCHANGED <<flowVars, partyVars, hdlVars, procVars, watch, shuttingDown, awaiting,
                   fatal, stale, panicked, invokes, crashes>>

ShutdownBegin(r) ==
    /\ rpc[r] = "lock" /\ MutexFree
    /\ shuttingDown' = TRUE
    /\ fatal' = "none"
    /\ rpc' = [rpc EXCEPT ![r] = IF CountAgents = 0 THEN "killRuntime" ELSE "termRuntime"]
    /\ UNCHANGED <<flowVars, partyVars, hdlVars, procVars, watch, kind, awaiting, stale,
                   panicked, bounds>>

Kill(ps) ==
    /\ alive' = alive \ ps
    /\ exits' = exits \cup (ps \cap alive)

\* SIGKILL, or SIGTERM and SIGKILL at the deadline: the runtime is gone after it.
ShutdownRuntime(r) ==
    /\ rpc[r] \in {"killRuntime", "termRuntime"}
    /\ Kill({<<Rt, gen>>} \cap chans)
    /\ rpc' = [rpc EXCEPT ![r] = IF @ = "killRuntime" THEN "waitExits" ELSE "agents"]
    /\ UNCHANGED <<flowVars, partyVars, hdlVars, gen, chans, closed, watch, kind, shuttingDown,
                   awaiting, fatal, stale, panicked, bounds>>

\* mutant: an extension that has not registered yet is not shut down
LaunchedAndRegistered ==
    {a \in ExtAgents : agent[a].state \notin {"none", "Started"} /\ <<a, gen>> \in chans}

Launched == {a \in ExtAgents : agent[a].state # "none" /\ <<a, gen>> \in chans}

\* Agents that asked for SHUTDOWN get the event, the others are killed.
ShutdownAgents(r) ==
    /\ rpc[r] = "agents"
    /\ awaiting' = Launched \cap Subscribed("SHUTDOWN")
    /\ agent' = Release(awaiting')
    /\ Kill({<<a, gen>> : a \in Launched \ awaiting'})
    /\ rpc' = [rpc EXCEPT ![r] = "agentsDeadline"]
    /\ UNCHANGED <<flowVars, regOn, runtime, hdlVars, gen, chans, closed, watch, kind,
                   shuttingDown, fatal, stale, panicked, bounds>>

\* The agents' deadline: those that have not exited are killed.
ShutdownAgentsDeadline(r) ==
    /\ rpc[r] = "agentsDeadline"
    /\ Kill({<<a, gen>> : a \in awaiting})
    /\ rpc' = [rpc EXCEPT ![r] = "waitExits"]
    /\ UNCHANGED <<flowVars, partyVars, hdlVars, gen, chans, closed, watch, kind,
                   shuttingDown, awaiting, fatal, stale, panicked, bounds>>

\* clearExitedChannel, and the end of handleReset or handleShutdown.  A process nobody
\* has killed runs into maxProcessExitWait; with SlowExits a killed one may as well.
ClearExitedChannel(r) ==
    /\ rpc[r] = "waitExits"
    /\ \/ chans \subseteq closed /\ chans' = {} /\ closed' = {}
       \/ /\ ~(chans \subseteq closed) /\ (SlowExits \/ alive \cap chans # {})
          /\ UNCHANGED <<chans, closed>>
    /\ shuttingDown' = FALSE
    /\ gen' = IF kind[r] = "reset" THEN gen + 1 ELSE gen
    /\ rpc' = [rpc EXCEPT ![r] = IF kind[r] = "reset" THEN "clear" ELSE "idle"]
    /\ UNCHANGED <<flowVars, partyVars, hdlVars, alive, exits, watch, kind, awaiting, fatal,
                   stale, panicked, bounds>>

\* What registrationService.Clear() forgets; it also re-arms CancelFlows.
RegistrationsCleared(r) ==
    /\ rpc[r] = "clear"
    /\ fatal' = "none"
    /\ runtime' = NilRuntime /\ agent' = [a \in Agents |-> NoAgent]
    /\ regOn' = TRUE /\ canceled' = FALSE /\ overtaken' = FALSE
    /\ stale' = IF StaleHandlers /\ runtime.sending THEN stale + 1 ELSE stale
    /\ rpc' = [rpc EXCEPT ![r] = "clearGates"]
    /\ UNCHANGED <<gate, pc, op, todo, res, procVars, watch, kind, shuttingDown, awaiting,
                   panicked, bounds>>

\* mutant: the next invoke believes that init is done
ClearKeepsInitDone(r) == RegistrationsCleared(r) /\ UNCHANGED initDone

\* reinitialize up to registrationService.Clear() ...
ClearRegistrations(r) == RegistrationsCleared(r) /\ initDone' = FALSE

\* ... and the clearing of both flows' gates.
ClearGates(r) ==
    /\ rpc[r] = "clearGates"
    /\ gate' = [g \in GateNames |-> Clear(gate[g])]
    /\ rpc' = [rpc EXCEPT ![r] = "idle"]
    /\ UNCHANGED <<canceled, overtaken, partyVars, hdlVars, procVars, watch, kind, shuttingDown, awaiting,
                   fatal, stale, panicked, bounds>>
------------------------------------------------------------------------------
Handler ==
    \/ HandleInit \/ AwaitExternalAgentsRegistered
    \/ \E a \in ExtAgents : LaunchExtension(a) \/ ExtensionChannel(a)
    \/ LaunchRuntime \/ RuntimeChannel \/ AwaitRuntimeRestoreReady \/ InitAwaitAgentsReady
    \/ ReleaseParties \/ AwaitRuntimeResponse \/ AwaitRuntimeReady \/ InvokeAwaitAgentsReady

Watcher == (\E p \in exits : WatchEvent(p)) \/ HandleProcessExit \/ WatcherCancelFlows

Resetter(r) ==
    \/ ShutdownBegin(r) \/ ShutdownRuntime(r) \/ ShutdownAgents(r)
    \/ ShutdownAgentsDeadline(r) \/ ClearExitedChannel(r) \/ ClearRegistrations(r)
    \/ ClearGates(r)

\* What the HTTP server does without waiting for anybody.
Resume ==
    \/ RuntimeResume \/ RuntimeResponseSent \/ StaleResponseSent
    \/ \E a \in Agents : AgentResume(a)

\* What only a well-behaved runtime or extension does.
Cooperate ==
    \/ RuntimeNext \/ RuntimeRespond
    \/ \E a \in Agents : RegisterExternal(a) \/ RegisterInternal(a) \/ AgentNext(a)

Misbehave ==
    \/ RuntimeInitError \/ RuntimeRespondRefused
    \/ \E a \in Agents : AgentError(a)
    \/ \E p \in alive : ProcessExit(p)

Next ==
    /\ panicked = "no"
    /\ \/ Handler \/ HandleInvoke \/ Watcher \/ Resume \/ Cooperate \/ Misbehave
       \/ \E r \in Resetters : BeginReset(r) \/ BeginShutdown(r) \/ Resetter(r)

Spec == Init /\ [][Next]_vars

\* Goroutines that are not blocked run; nobody has to call the server, and a
\* function may hang.
Running(A) == panicked = "no" /\ A

Fairness ==
    /\ WF_vars(Running(Handler))
    /\ WF_vars(Running(Watcher))
    /\ WF_vars(Running(Resume))
    /\ \A r \in Resetters : WF_vars(Running(Resetter(r)))

FairSpec == Spec /\ Fairness

\* A runtime and extensions that keep calling /next and answer every event.
Cooperation ==
    /\ WF_vars(Running(RuntimeNext)) /\ WF_vars(Running(RuntimeRespond))
    /\ \A a \in Agents : /\ WF_vars(Running(RegisterExternal(a)))
                         /\ WF_vars(Running(AgentNext(a)))
------------------------------------------------------------------------------
(* Properties *)

HandlerPlaces == {"new", "idle", "extensions", "extChannel", "runtime", "rtChannel",
                  "awaitRuntime", "awaitAgents", "barriers", "awaitResponse", "awaitReady",
                  "awaitInvokeAgents"}
ResetPlaces == {"idle", "lock", "killRuntime", "termRuntime", "agents", "agentsDeadline",
                "waitExits", "clear", "clearGates"}
ProcIds == Procs \X Nat
Results == CancelErrors \cup {"none", "ok", "ErrGateCanceled", "ErrGateIntegrity",
              "ErrAgentNameCollision", "ErrRegistrationServiceOff", "ErrTooManyExtensions",
              "ExecFailed"}
FatalErrors == {"none", "AgentLaunchError", "InvalidEntrypoint", "AgentInitError",
                "AgentExitError", "RuntimeExit", "AgentCrash"}
Panics == {"no", "noChannel", "channelExists", "closedTwice", "nilRuntime"}

RuntimeRec == [state : RuntimeStates, flag : BOOLEAN, waiting : BOOLEAN, sending : BOOLEAN,
               gen : Nat]
AgentRec   == [state : AgentStates, flag : BOOLEAN, waiting : BOOLEAN,
               subs : SUBSET {"INVOKE", "SHUTDOWN"}, gen : Nat]

FlowType    == gate \in [GateNames -> Gate] /\ canceled \in BOOLEAN /\ overtaken \in BOOLEAN
RuntimeType == regOn \in BOOLEAN /\ runtime \in RuntimeRec
AgentType   == /\ agent \in [Agents -> AgentRec]
               /\ \A a \in IntAgents : agent[a].subs \subseteq {"INVOKE"}
HandlerType == /\ pc \in HandlerPlaces /\ op \in {"init", "invoke"}
               /\ todo \subseteq ExtAgents /\ res \in Results /\ initDone \in BOOLEAN
ProcType    == /\ gen \in Nat
               /\ alive \subseteq ProcIds /\ exits \subseteq ProcIds
               /\ chans \subseteq ProcIds /\ closed \subseteq ProcIds
               /\ watch \in [pc : {"idle", "exit", "cancel"}, ev : ProcIds, err : CancelErrors]
DownType    == /\ rpc \in [Resetters -> ResetPlaces]
               /\ kind \in [Resetters -> {"reset", "shutdown"}]
               /\ shuttingDown \in BOOLEAN /\ awaiting \subseteq ExtAgents
RestType    == /\ fatal \in FatalErrors /\ panicked \in Panics /\ stale \in Nat
               /\ invokes \in Nat /\ resets \in Nat /\ crashes \in Nat

\* Type correctness of the whole state; internal extensions never get SHUTDOWN.
TypeOK == /\ FlowType /\ RuntimeType /\ AgentType /\ HandlerType /\ ProcType /\ DownType
          /\ RestType

\* No gate is passed by more parties than it expects, whatever resets, cancels
\* and late arrivals do to its count (gates.go).
GatesSound == \A g \in GateNames : Sound(gate[g])

\* SetAgentsReadyCount is never refused: nobody is at the agents' gates beyond
\* the agents that are registered (handlers.go, doRuntimeDomainInit and doInvoke).
CountsAccepted == res # "ErrGateIntegrity"

\* A finished init means that the runtime asked for work and that each registered
\* extension did, none of them having failed on the way (doRuntimeDomainInit).
InitDoneMeansReady ==
    initDone => /\ runtime.state \notin {"nil", "Started", "InitError"}
                /\ \A a \in Registered :
                      agent[a].state \notin {"Started", "Registered", "InitError", "LaunchError"}

\* An invoke succeeds only when the runtime has answered and is back at /next, as
\* is every extension that was given the event (doInvoke).
InvokeOkMeansReady ==
    [][(op = "invoke" /\ pc # "idle" /\ pc' = "idle" /\ res' = "ok")
         => /\ runtime.state = "Ready"
            /\ \A a \in Subscribed("INVOKE") : agent[a].state \in {"Ready", "ExitError"}]_vars

\* The runtime is woken only by an invoke that waits for it, or, too late, by one
\* that was canceled: no event is delivered twice (ManagedThread.SuspendUnsafe).
EventOnlyWhenInvoked ==
    [][(runtime.state # "Running" /\ runtime'.state = "Running")
         => (op = "invoke" /\ pc = "awaitResponse") \/ canceled]_vars

\* cancelOnce and the gates agree when no reset is under way: once CancelFlows has been
\* used up, whoever waits at a gate or comes to one is turned away.  Otherwise a later
\* reset, whose CancelFlows does nothing, could not stop the handler.  The one exception
\* is the watcher whose CancelFlows falls between the two halves of a reset's Clear
\* (registrations.go, CancelFlows and Clear; flow.go, Clear; handlers.go, watchEvents).
CancelSticks ==
    canceled /\ ~overtaken /\ (\A r \in Resetters : rpc[r] = "idle")
        => \A g \in GateNames : gate[g].canceled

\* A handler whose flow was canceled never reports success, at whichever gate it stood
\* and whoever canceled, unless a reset cleared the gates after the watcher's CancelFlows
\* (doInvoke, doRuntimeDomainInit, AwaitGateCondition).
CanceledNeverOk ==
    [][(canceled /\ ~overtaken /\ pc # "idle" /\ pc' = "idle") => res' # "ok"]_vars

\* A handler that fails because a process of its own generation died finds the reason
\* in the first fatal error (watchEvents and newInvokeFailureMsg; a process an earlier
\* generation left behind is another matter).
CrashReported ==
    [][(pc # "idle" /\ pc' = "idle" /\ res' = "exit" /\ watch.ev[2] = gen)
         => fatal # "none"]_vars

\* A reset leaves no process of the generation it ends (shutdown).
ResetKillsGeneration ==
    \A r \in Resetters : rpc[r] = "clear" => \A p \in alive : p[2] # gen - 1

\* doInvoke and handleInvoke never find the runtime gone.
NoNilRuntime == panicked # "nilRuntime"

\* The sandbox as its callers see it.
SB == INSTANCE Sandbox WITH
        holder  <- IF panicked # "no" THEN "dead"
                   ELSE IF pc \notin {"new", "idle"} THEN op
                   ELSE IF \E r \in Resetters : InReset(r) THEN "reset" ELSE "none",
        cancel  <- IF canceled /\ gate["initRuntime"].canceled THEN gate["initRuntime"].err
                                                              ELSE "no",
        outcome <- IF res \in {"none", "ok", "reset"} THEN res ELSE "fail"

\* The handlers, the resets and the watcher together keep what Sandbox promises: one
\* operation at a time, no success and no wrong cause once the flows are canceled, and
\* no re-arming under a running handler (handlers.go, sandbox_api.go).
ImplementsSandbox == SB!SandboxSpec

\* A canceled handler returns even if runtime and extensions never call again: all it
\* may wait for are the gates that CancelFlows opens.
CanceledHandlerReturns == SB!CanceledReturns

\* An exit event always finds the channel that "should have been created just
\* after it was execed" (handleProcessExit panics otherwise).
ExitFindsChannel == panicked # "noChannel"

\* An invoke that has to initialise the sandbox finds it fresh: the flows are ready
\* for a new init and the extensions' names are free (server.go, Invoke: the "following
\* fast invoke will start new (supressed) Init phase without reset call").
InlineInitStartsFresh ==
    [][(invokes' # invokes /\ ~initDone) => ~canceled /\ Registered = {}]_vars

\* A reset comes to its end, unless the program does: it cancels whatever holds the
\* mutex and kills whatever it then waits for.  The exception is the reset that finds
\* cancelOnce used up by a watcher an earlier reset has overtaken (HandleReset, shutdown).
ResetCompletes ==
    \A r \in Resetters :
        rpc[r] # "idle" ~> rpc[r] = "idle" \/ overtaken \/ panicked # "no"

\* A party reported an error and did not exit, or its answer was refused.
Failed ==
    \/ runtime.state = "InitError" \/ (runtime.state = "Response" /\ ~runtime.sending)
    \/ \E a \in Agents : agent[a].state \in {"InitError", "ExitError"}

\* The init waits for more agents than can still come: the gate, with the count of the
\* last init, has refused one of them before its count was set.
TurnedAway ==
    /\ pc = "awaitAgents"
    /\ gate["initAgents"].arrived <
          Cardinality({a \in Registered : agent[a].state \in {"Ready", "Running"}})

\* Each init and invoke returns when the runtime and the extensions, internal ones too,
\* go on calling the Runtime API, also when they crash or are reset.  Two things prevent
\* it: an extension that was turned away, and a crash whose CancelFlows does nothing
\* since a reset has overtaken the last one (doRuntimeDomainInit, doInvoke).
HandlerReturns ==
    Cooperation =>
        (pc # "idle" ~> pc = "idle" \/ Failed \/ TurnedAway \/ overtaken \/ panicked # "no")

\* HandleReset's comment without an exception: CancelFlows ends whatever holds the mutex
\* (sandbox.go).
ResetAlwaysCompletes ==
    \A r \in Resetters : rpc[r] # "idle" ~> rpc[r] = "idle" \/ panicked # "no"

\* The init's gate counts every extension that becomes ready, whenever it does
\* (handlers.go, doRuntimeDomainInit).
InitCountsEveryAgent == Cooperation => (pc = "awaitAgents" ~> pc # "awaitAgents" \/ Failed)
==============================================================================
