--------------------------- MODULE ManagedInstance ---------------------------
(***************************************************************************)
(* The life of a managed instance (internal/lambda-managed-instances):     *)
(* the application of raptor, the init and shutdown of rapid, the          *)
(* registration service and state machines of core, the extension handlers *)
(* of rapi, the local supervisor, and the main program and HTTP server of  *)
(* aws-lambda-rie around them.                                             *)
(*                                                                         *)
(* The goroutines are: the init, the shutdown with one helper for each     *)
(* extension, the watcher of process exits, the termination monitor, the   *)
(* HTTP server, an invoke.  A step ends where the code takes a lock, uses  *)
(* a channel or waits.  The processes (runtime and extensions) do what     *)
(* they like: they register or not, report errors, exit, ignore SIGTERM.   *)
(***************************************************************************)
EXTENDS Naturals, FiniteSets

CONSTANTS
    Agents,           \* external extensions: files that may be in /opt/extensions
    Internals,        \* names under which a process may register an internal extension
    MaxAgentsAllowed, \* core.MaxAgentsAllowed
    MaxAgentsLimit,   \* core.maxAgentsLimit, the count of a gate that has none yet
    Signals,          \* whether SIGTERM or SIGINT may arrive
    Invokes,          \* whether an invoke may arrive
    MaxFaults         \* failures: launches, sockets, unasked exits, kills that time out

ASSUME InstanceAssumption ==
    /\ IsFiniteSet(Agents) /\ IsFiniteSet(Internals) /\ Agents \cap Internals = {}
    /\ "runtime" \notin Agents \cup Internals
    /\ MaxAgentsAllowed \in Nat /\ MaxFaults \in Nat /\ Signals \in BOOLEAN /\ Invokes \in BOOLEAN
    /\ MaxAgentsLimit \in Nat /\ MaxAgentsLimit > Cardinality(Agents \cup Internals)

Procs   == Agents \cup {"runtime"}
Parties == Agents \cup Internals
nil     == "nil"

VARIABLES
    state,        \* StateGuard of the App
    appErr,       \* App.err
    init,         \* the goroutine in App.Init: pc, extensions to launch, the one launched, result
    down,         \* the goroutine in App.Shutdown: pc, whether there are extensions and which
                  \* external ones, errors, the channels it waits for, and for the properties the
                  \* processes that had a channel when it looked and those it killed too late
    stop,         \* its helper for each extension
    gate,         \* InitFlowSynchronization
    service,      \* registrationService: state, cancelOnce, runtime
    agent,        \* state machines of the extensions
    readyOnce,    \* runtimeReadyOnce of the /next handler
    proc,         \* processes: life, exited channel, exit code
    watcher,      \* watchEvents: pc, process, error, and whether the monitor missed it
    shuttingDown, \* shutdownContext.shuttingDown
    awaitingExit, \* shutdownContext.agentsAwaitingExit
    fatal,        \* first fatal error of the application context
    monitor,      \* StartProcessTerminationMonitor
    rapi,         \* the Runtime API server
    server,       \* raptor.Server in front
    invoke,       \* one call of App.Invoke
    faults

coreVars == <<gate, service, agent, readyOnce>>
downVars == <<down, stop, awaitingExit>>
appVars  == <<state, appErr>>
vars == <<appVars, init, downVars, coreVars, proc, watcher, shuttingDown, fatal, monitor, rapi,
          server, invoke, faults>>

-----------------------------------------------------------------------------
(* State. *)

Statuses    == {"Idle", "Initializing", "Initialized", "ShuttingDown", "Shutdown"}
AgentStates == {"absent", "Started", "Registered", "Ready", "Running", "InitError", "ExitError",
                "ShutdownFailed", "Exited", "LaunchError"}

\* The runtime: nil before PreregisterRuntime.  (Nothing calls its Ready.)
RuntimeStates == {nil, "Started", "InitError"}

\* Errors by origin: what a launch, a process or a party did, the platform, a gate that was
\* canceled or timed out, a request in the wrong state, a shutdown from outside.
Fatals == {"launch", "tooMany", "crash", "reported"}
Errors == Fatals \cup {nil, "platform", "gate", "timeout", "client", "count", "shutdown"}

InitSteps == {"none", "launch", "channel", "runtime", "runtimeChannel", "awaitRuntime",
              "turnOff", "setCount", "awaitReady", "ready", "failed", "returned"}
DownSteps == {"none", "awaitInvokes", "runtime", "awaitRuntime", "killRuntime", "flush", "hangs",
              "agents", "awaitAgents", "awaitAll", "finish", "done"}

Gate == [count : Nat, arrived : Nat, canceled : BOOLEAN, err : {nil, "crash", "timeout"}]

\* suspended: a /next waits; released: it may go on; asked: there was one (for the properties).
AgentRecs == [state : AgentStates, subscribed : BOOLEAN, released : BOOLEAN, suspended : BOOLEAN,
              asked : BOOLEAN]

\* Internal extensions cannot subscribe to SHUTDOWN and have no process of their own to end.
InternalRecs ==
    {r \in AgentRecs : /\ ~r.subscribed /\ ~r.released
                       /\ r.state \in {"absent", "Registered", "Ready", "InitError", "ExitError"}}

ServiceRecs == [on : BOOLEAN, canceled : BOOLEAN, runtime : RuntimeStates]

\* life: "stray" runs and nobody waits for it, "killed" was sent SIGKILL, "dead" has
\* terminated, "gone" has been reported.
ProcRecs == [life : {"none", "alive", "stray", "killed", "dead", "gone"},
             exited : {"none", "open", "closed"}, zero : BOOLEAN]

TypeOK ==
    /\ state \in Statuses /\ appErr \in Errors
    /\ init \in [pc : InitSteps, todo : SUBSET Agents, cur : Agents \cup {nil}, err : Errors]
    /\ down \in [pc : DownSteps, graceful : BOOLEAN, agents : SUBSET Agents, failed : BOOLEAN,
                 wait : SUBSET Procs, seen : SUBSET Procs, late : SUBSET Agents]
    /\ stop \in [Agents -> {"none", "waiting", "kill", "killing", "done"}]
    /\ gate \in [registered : Gate, runtime : Gate, ready : Gate]
    /\ service \in ServiceRecs
    /\ agent \in [Parties -> AgentRecs] /\ \A a \in Internals : agent[a] \in InternalRecs
    /\ readyOnce \in BOOLEAN
    /\ proc \in [Procs -> ProcRecs]
    /\ watcher \in [pc : {"off", "idle", "check", "crash", "exit"},
                    p : Procs \cup {nil}, err : {nil, "crash"}, missed : BOOLEAN]
    /\ shuttingDown \in BOOLEAN /\ awaitingExit \in SUBSET Agents
    /\ fatal \in Fatals \cup {nil}
    /\ monitor \in {"waiting", "notified", "gone"}
    /\ rapi \in {"up", "closed"}
    /\ server \in {"up", "stopping", "closed"}
    /\ invoke \in {"none", "checked", "running", "aborted", "body", "answered", "failed", "refused"}
    /\ faults \in 0 .. MaxFaults

\* NewGate.
NewGate(n) == [count |-> n, arrived |-> 0, canceled |-> FALSE, err |-> nil]

\* NewInitFlowSynchronization.
NewInitFlow == [registered |-> NewGate(0), runtime |-> NewGate(1), ready |-> NewGate(MaxAgentsLimit)]

\* newShutdownContext.
NewShutdown == [pc |-> "none", graceful |-> FALSE, agents |-> {}, failed |-> FALSE,
                wait |-> {}, seen |-> {}, late |-> {}]

\* An agent that is not in the maps, and what NewExternalAgent and NewInternalAgent set up.
NoAgent == [state |-> "absent", subscribed |-> FALSE, released |-> FALSE, suspended |-> FALSE,
            asked |-> FALSE]
NewAgent(s) == [NoAgent EXCEPT !.state = s]

\* StartApp: the application is idle and the monitor goroutine has been started.
StartApp == state = "Idle" /\ appErr = nil /\ monitor = "waiting"

\* With rapid.Start: everything is there but no process.
Init ==
    /\ StartApp
    /\ init = [pc |-> "none", todo |-> {}, cur |-> nil, err |-> nil]
    /\ down = NewShutdown /\ stop = [a \in Agents |-> "none"] /\ awaitingExit = {}
    /\ gate = NewInitFlow
    /\ service = [on |-> TRUE, canceled |-> FALSE, runtime |-> nil]
    /\ agent = [a \in Parties |-> NoAgent]
    /\ readyOnce = FALSE
    /\ proc = [p \in Procs |-> [life |-> "none", exited |-> "none", zero |-> FALSE]]
    /\ watcher = [pc |-> "off", p |-> nil, err |-> nil, missed |-> FALSE]
    /\ shuttingDown = FALSE /\ fatal = nil
    /\ rapi = "up" /\ server = "up"
    /\ invoke = "none" /\ faults = 0

-----------------------------------------------------------------------------
(* Gates, state guard, application context. *)

WalkThrough(g) == IF g.arrived = g.count THEN g ELSE [g EXCEPT !.arrived = @ + 1]

CountOK(g, n) == n <= MaxAgentsLimit /\ n >= g.arrived

CancelWithError(g, e) == [g EXCEPT !.canceled = TRUE, !.err = e]

\* awaitGateCondition goes on.
Passable(g) == g.arrived = g.count \/ g.canceled

\* isValidTransition (nothing asks for a transition to Idle).
ValidTransition(from, to) ==
    \/ to = "Initializing" /\ from = "Idle"
    \/ to = "Initialized" /\ from = "Initializing"
    \/ to = "ShuttingDown" /\ from \in {"Idle", "Initializing", "Initialized"}
    \/ to = "Shutdown" /\ from = "ShuttingDown"

\* StoreFirstFatalError.
FirstFatal(e) == fatal' = IF fatal = nil THEN e ELSE fatal

\* resolveGateError: the first fatal error hides what the gate says.
ResolveGateError(e) == IF fatal # nil THEN fatal ELSE IF e = "timeout" THEN "timeout" ELSE "gate"

\* The agents of the registration service: both maps.
Registered == {a \in Parties : agent[a].state # "absent"}
External   == Registered \cap Agents

CountAgents == Cardinality(Registered)

Alive(p) == proc[p].life \in {"alive", "stray"}

-----------------------------------------------------------------------------
(* App.Init with handleInit of rapid. *)

\* App.Init, handleInit, and doInitExtensions up to its loop: events watcher, the extensions
\* found, expected count.
StartInit(found) ==
    /\ init.pc = "none"
    /\ IF ValidTransition(state, "Initializing")
       THEN /\ state' = "Initializing"
            /\ watcher' = [watcher EXCEPT !.pc = "idle"]
            /\ gate' = [gate EXCEPT !.registered.count = Cardinality(found)]
            /\ init' = [init EXCEPT !.pc = "launch", !.todo = found]
       ELSE /\ init' = [init EXCEPT !.pc = "returned", !.err = "client"]
            /\ UNCHANGED <<state, watcher, gate>>
    /\ UNCHANGED <<appErr, downVars, service, agent, readyOnce, proc, shuttingDown, fatal, monitor,
                   rapi, server, invoke>>

\* An init that returns an error.
Fails(e) == init' = [init EXCEPT !.pc = "failed", !.err = e]

\* ProcessSupervisor.Exec: the process runs and a goroutine waits for it.
Exec(p) == proc' = [proc EXCEPT ![p].life = "alive"]

\* CreateExternalAgent, with the state the agent is left in.  The service is on during the
\* launches ...
CreateExternalAgent(a, s) == agent' = [agent EXCEPT ![a] = NewAgent(s)]

\* ... but an extension launched before may have registered an internal one under the name.
NameCollision(a) ==
    /\ init.pc = "launch" /\ a \in init.todo
    /\ \E i \in Internals : agent[i].state # "absent"
    /\ Fails("platform")
    /\ UNCHANGED <<appVars, downVars, coreVars, proc, watcher, shuttingDown, fatal, monitor, rapi,
                   server, invoke>>

\* One round of the loop of doInitExtensions: CreateExternalAgent, the limit, Exec ...
LaunchAgent(a) ==
    /\ init.pc = "launch" /\ a \in init.todo
    /\ IF CountAgents + 1 > MaxAgentsAllowed
       THEN /\ CreateExternalAgent(a, "LaunchError")
            /\ FirstFatal("tooMany") /\ Fails("tooMany")
            /\ UNCHANGED proc
       ELSE /\ CreateExternalAgent(a, "Started")
            /\ Exec(a)
            /\ init' = [init EXCEPT !.pc = "channel", !.todo = @ \ {a}, !.cur = a]
            /\ UNCHANGED fatal
    /\ UNCHANGED <<appVars, downVars, gate, service, readyOnce, watcher, shuttingDown, monitor,
                   rapi, server, invoke>>

\* Exec fails: the program cannot be started, or it runs but its priority cannot be set, and
\* then no goroutine waits for it.
ExecFails(p, started) ==
    proc' = IF started THEN [proc EXCEPT ![p].life = "stray"] ELSE proc

\* ... which fails, or there are no log sockets for it.
LaunchFails(a, started) ==
    /\ init.pc = "launch" /\ a \in init.todo /\ CountAgents < MaxAgentsAllowed
    /\ CreateExternalAgent(a, "LaunchError") /\ ExecFails(a, started)
    /\ FirstFatal("launch") /\ Fails("launch")
    /\ UNCHANGED <<appVars, downVars, gate, service, readyOnce, watcher, shuttingDown, monitor,
                   rapi, server, invoke>>

NoAgentSockets(a) ==
    /\ init.pc = "launch" /\ a \in init.todo /\ CountAgents < MaxAgentsAllowed
    /\ CreateExternalAgent(a, "Started") /\ Fails("platform")
    /\ UNCHANGED <<appVars, downVars, gate, service, readyOnce, proc, watcher, shuttingDown, fatal,
                   monitor, rapi, server, invoke>>

\* createExitedChannel, after Exec has returned.
CreateExitedChannel(p, then) ==
    /\ proc' = [proc EXCEPT ![p].exited = "open"]
    /\ init' = [init EXCEPT !.pc = then, !.cur = nil]
    /\ UNCHANGED <<appVars, downVars, coreVars, watcher, shuttingDown, fatal, monitor, rapi, server,
                   invoke>>

AgentLaunched   == init.pc = "channel" /\ CreateExitedChannel(init.cur, "launch")
RuntimeLaunched == init.pc = "runtimeChannel" /\ CreateExitedChannel("runtime", "awaitRuntime")

\* AwaitGateCondition: the gate opens or is canceled ...
GateOpens(g, then) ==
    /\ Passable(gate[g])
    /\ IF gate[g].canceled THEN Fails(ResolveGateError("canceled"))
                           ELSE init' = [init EXCEPT !.pc = then]
    /\ UNCHANGED gate

\* ... or the context ends, which cancels this gate; select takes either when both are ready.
GateTimesOut(g) ==
    /\ gate' = [gate EXCEPT ![g] = CancelWithError(@, "timeout")]
    /\ Fails(ResolveGateError("timeout"))

AwaitGate(pc, g, then) ==
    /\ init.pc = pc
    /\ GateOpens(g, then) \/ GateTimesOut(g)
    /\ UNCHANGED <<appVars, downVars, service, agent, readyOnce, proc, watcher, shuttingDown, fatal,
                   monitor, rapi, server, invoke>>

AwaitExternalAgentsRegistered == init.todo = {} /\ AwaitGate("launch", "registered", "runtime")
AwaitRuntimeReady             == AwaitGate("awaitRuntime", "runtime", "turnOff")
AwaitAgentsReady              == AwaitGate("awaitReady", "ready", "ready")

PreregisterRuntime == service' = [service EXCEPT !.runtime = "Started"]

\* doInitRuntime: PreregisterRuntime, the bootstrap, its sockets, Exec ...
StartRuntime ==
    /\ init.pc = "runtime"
    /\ PreregisterRuntime
    /\ Exec("runtime")
    /\ init' = [init EXCEPT !.pc = "runtimeChannel"]
    /\ UNCHANGED <<appVars, downVars, gate, agent, readyOnce, watcher, shuttingDown, fatal, monitor,
                   rapi, server, invoke>>

\* ... where the entry point, the working directory or Exec may be bad, or the sockets missing.
RuntimeFails(started) ==
    /\ init.pc = "runtime"
    /\ PreregisterRuntime /\ ExecFails("runtime", started)
    /\ FirstFatal("launch") /\ Fails("launch")
    /\ UNCHANGED <<appVars, downVars, gate, agent, readyOnce, watcher, shuttingDown, monitor, rapi,
                   server, invoke>>

NoRuntimeSockets ==
    /\ init.pc = "runtime"
    /\ PreregisterRuntime /\ Fails("platform")
    /\ UNCHANGED <<appVars, downVars, gate, agent, readyOnce, proc, watcher, shuttingDown, fatal,
                   monitor, rapi, server, invoke>>

\* mutant: an extension may still register after the count was taken
NoTurnOff ==
    /\ init.pc = "turnOff"
    /\ init' = [init EXCEPT !.pc = "setCount"]
    /\ UNCHANGED <<appVars, downVars, coreVars, proc, watcher, shuttingDown, fatal,
                   monitor, rapi, server, invoke>>

\* waitExtensionsToBeReady: registration ends, then those registered are counted.
TurnOff ==
    /\ init.pc = "turnOff"
    /\ service' = [service EXCEPT !.on = FALSE]
    /\ init' = [init EXCEPT !.pc = "setCount"]
    /\ UNCHANGED <<appVars, downVars, gate, agent, readyOnce, proc, watcher, shuttingDown, fatal,
                   monitor, rapi, server, invoke>>

SetAgentsReadyCount ==
    /\ init.pc = "setCount"
    /\ IF CountOK(gate.ready, CountAgents)
       THEN /\ gate' = [gate EXCEPT !.ready.count = CountAgents]
            /\ init' = [init EXCEPT !.pc = "awaitReady"]
       ELSE /\ Fails("count") /\ UNCHANGED gate
    /\ UNCHANGED <<appVars, downVars, service, agent, readyOnce, proc, watcher, shuttingDown, fatal,
                   monitor, rapi, server, invoke>>

\* App.Init after a success: a shutdown may have begun meanwhile.
InitSucceeds ==
    /\ init.pc = "ready"
    /\ IF ValidTransition(state, "Initialized")
       THEN /\ state' = "Initialized" /\ init' = [init EXCEPT !.pc = "returned"]
       ELSE /\ init' = [init EXCEPT !.pc = "returned", !.err = "client"] /\ UNCHANGED state
    /\ UNCHANGED <<appErr, downVars, coreVars, proc, watcher, shuttingDown, fatal, monitor, rapi,
                   server, invoke>>

\* App.Init after an error: it returns when some shutdown has begun, its own or another.
InitReturns ==
    /\ init.pc = "failed" /\ state \in {"ShuttingDown", "Shutdown"}
    /\ init' = [init EXCEPT !.pc = "returned"]
    /\ UNCHANGED <<appVars, downVars, coreVars, proc, watcher, shuttingDown, fatal, monitor, rapi,
                   server, invoke>>

InitStep ==
    \/ (\E found \in SUBSET Agents : StartInit(found))
    \/ AgentLaunched \/ RuntimeLaunched
    \/ (\E a \in Agents : LaunchAgent(a)) \/ StartRuntime
    \/ AwaitExternalAgentsRegistered \/ AwaitRuntimeReady \/ AwaitAgentsReady
    \/ TurnOff \/ SetAgentsReadyCount \/ InitSucceeds \/ InitReturns

-----------------------------------------------------------------------------
(* What the processes do: the extension and runtime API, exits. *)

Speaks(a) == rapi = "up" /\ IF a \in Agents THEN Alive(a) ELSE \E p \in Procs : Alive(p)

\* ExternalAgentStartedState.Register; SHUTDOWN is the only event.
Register(a, subscribed) ==
    /\ agent[a].state = "Started"
    /\ agent' = [agent EXCEPT ![a].state = "Registered", ![a].subscribed = subscribed]
    /\ gate' = [gate EXCEPT !.registered = WalkThrough(@)]

\* registerExternalAgent.
RegisterExternalAgent(a, subscribed) ==
    /\ Speaks(a) /\ Register(a, subscribed)
    /\ UNCHANGED <<appVars, init, downVars, service, readyOnce, proc, watcher, shuttingDown, fatal,
                   monitor, rapi, server, invoke>>

\* CreateInternalAgent: while the service is on, up to the limit, under a name of its own.
CreateInternalAgent(a) ==
    /\ service.on /\ CountAgents < MaxAgentsAllowed /\ agent[a].state = "absent"
    /\ agent' = [agent EXCEPT ![a] = NewAgent("Registered")]

\* registerInternalAgent: any process may ask.
RegisterInternalAgent(a) ==
    /\ Speaks(a)
    /\ CreateInternalAgent(a)
    /\ UNCHANGED <<appVars, init, downVars, gate, service, readyOnce, proc, watcher, shuttingDown,
                   fatal, monitor, rapi, server, invoke>>

\* SuspendUnsafe has returned: the state must still be the one it waited in.
Resumed(r) == [r EXCEPT !.released = FALSE, !.suspended = FALSE,
                        !.state = IF @ = "Ready" THEN "Running" ELSE @]

\* Ready of the registered and the running state: it waits for a release, unless there was one.
Ready(r) == LET s == [r EXCEPT !.state = "Ready", !.asked = TRUE, !.suspended = TRUE]
            IN  IF s.released THEN Resumed(s) ELSE s

\* agentNextHandler.  Only the first one is counted.
AgentNext(a) ==
    /\ Speaks(a) /\ agent[a].state \in {"Registered", "Running"}
    /\ gate' = IF agent[a].state = "Registered" THEN [gate EXCEPT !.ready = WalkThrough(@)] ELSE gate
    /\ agent' = [agent EXCEPT ![a] = Ready(@)]
    /\ UNCHANGED <<appVars, init, downVars, service, readyOnce, proc, watcher, shuttingDown, fatal,
                   monitor, rapi, server, invoke>>

\* InitError and ExitError of the agents' state machines.
Transition(a, from, to) ==
    /\ agent[a].state \in from
    /\ agent' = [agent EXCEPT ![a].state = to]

\* agentInitErrorHandler and agentExitErrorHandler: the error is kept as the first fatal one,
\* nobody is woken.
AgentInitError(a) ==
    /\ Speaks(a) /\ Transition(a, {"Registered"}, "InitError")
    /\ FirstFatal("reported")
    /\ UNCHANGED <<appVars, init, downVars, gate, service, readyOnce, proc, watcher, shuttingDown,
                   monitor, rapi, server, invoke>>

AgentExitError(a) ==
    /\ Speaks(a) /\ Transition(a, {"Registered", "Ready", "Running"}, "ExitError")
    /\ FirstFatal("reported")
    /\ UNCHANGED <<appVars, init, downVars, gate, service, readyOnce, proc, watcher, shuttingDown,
                   monitor, rapi, server, invoke>>

\* invocationNextHandler: the first /next opens the runtime's gate, whatever its state machine.
RuntimeNext ==
    /\ rapi = "up" /\ Alive("runtime") /\ ~readyOnce
    /\ readyOnce' = TRUE
    /\ gate' = [gate EXCEPT !.runtime = WalkThrough(@)]
    /\ UNCHANGED <<appVars, init, downVars, service, agent, proc, watcher, shuttingDown, fatal,
                   monitor, rapi, server, invoke>>

\* initErrorHandler with RuntimeStartedState.InitError.
RuntimeInitError ==
    /\ rapi = "up" /\ Alive("runtime") /\ service.runtime = "Started"
    /\ service' = [service EXCEPT !.runtime = "InitError"]
    /\ FirstFatal("reported")
    /\ UNCHANGED <<appVars, init, downVars, gate, agent, readyOnce, proc, watcher, shuttingDown,
                   monitor, rapi, server, invoke>>

\* A process exits, with status zero or not ...
Exits(p, zero) ==
    /\ proc[p].life = "alive"
    /\ proc' = [proc EXCEPT ![p].life = "dead", ![p].zero = zero]
    /\ UNCHANGED <<appVars, init, downVars, coreVars, watcher, shuttingDown, fatal, monitor, rapi,
                   server, invoke>>

\* ... when it got SIGTERM or the SHUTDOWN event; any other exit is a fault.
Asked(p) == IF p = "runtime" THEN down.pc = "awaitRuntime"
                             ELSE p \in awaitingExit /\ agent[p].state = "Running"

\* A stray one does so unnoticed.
StrayExits(p) ==
    /\ proc[p].life = "stray"
    /\ proc' = [proc EXCEPT ![p].life = "none"]
    /\ UNCHANGED <<appVars, init, downVars, coreVars, watcher, shuttingDown, fatal, monitor, rapi,
                   server, invoke>>

\* SIGKILL works.
Dies(p) ==
    /\ proc[p].life = "killed"
    /\ proc' = [proc EXCEPT ![p].life = "dead"]
    /\ UNCHANGED <<appVars, init, downVars, coreVars, watcher, shuttingDown, fatal, monitor, rapi,
                   server, invoke>>

-----------------------------------------------------------------------------
(* watchEvents and the termination monitor. *)

WatcherStep(from, to) == watcher.pc = from /\ watcher' = [watcher EXCEPT !.pc = to]

\* The goroutine that waited for the process hands over the event.
TakeEvent(p) ==
    /\ watcher.pc = "idle" /\ proc[p].life = "dead"
    /\ watcher' = [watcher EXCEPT !.pc = "check", !.p = p, !.err = nil]
    /\ proc' = [proc EXCEPT ![p].life = "gone"]
    /\ UNCHANGED <<appVars, init, downVars, coreVars, shuttingDown, fatal, monitor, rapi, server,
                   invoke>>

\* processTermination: isShuttingDown ...
CheckShuttingDown ==
    /\ WatcherStep("check", IF shuttingDown THEN "exit" ELSE "crash")
    /\ UNCHANGED <<appVars, init, downVars, coreVars, proc, shuttingDown, fatal, monitor, rapi,
                   server, invoke>>

\* mutant: the fatal error is not kept
CrashUnnamed(missed) ==
    /\ watcher.pc = "crash"
    /\ watcher' = [watcher EXCEPT !.pc = "exit", !.err = "crash", !.missed = missed]
    /\ shuttingDown' = TRUE
    /\ monitor' = IF missed THEN monitor ELSE "notified"
    /\ UNCHANGED <<appVars, init, downVars, coreVars, proc, fatal, rapi, server, invoke>>

\* ... setShuttingDown, the fatal error, and the notice to the monitor, which is dropped if that
\* goroutine has not come to its receive yet ...
Crash(missed) ==
    /\ watcher.pc = "crash"
    /\ watcher' = [watcher EXCEPT !.pc = "exit", !.err = "crash", !.missed = missed]
    /\ shuttingDown' = TRUE
    /\ FirstFatal("crash")
    /\ monitor' = IF missed THEN monitor ELSE "notified"
    /\ UNCHANGED <<appVars, init, downVars, coreVars, proc, rapi, server, invoke>>

\* mutant: with the first fatal error in place of its own
CancelWithFatal ==
    /\ service' = [service EXCEPT !.canceled = TRUE]
    /\ gate' = IF service.canceled THEN gate
               ELSE [g \in DOMAIN gate |-> CancelWithError(gate[g], fatal)]

\* ... CancelFlows, which works once ...
CancelFlows ==
    /\ service' = [service EXCEPT !.canceled = TRUE]
    /\ gate' = IF service.canceled THEN gate
               ELSE [g \in DOMAIN gate |-> CancelWithError(gate[g], watcher.err)]

\* ... and handleProcessExit: an extension that was asked to stop did so, well or badly, if it
\* had received the event; the exited channel is closed if it is already there.
HandleProcessExit ==
    LET p == watcher.p IN
    /\ watcher.pc = "exit"
    /\ watcher' = [watcher EXCEPT !.pc = "idle", !.p = nil, !.err = nil]
    /\ CancelFlows
    /\ agent' = IF p \in awaitingExit /\ agent[p].state = "Running"
                THEN [agent EXCEPT ![p].state = IF proc[p].zero THEN "Exited" ELSE "ShutdownFailed"]
                ELSE agent
    /\ proc' = [proc EXCEPT ![p].exited = IF @ = "open" THEN "closed" ELSE @, ![p].zero = FALSE]
    /\ UNCHANGED <<appVars, init, downVars, readyOnce, shuttingDown, fatal, monitor, rapi, server,
                   invoke>>

WatcherSteps == \/ \E p \in Procs : TakeEvent(p)
                \/ CheckShuttingDown \/ HandleProcessExit
                \/ \E missed \in BOOLEAN : Crash(missed)

-----------------------------------------------------------------------------
(* App.Shutdown with HandleShutdown of rapid. *)

\* AbortRunningInvokes cancels the invokes; a body that is being copied does not notice.
AbortRunningInvokes == invoke' = IF invoke = "running" THEN "aborted" ELSE invoke

\* The body of shutdownOnce up to the wait for the invokes; a later caller only waits for the first.
Shutdown(reason) ==
    IF down.pc = "none"
    THEN /\ down' = [down EXCEPT !.pc = "awaitInvokes"]
         /\ state' = "ShuttingDown" /\ appErr' = reason
         /\ AbortRunningInvokes
    ELSE UNCHANGED <<down, state, appErr, invoke>>

ShutdownAfterInit ==
    /\ init.pc = "failed" /\ down.pc = "none"
    /\ Shutdown(init.err)
    /\ UNCHANGED <<init, stop, awaitingExit, coreVars, proc, watcher, shuttingDown, fatal, monitor,
                   rapi, server>>

ShutdownByMonitor ==
    /\ monitor = "notified" /\ monitor' = "gone"
    /\ Shutdown(fatal)
    /\ UNCHANGED <<init, stop, awaitingExit, coreVars, proc, watcher, shuttingDown, fatal, rapi,
                   server>>

HasChannel(p) == proc[p].exited # "none"

\* kill, before its deadline: SIGKILL to the group, unless the process has terminated.
Killed(r) == IF r.life = "alive" THEN [r EXCEPT !.life = "killed"] ELSE r

KilledAll(ps) == [p \in Procs |-> IF p \in ps THEN Killed(proc[p]) ELSE proc[p]]

\* From the kills to waitUntilAllProcessesExit, which takes the channels there are now; it is
\* left out when there was an error.
ThenAwaitAll(d) == IF d.failed THEN [d EXCEPT !.pc = "finish"]
                   ELSE [d EXCEPT !.pc = "awaitAll", !.wait = {p \in Procs : HasChannel(p)}]

\* shutdownContext.shutdown, once the invokes are over: without extensions the runtime is killed
\* at once, if it was started.
Look ==
    LET seen == [down EXCEPT !.graceful = CountAgents # 0, !.agents = External,
                             !.seen = {p \in Procs : HasChannel(p)}]
        kill == CountAgents = 0 /\ HasChannel("runtime")
    IN
    /\ down.pc = "awaitInvokes" /\ invoke \notin {"running", "aborted", "body"}
    /\ shuttingDown' = TRUE
    /\ down' = IF seen.graceful THEN [seen EXCEPT !.pc = "runtime"]
               ELSE IF kill THEN [seen EXCEPT !.pc = "killRuntime"] ELSE ThenAwaitAll(seen)
    /\ proc' = IF kill THEN KilledAll({"runtime"}) ELSE proc
    /\ UNCHANGED <<appVars, init, stop, awaitingExit, coreVars, watcher, fatal, monitor, rapi,
                   server, invoke>>

\* shutdownRuntime: SIGTERM ...
ShutdownRuntime ==
    /\ down.pc = "runtime"
    /\ down' = IF HasChannel("runtime") THEN [down EXCEPT !.pc = "awaitRuntime"]
                                        ELSE [down EXCEPT !.pc = "flush", !.failed = TRUE]
    /\ UNCHANGED <<appVars, init, stop, awaitingExit, coreVars, proc, watcher, shuttingDown, fatal,
                   monitor, rapi, server, invoke>>

\* ... and waitProcessExitedOrKill: it exits, or is killed at the deadline, for which there is
\* a second more.
AwaitRuntimeExit ==
    /\ down.pc = "awaitRuntime"
    /\ \/ /\ proc["runtime"].exited = "closed"
          /\ down' = [down EXCEPT !.pc = "flush"] /\ UNCHANGED proc
       \/ /\ proc["runtime"].exited # "closed"
          /\ down' = [down EXCEPT !.pc = "killRuntime"] /\ proc' = KilledAll({"runtime"})
    /\ UNCHANGED <<appVars, init, stop, awaitingExit, coreVars, watcher, shuttingDown, fatal,
                   monitor, rapi, server, invoke>>

\* kill waits for the termination, up to the deadline.
Terminated(p) == proc[p].life \in {"dead", "gone"}

AfterKill(failed) ==
    LET d == [down EXCEPT !.failed = failed]
    IN  down' = IF d.graceful THEN [d EXCEPT !.pc = "flush"] ELSE ThenAwaitAll(d)

RuntimeKilled ==
    /\ down.pc = "killRuntime" /\ Terminated("runtime")
    /\ AfterKill(down.failed)
    /\ UNCHANGED <<appVars, init, stop, awaitingExit, coreVars, proc, watcher, shuttingDown, fatal,
                   monitor, rapi, server, invoke>>

KillRuntimeTimesOut ==
    /\ down.pc = "killRuntime" /\ ~Terminated("runtime")
    /\ AfterKill(TRUE)
    /\ UNCHANGED <<appVars, init, stop, awaitingExit, coreVars, proc, watcher, shuttingDown, fatal,
                   monitor, rapi, server, invoke>>

\* eventsAPI.Flush, between runtime and extensions: it returns, or finds the relay locked by a
\* broadcast that never ends (Telemetry.tla).
Flush(then) ==
    /\ down.pc = "flush"
    /\ down' = [down EXCEPT !.pc = then]
    /\ UNCHANGED <<appVars, init, stop, awaitingExit, coreVars, proc, watcher, shuttingDown, fatal,
                   monitor, rapi, server, invoke>>

\* mutant: extensions without a subscription are left alone
ShutdownSubscribed ==
    LET told == {a \in down.agents : HasChannel(a) /\ agent[a].subscribed} IN
    /\ down.pc = "agents"
    /\ down' = [down EXCEPT !.pc = "awaitAgents", !.agents = {}]
    /\ awaitingExit' = awaitingExit \cup told
    /\ stop' = [a \in Agents |-> IF a \in told THEN "waiting" ELSE "none"]
    /\ agent' = [a \in Parties |->
                    IF a \notin told THEN agent[a]
                    ELSE LET r == [agent[a] EXCEPT !.released = TRUE]
                         IN  IF r.suspended THEN Resumed(r) ELSE r]
    /\ UNCHANGED <<appVars, init, gate, service, readyOnce, proc, watcher, shuttingDown, fatal,
                   monitor, rapi, server, invoke>>

\* shutdownAgents: extensions that were not launched are skipped, those that subscribed get the
\* event, the others are killed, in a goroutine each.
ShutdownAgents ==
    LET launched == {a \in down.agents : HasChannel(a)}
        told     == {a \in launched : agent[a].subscribed}
    IN
    /\ down.pc = "agents"
    /\ down' = [down EXCEPT !.pc = "awaitAgents", !.agents = {}]
    /\ awaitingExit' = awaitingExit \cup told
    /\ stop' = [a \in Agents |-> IF a \in told THEN "waiting"
                                 ELSE IF a \in launched THEN "kill" ELSE "none"]
    /\ agent' = [a \in Parties |->
                    IF a \notin told THEN agent[a]
                    ELSE LET r == [agent[a] EXCEPT !.released = TRUE]
                         IN  IF r.suspended THEN Resumed(r) ELSE r]
    /\ UNCHANGED <<appVars, init, gate, service, readyOnce, proc, watcher, shuttingDown, fatal,
                   monitor, rapi, server, invoke>>

\* The kill of an extension that has not subscribed, with the deadline of the whole shutdown ...
KillAgent(a) ==
    /\ stop[a] = "kill"
    /\ stop' = [stop EXCEPT ![a] = "killing"] /\ proc' = KilledAll({a})
    /\ UNCHANGED <<appVars, init, down, awaitingExit, coreVars, watcher, shuttingDown, fatal,
                   monitor, rapi, server, invoke>>

\* ... which may be past, when the runtime and the flush took that long: kill sends no signal
\* then, and its error is only logged.
KillComesLate(a) ==
    /\ stop[a] = "kill" /\ ~Terminated(a)
    /\ stop' = [stop EXCEPT ![a] = "done"]
    /\ down' = [down EXCEPT !.late = @ \cup {a}]
    /\ UNCHANGED <<appVars, init, awaitingExit, coreVars, proc, watcher, shuttingDown, fatal,
                   monitor, rapi, server, invoke>>

\* The goroutine of one extension: it exits in time, or is killed at the deadline, for which
\* there is a second more.
AgentStops(a) ==
    /\ \/ stop[a] = "waiting" /\ proc[a].exited = "closed"
       \/ stop[a] = "killing" /\ Terminated(a)
    /\ stop' = [stop EXCEPT ![a] = "done"]
    /\ UNCHANGED <<appVars, init, down, awaitingExit, coreVars, proc, watcher, shuttingDown, fatal,
                   monitor, rapi, server, invoke>>

AgentDeadline(a) ==
    /\ stop[a] = "waiting" /\ proc[a].exited # "closed"
    /\ stop' = [stop EXCEPT ![a] = "killing"] /\ proc' = KilledAll({a})
    /\ UNCHANGED <<appVars, init, down, awaitingExit, coreVars, watcher, shuttingDown, fatal,
                   monitor, rapi, server, invoke>>

\* The error counts only for an extension that got the event.
KillAgentTimesOut(a) ==
    /\ stop[a] = "killing" /\ ~Terminated(a)
    /\ stop' = [stop EXCEPT ![a] = "done"]
    /\ down' = [down EXCEPT !.failed = @ \/ a \in awaitingExit]
    /\ UNCHANGED <<appVars, init, awaitingExit, coreVars, proc, watcher, shuttingDown, fatal,
                   monitor, rapi, server, invoke>>

AgentsStopped ==
    /\ down.pc = "awaitAgents" /\ \A a \in Agents : stop[a] \in {"none", "done"}
    /\ down' = ThenAwaitAll(down)
    /\ UNCHANGED <<appVars, init, stop, awaitingExit, coreVars, proc, watcher, shuttingDown, fatal,
                   monitor, rapi, server, invoke>>

\* mutant: no time limit
AwaitAllForever ==
    /\ down.pc = "awaitAll" /\ \A p \in down.wait : proc[p].exited = "closed"
    /\ down' = [down EXCEPT !.pc = "finish"]
    /\ UNCHANGED <<appVars, init, stop, awaitingExit, coreVars, proc, watcher, shuttingDown, fatal,
                   monitor, rapi, server, invoke>>

\* waitUntilAllProcessesExit: each channel is closed, or the time is up.
AwaitAll ==
    /\ down.pc = "awaitAll"
    /\ \/ /\ \A p \in down.wait : proc[p].exited = "closed"
          /\ down' = [down EXCEPT !.pc = "finish", !.wait = {}]
       \/ /\ \E p \in down.wait : proc[p].exited # "closed"
          /\ down' = [down EXCEPT !.pc = "finish", !.wait = {}, !.failed = TRUE]
    /\ UNCHANGED <<appVars, init, stop, awaitingExit, coreVars, proc, watcher, shuttingDown, fatal,
                   monitor, rapi, server, invoke>>

\* HandleShutdown closes the Runtime API only after a shutdown without errors; App.Shutdown is done.
Finish ==
    /\ down.pc = "finish"
    /\ down' = [down EXCEPT !.pc = "done"]
    /\ state' = "Shutdown"
    /\ rapi' = IF down.failed THEN rapi ELSE "closed"
    /\ UNCHANGED <<appErr, init, stop, awaitingExit, coreVars, proc, watcher, shuttingDown, fatal,
                   monitor, server, invoke>>

DownStep ==
    \/ Look \/ ShutdownRuntime \/ AwaitRuntimeExit \/ RuntimeKilled \/ Flush("agents")
    \/ ShutdownAgents \/ AgentsStopped \/ AwaitAll \/ Finish

-----------------------------------------------------------------------------
(* raptor.Server, the main program, and one invoke. *)

\* Server.Shutdown: by a signal, by a listener that fails, or when the App is done; it shuts
\* down the App first and waits for that.
StopServer ==
    /\ server = "up" /\ server' = "stopping"
    /\ Shutdown("shutdown")
    /\ UNCHANGED <<init, stop, awaitingExit, coreVars, proc, watcher, shuttingDown, fatal, monitor,
                   rapi>>

Signal         == Signals /\ StopServer
ListenerFails  == StopServer
ServerFollows  == down.pc = "done" /\ StopServer

ServerCloses ==
    /\ server = "stopping" /\ server' = "closed" /\ down.pc = "done"
    /\ UNCHANGED <<appVars, init, downVars, coreVars, proc, watcher, shuttingDown, fatal, monitor,
                   rapi, invoke>>

\* HTTPHandler.invoke after the init, and App.Invoke: the state is read ...
Invoke ==
    /\ Invokes /\ invoke = "none" /\ init.pc = "returned" /\ server # "closed"
    /\ invoke' = IF init.err = nil /\ state = "Initialized" THEN "checked" ELSE "refused"
    /\ UNCHANGED <<appVars, init, downVars, coreVars, proc, watcher, shuttingDown, fatal, monitor,
                   rapi, server>>

InvokeMoves(from, to) ==
    /\ invoke \in from /\ invoke' = to
    /\ UNCHANGED <<appVars, init, downVars, coreVars, proc, watcher, shuttingDown, fatal, monitor,
                   rapi, server>>

\* ... and the invoke goes to the router (InvokeRouter.tla), where the runtime answers it, or it
\* ends by its timeout, by the abort, or with the connection of the runtime.
HandleInvoke  == InvokeMoves({"checked"}, "running")
ResponseComes == Alive("runtime") /\ rapi = "up" /\ InvokeMoves({"running"}, "body")
BodyEnds      == InvokeMoves({"body"}, "answered")
InvokeEnds    == \/ InvokeMoves({"running", "aborted"}, "failed")
                 \/ Terminated("runtime") /\ InvokeMoves({"body"}, "failed")

-----------------------------------------------------------------------------

\* The main program exits when its Init has returned and the server is closed.
Ended == init.pc = "returned" /\ server = "closed"

Program ==
    \/ InitStep \/ WatcherSteps \/ DownStep
    \/ ShutdownAfterInit \/ ShutdownByMonitor
    \/ \E a \in Agents : AgentStops(a) \/ AgentDeadline(a) \/ KillAgent(a)
    \/ \E p \in Procs : Dies(p)
    \/ ServerFollows \/ ServerCloses \/ HandleInvoke \/ InvokeEnds

World ==
    \/ \E a \in Agents, s \in BOOLEAN : RegisterExternalAgent(a, s)
    \/ \E a \in Internals : RegisterInternalAgent(a)
    \/ \E a \in Parties : AgentNext(a)
    \/ RuntimeNext
    \/ \E p \in Procs, zero \in BOOLEAN : Asked(p) /\ Exits(p, zero)
    \/ Signal \/ Invoke \/ ResponseComes \/ BodyEnds

Fault ==
    \/ \E a \in Agents : \/ NameCollision(a) \/ NoAgentSockets(a)
                         \/ \E started \in BOOLEAN : LaunchFails(a, started)
    \/ NoRuntimeSockets
    \/ \E started \in BOOLEAN : RuntimeFails(started)
    \/ \E a \in Parties : AgentInitError(a) \/ AgentExitError(a)
    \/ RuntimeInitError
    \/ \E p \in Procs : StrayExits(p) \/ (~Asked(p) /\ Exits(p, FALSE))
    \/ KillRuntimeTimesOut \/ Flush("hangs")
    \/ \E a \in Agents : KillAgentTimesOut(a) \/ KillComesLate(a)
    \/ ListenerFails

Next == /\ ~Ended
        /\ \/ (Program \/ World) /\ UNCHANGED faults
           \/ Fault /\ faults < MaxFaults /\ faults' = faults + 1

\* Every goroutine that can go on does, every timer fires, SIGKILL kills; processes, clients
\* and whoever sends signals owe nothing.
Fairness ==
    /\ WF_vars(~Ended /\ InitStep /\ UNCHANGED faults)
    /\ WF_vars(~Ended /\ WatcherSteps /\ UNCHANGED faults)
    /\ WF_vars(~Ended /\ DownStep /\ UNCHANGED faults)
    /\ WF_vars(~Ended /\ ShutdownAfterInit /\ UNCHANGED faults)
    /\ WF_vars(~Ended /\ ShutdownByMonitor /\ UNCHANGED faults)
    /\ \A a \in Agents :
           WF_vars(~Ended /\ (AgentStops(a) \/ AgentDeadline(a) \/ KillAgent(a)) /\ UNCHANGED faults)
    /\ \A p \in Procs : WF_vars(~Ended /\ Dies(p) /\ UNCHANGED faults)
    /\ WF_vars(~Ended /\ (ServerFollows \/ ServerCloses) /\ UNCHANGED faults)
    /\ WF_vars(~Ended /\ HandleInvoke /\ UNCHANGED faults)
    /\ WF_vars(~Ended /\ InvokeEnds /\ UNCHANGED faults)

Spec == Init /\ [][Next]_vars /\ Fairness

-----------------------------------------------------------------------------
(* Properties. *)

\* When App.Init returns without an error, the runtime has asked for its first event and so has
\* every extension of the registration service: none registered between the count and the wait,
\* and none was counted that gave up (waitExtensionsToBeReady, handlers.go).
InitOkMeansReady ==
    [][init.pc # "returned" /\ init'.pc = "returned" /\ init'.err = nil
          => readyOnce /\ \A a \in Registered : agent[a].asked]_vars

\* When the shutdown is over, every process that had an exited channel when it looked has
\* exited or has been sent SIGKILL, whatever failed on the way (shutdown.go).  The exception is
\* an extension that has not subscribed to SHUTDOWN and whose kill came after the deadline of
\* the whole shutdown (process.go): it may go on, but then the shutdown reports an error.  A
\* process the init launches after that look is not covered, nor one whose Exec failed: nobody
\* stops it but the end of the program.
SeenProcessesStopped ==
    state = "Shutdown" => \A p \in down.seen :
        ~Alive(p) \/ (p \in down.late /\ down.failed)

\* "Agent is not registered for the shutdown event, so just killing it" (shutdown.go): without
\* the exception.
UnsubscribedKilled ==
    state = "Shutdown" => \A p \in down.seen : ~Alive(p)

\* An init that fails because its gates were canceled says why: the bare gate error comes only
\* when a shutdown from outside did it, never after a crash or an error some party reported
\* (resolveGateError in handlers.go, processTermination in shutdown.go).
CrashNamed ==
    init.err = "gate" => appErr = "shutdown"

\* The shutdown waits for a response body that the runtime does not finish.
Stalled == down.pc = "awaitInvokes" /\ invoke = "body"

\* It waits in eventsAPI.Flush for a relay that never becomes free.
Hangs == down.pc = "hangs"

\* A process exit the watcher has seen, or a signal, ends the program: the init returns, the
\* shutdown gets through its waits and kills, the server closes.  Three things can prevent it:
\* the notice of the crash was dropped because the monitor goroutine was not there yet, the
\* shutdown waits for a body the runtime does not finish, before it kills anything, or it hangs
\* in the flush of the telemetry, before it stops the extensions.
ProgramEnds ==
    (watcher.pc = "exit" \/ state = "ShuttingDown")
        ~> (Ended \/ Stalled \/ Hangs \/ watcher.missed)
=============================================================================
