# A verification of the Lambda runtime init

TLA+ models of the program that runs inside a LocalStack Lambda container: the fork of
the AWS Lambda Runtime Interface Emulator under `internal/lambda`, the `cmd/localstack`
program around it, and the second stack for managed instances under
`internal/lambda-managed-instances`.  TLC checks small instances, TLAPS proves the main
safety properties of both stacks for every instance.

    tlc -workers 4 -config RuntimeDomain_races.cfg MCRuntimeDomain
    tlapm RuntimeDomain_proofs.tla

`PROJECT.json` lists the components, runs, mutants, findings, hazards and theorems, and maps
every definition to the lines it models.

## 1. The system

| component | state | operations | talks to |
|---|---|---|---|
| gates and flows (`core/gates.go`, `flow.go`) | per gate: expected count, arrivals, canceled, error | SetCount, Reset, WalkThrough, AwaitGateCondition, CancelWithError, Clear | everybody that waits |
| registration service (`core/registrations.go`, `agentsmap.go`) | the runtime, the agents, on/off, `cancelOnce` | register, preregister, count, TurnOff, CancelFlows, Clear | state machines, handlers |
| state machines (`core/states.go`, `externalagent_states.go`, `internalagent_states.go`) | state, `operatorConditionValue` of the ManagedThread | Ready, InvocationResponse, ResponseSent, InitError, ExitError, Register | gates; Runtime API requests |
| Runtime API (`rapi/handler`) | requests that are suspended in `/next` | `/next`, `/response`, `/error`, `/init/error`, `/extension/register`, ... | state machines, interop server |
| rapid (`rapid/handlers.go`, `sandbox.go`, `shutdown.go`) | `handlerExecutionMutex`, `initDone`, generation, exit channels, `agentsAwaitingExit` | HandleInit, HandleInvoke, HandleReset, HandleShutdown, Clear, `watchEvents` | supervisor, registration service |
| supervisor (`supervisor/local_supervisor.go`) | processes, event channel | Exec, Terminate, Kill, exit events | operating system, `watchEvents` |
| sandbox API (`rapidcore/sandbox_api.go`) | channels of one init or invoke | Init, Reserve, SendRequest, Wait, Reset, Shutdown | rapid |
| interop server (`rapidcore/server.go`) | `invokeCtx`, `reservationContext`, `InvokeDoneChan`, `sendResponseChan`, `initFailures`, `cachedInitErrorResponse` | Init, AwaitInitialized, Reserve, Invoke, FastInvoke, Send*Response, AwaitRelease, Release, Reset, Clear | sandbox API, LocalStack |
| LocalStack program (`main.go`, `custom_interop.go`, `events.go`) | init result, init timer, `resetDone`, what the report lines say | start, init wait, `/invoke`, reports, signal | interop server, LocalStack over HTTP |
| hot reloading (`hotreloading.go`, `awsutil.go`, `filenotify`) | snapshots of the watched folders, debounce timer, two channels of ten | poll, Watch, debounce, reset loop | file system, interop server |
| direct invoke (`core/directinvoke`, `core/bandwidthlimiter`, `rapidcore/standalone`) | limit and mode of the response (package variables), token bucket | receive, copy, interrupt | interop server, HTTP |
| invoke router (`lambda-managed-instances/invoke`) | runtime pool, reservations, running invokes, timeout cache | Invoke, RuntimeNext, RuntimeResponse, RuntimeError, ReserveIdleRuntime, AbortRunningInvokes | workers of the runtime, the invoker |
| managed application (`raptor`, `rapid`, `core`, `rapi`, `supervisor`, `aws-lambda-rie`) | application state, init gates, registrations, processes, exit channels | Init, Invoke, Shutdown, `watchEvents`, termination monitor | operating system, invoke router |
| telemetry of the managed stack (`aws-lambda-rie/internal/telemetry`) | subscribers, init events, batches | broadcast, subscribe, batch, post, Flush | extensions over HTTP |
| metadata service, X-Ray, credentials, users, code archives, RIE front end | little | I/O | |

One handler at a time (init or invoke) holds `handlerExecutionMutex`.  It waits at gates
that runtime and extensions pass through by calling the Runtime API.  A single goroutine
watches for processes that exit; it closes their exit channel and cancels the flows, so
that the handler comes back with an error.  A reset cancels the flows in the same way,
gets the mutex, shuts the processes down, starts a new generation and, after it has let
the mutex go, clears registrations and gates.  The interop server turns this into
`Invoke`: it reserves itself for one call, passes the request on, hands the answer to the
caller, and resets the sandbox after a failure or a timeout.

What is hard here:

* cancellation is sticky state shared by handlers, resets and the watcher, and is cleared
  in two steps outside the mutex;
* counts at gates must agree with who will arrive, over generations of processes;
* processes die at any moment, between `Exec` and the bookkeeping for it too;
* one `Invoke` is five goroutines and four channels, one of which is unbuffered and is
  sent on with `Server.mutex` locked; timeouts, late answers, resets of the call itself
  and resets by hot reloading race each other;
* nothing but an answer, an exit or a reset ends a wait;
* main, hot reloading, the init timer and the signal all reset the same sandbox, and share
  the channel on which the end of a reset is told;
* the managed stack runs many invokes at once over workers that may answer late, twice or
  never, and shuts down in the middle of an init;
* relay and subscribers of the telemetry send to each other while one holds a mutex.

What makes the components correct: a handler that succeeds has everybody ready and was
not canceled; a canceled handler returns; a crash is reported; a reset ends, kills its
generation and leaves nothing of it behind; each caller gets its own reply, once; `Invoke`
returns, closed; nobody waits with a lock for somebody who is gone; LocalStack is told one
truth about the init; an edit of the code is never ignored; a streamed reply is whole or
says that it is not; a worker is never lost nor given twice; a shutdown ends and leaves no
process; a subscriber gets each event once.  The `hazards` of
`PROJECT.json` are these, each at the line where it bites.

## 2. The modules

| module | models | rests on |
|---|---|---|
| `Gates` | one gate, as functions on records | |
| `RuntimeDomain` | core, rapid, supervisor, Runtime API, the reset side of the sandbox API | `Gates`; implements `Sandbox` |
| `Sandbox` | what rapid promises to its callers (abstract) | |
| `InteropServer` | the interop server and the request side of the sandbox API | extends `Sandbox` |
| `InitProgram` | `cmd/localstack`: main, its interop server, the events API, the callers of Reset | what `Sandbox` promises and the steps of Reset in `InteropServer` |
| `HotReload` | the polling watcher, the listener, the debouncer, the reset loop | |
| `DirectInvoke` | a direct invocation, the bandwidth limiter, its interruption | |
| `Dispatch` | what the invoke router promises (abstract) | |
| `InvokeRouter` | invoke router, runtime pool, the handlers of `/runtime/invocation`, the responder | implements `Dispatch` |
| `ManagedInstance` | application, init, crash and shutdown of the managed stack | |
| `Telemetry` | relay, subscribers, subscriptions, flush | |
| `MC*` | instances for TLC: symmetry, a view, values of constants | |
| `Gates_proofs`, `RuntimeDomain_proofs`, `InteropServer_proofs`, `InitProgram_proofs`, `DirectInvoke_proofs`, `InvokeRouter_proofs`, `ManagedInstance_proofs`, `Telemetry_proofs` | theorems | the module of the name |

Definitions whose comment calls them a mutant are variants of the definition that follows
them, as a plausible mistake would make it; no specification uses them.

### RuntimeDomain

`gate` holds the seven gates of the init and invoke flows, `canceled` is `cancelOnce`.
`runtime` and `agent` are the state machines with the ManagedThread flag.  `pc` is where
the handler's goroutine waits or is between two steps that others can see; `rpc[r]` the
same for each concurrent caller of Reset or Shutdown; `watch` for the watcher.  `alive`,
`exits`, `chans`, `closed` are the processes, the exit events the watcher has not got yet,
and the exit channels.  A step of the model is what the code does between two points where
another goroutine can interfere: a gate, a mutex, an exec, a channel.  Generations number
the processes and make a late exit of an old process different from one of a new one.

The watcher closes an exit channel and cancels the flows in two steps, and a reset may run
in between (`HandleProcessExit`, `WatcherCancelFlows`).  The history variable `overtaken`
remembers that the cancellation fell between the two halves of a reset's Clear, so that it
uses up `cancelOnce` and is then wiped from the gates.  Nothing reads it but the properties,
which name this case as their exception.

Left out: restore and init caching, credentials, telemetry, the payloads, the errors of
`GetExtensionSockets`/`GetRuntimeSockets`, and the two data races (on `agentsAwaitingExit`
and on `runtimeDomainGeneration`) beyond reading the old or the new value.

Constants that bound or restrict the environment, apart from the sets:

* `MaxInvokes`, `MaxResets`, `MaxCrashes` bound what the environment does.
* `Exclusive`: no invoke starts while a reset is in progress.  This is for the caller to
  ensure; `InteropServer` shows (`InvokesExcludeResets`, checked and proved) that the server
  does, with one invoke at a time and no hot reload.
* `StaleHandlers`, `SlowExits`: an HTTP handler that outlives its runtime; an exit that
  takes longer than `maxProcessExitWait`.

### Sandbox

`holder` (who has the mutex), `cancel` (what has canceled the flows) and `outcome` (what
the last handler returned), with one action for each thing a caller can observe.
`RuntimeDomain` maps its state to these three (`SB == INSTANCE Sandbox WITH ...`).  That every
step is one of `Sandbox` or a stutter (`ImplementsSandbox`) is checked and proved; that a
canceled handler returns (`CanceledHandlerReturns`, the fairness `InteropServer` uses) is
checked.

### InteropServer

`call[c]` has the places of the five goroutines of the `c`-th `Invoke` and the contexts
they remember; `reset[r]` the goroutine and the caller of each Reset (by the timeout of a
call, by its failure, or by hot reloading).  `ctx`, `resv`, `released` are what
`Server.mutex` protects.  Every critical section is one step, except the one that blocks:
`sender` is not "none" while somebody is blocked on `sendResponseChan` with the mutex in
his hands, and everything that locks the mutex has `MutexFree` as a guard.  A call's reply
stream is a sequence of the calls whose answers were written to it.  `rt` is the function's
runtime: which invocation it got, and how far its answer is.

Left out: direct invoke and `interruptedResponseChan` (module `DirectInvoke`), payloads that are too large or fail
to be written, metrics, `rapidPhase` and `runtimeState` (reported, and read only to tell an
`/init/error` in an inline init, which `RuntimeResponds` covers), which error is sent, and
the repeated reads of `s.invoker`.

* `Calls`, `Slow` (the calls whose timeout may fire), `MaxReloads`, `MaxCrashes` bound.
* `MainAwaits`: `AwaitInitialized` comes before the first `Invoke`, as in `cmd/localstack`;
  `FALSE` is the plain emulator.
* `Overlap`: a call may come before the last has returned.  LocalStack sends one invocation
  at a time to a container.
* `Prompt`: runnable goroutines reach the place where they wait before a timeout or the
  drain of a reset comes.  Go does not guarantee it; timeouts are seconds.
* Hot reloading starts only when the init is over; a reload during the init is a matter of
  `cmd/localstack/main.go` and of `InitProgram`.

### InitProgram

`main` is where main is and `status` what LocalStack was told.  `att` is the init that runs,
eager (by main) or inline (by an invocation), `rapid` the sandbox as `Sandbox` has it: who
holds the mutex, what canceled the flows, the first fatal error.  `reset[r]` has, for each
caller of Reset (a reload, the init timeout, the signal, an invocation), its goroutine and
its caller, with the two Releases and the token in `resetDone` as steps of their own.
A reload is served also while the reset of a signal runs or after it: the file watcher stops
only later.  `failures` is the server's channel `initFailures`, which two parties may take from.  `ev` is
LocalStackEventsAPI: what the next INIT_REPORT and REPORT will say.  `conf` chooses between
on demand and provisioned, hot reloading or not; TLC checks all four.

Four assumptions about time, none of which Go guarantees: the deferred Clear follows the
unlock before a process is started or a timer of seconds fires (`Prompt`); the init timer
fires after HandleInit has the mutex; an invocation returns after its handler has; LocalStack
invokes only once it was told ready, and one at a time.

Left out: parsing of the environment, the text of messages, payloads (whether there is an
`/init/error` payload is modelled), durations other than the cold start's.

### HotReload

`fs` gives each path a version (mode, size and time of a file) or 0; `loaded` is the tree the
runtime has read.  `items` are the goroutines of the poller with their last snapshot and the
events that were not taken yet; `watches` and `watchedFolders` the two lists that have to
agree; `changes`, `debounce`, `debounced` and `resetting` the way to the reset.  A poll
compares as the code does: it walks over the larger of the two snapshots.  `Edit` leaves out
what no poll can see (`Settled`): an edit between the first start of the runtime and the end
of `AddTargetPaths`, and one that undoes within an interval what was loaded.  The other
strategy, fsnotify, is a library.

### DirectInvoke

`limit` and `mode` are the package variables that every request sets before it is validated.
`send` is the sender, who holds `Server.mutex` from the first unit to the last; `copy` the
copy of the body with its limit, chunk by chunk, through the token bucket `tokens`; `reply[r]`
what the caller got, trailer included.  Sizes are small integers and `MaxInt` stands for
2^63 - 1, after which the limit plus one wraps.  A reset interrupts the copy on the channel on
which it then waits for the acknowledgement.

Left out: metrics, header encoding, the init before.

### InvokeRouter and Dispatch

One call of Invoke (`call`), one `/next` (`next`, with the RunningInvoke it carries) and one
`/response` or `/error` (`req`) is a process each; `idle`, `reserved`, `timer` are the pool,
`running` the map with its nil placeholder, `cache` the IDs that timed out.  Two calls may
bring the same ID.  The worker may post twice, late, never, or stop in a body.  `Dispatch`
has the phase of each invoke and the `/next` it was given: a `/next` goes to at most one
invoke, and an invoke that got one is answered once before it ends.  `InvokeRouter` maps to
it (`D == INSTANCE Dispatch WITH ...`).

What an `/error` is told depends on types: `IsRuntimeError` compares the type of the posted
error with that of the error the invoker got, and nothing else.  The runtime chooses its type
freely (`RuntimesChoice`), so it may be that of the program's own complaint about an earlier
`/response` (`Complaints`: too large, truncated, a bad header), and then `ErrorStatus` may
be "accepted" for an error the invoker has not got.

Left out: metrics, contents of payloads and headers (valid or not is modelled), and the events
of the invoke for the telemetry: `SendInvokeStartEvent` (`running_invoke.go:107`) needs the
mutex of the relay, so an invoke may hang there as a flush may (section 5, 9).

### ManagedInstance

`init` and `down` are the goroutines of App.Init and App.Shutdown, `stop` the helper of the
shutdown for each extension, `watcher` the goroutine that sees processes exit, `monitor` the
one that shuts the application down after a crash.  `gate`, `service`, `agent` are core;
`proc[p]` has the life of a process and its exited channel.  `server` is raptor.Server,
`rapi` the Runtime API's.  Shutdown runs beside an init that has not ended.

The init finds any subset of the extensions.  A launch may fail before the process is started
or after it (`ExecFails`): then the process is a stray that has no exit channel and that nobody
stops.  A launched extension may register an internal one under the name of one that is not
created yet (`NameCollision`).  The shutdown flushes the telemetry between runtime and
extensions: `Flush` takes time or hangs.  An extension that has not subscribed to SHUTDOWN is
killed with the deadline of the whole shutdown; when that is over no signal is sent
(`KillComesLate`), and `down.late` remembers it.

Left out: metrics, telemetry calls other than the flush, credentials, invokes beyond one that may hold the
shutdown up (`InvokeRouter` has them).

### Telemetry

An event is its place in the order of the broadcasts.  `job` is what the goroutine that holds
the relay's mutex does (a broadcast, the replay to a new subscriber, the flush), `waiting`
who waits for it; `sub[s]` a subscriber: its consumer, its current batch, the sender and the
batch it posts, what was delivered and what was lost.  The sender gets to its channel in a
step of its own (`SenderReceives`), so that even the first batch may be dropped.  Batches fill by number; the size in
bytes is a second bound of the same kind.

Left out: schemas and encoding, the HTTP retry policy (there is none).

## 3. What TLC checks

States are distinct states; each run takes less than five minutes with two workers.

| run | instance | shows |
|---|---|---|
| `domain_races` | 1 extension, 1 invoke, 2 resetters with 2 resets, 1 crash, late watcher, stale handlers, slow exits; 2.7 million states | gates are sound; a finished init means ready; a reset leaves no process of its generation; no nil runtime; cancellation sticks; a crash is reported; no success once canceled; refinement of `Sandbox` |
| `domain_internal` | an external and an internal extension, 2 invokes, 1 reset, 1 crash, fair; 1.45 million states | counts at gates are never refused; handlers return |
| `domain_invokes` | 1 extension, 2 invokes, 2 resets, 1 crash, fair; 748 thousand states | success means everybody is ready; no event without an invoke; resets complete; a canceled handler returns |
| `server_safety` | 2 calls with timeouts, 1 crash, LocalStack's use; 59 thousand states | each caller gets its own reply; answered unless timed out; a returned Invoke has left nothing; no panic; no request enters during a reset; every Invoke returns |
| `server_races` | 2 overlapping calls, calls during the init, 1 hot reload, any scheduling; 2.7 million states | one reply per stream; the blocked sender has a receiver |
| `init_program` | 4 deployments, 1 reload, 1 invocation, the init timeout, 1 fault; 482 thousand states | ready only after the reset has released the server; report lines belong to their invocation; the cold start is reported once; main reports or exits |
| `hot_reload` | a file beside a folder with a file, 2 edits, 1 failed poll, channels of 1; 134 thousand states | after the last edit no runtime runs an older tree |
| `direct_invoke` | 2 requests, 5 kinds of header, bodies of 2 units, limits 0, 2 and none, 1 reset, 1 fault; 321 thousand states | a complete reply is whole and within its limit; a reset ends |
| `router` | 2 calls with one ID, 2 workers, 1 post, 1 reservation or fault, timeouts, abort, or 1 call with 2 posts; 358 thousand states | the runtime is told the truth; no worker is lost or given twice; refinement of `Dispatch`; invokes, aborts and posts end |
| `instance_safety` | 2 external extensions of which 1 is launched, an internal one, signals, 1 fault; 2.8 million states | a successful init has everybody ready; a failed one says why; a shutdown leaves no process it knew of |
| `instance_live` | 1 extension, an invoke, signals, 1 fault; 1.15 million states | a process exit or a signal ends the program |
| `telemetry` | 2 subscribers with batches of 1 and 2, 2 streams, 1 failed post, a flush; 1.7 million states | each event once and in order; nobody is kept waiting |

The bounds are enough for the cases that matter: a second generation after a reset, a reset
that meets a reset, an invoke with an inline init after a reset, a crash in each phase, a
second call after a call that timed out or failed.  A third invoke or reset starts where
the second did.  `MaxAgentsLimit` and `MaxAgentsAllowed` are the code's own values in
`RuntimeDomain`; in `ManagedInstance` they are just above the number of extensions, so that
the limit is met.  In `InitProgram` the reload, the timeout, the signal and the invocation are
four resets that meet each other.  In `HotReload` two edits are a change and its consequence
(a folder and what is in it, a file and its removal), and a channel of one is full.  In
`DirectInvoke` the body is at the limit, over it and under none.  In `InvokeRouter` the second
call brings the ID of the first, and its post may be late; in a second part of the same run a
`/response` and an `/error` meet at one call.  The constraint `Load` of `MCInvokeRouter` keeps
the two parts apart.  It cuts off only steps of the environment (a new post, call, worker,
reservation or abort), to which no fairness is due, so the liveness properties are checked
soundly.  In `instance_safety` the constraint `OneLaunched` leaves the second extension to be
found, refused or collided with; the run checks safety properties only.

Larger instances that were checked too: `HotReload` with three edits (1.5 million states),
`DirectInvoke` with two resets (3.5 million), `InvokeRouter` with two reservations and two faults and no post (`InvokeRouter_reserves.cfg`,
50 thousand), where a stale timer expires a newer reservation of the
same ID.  The type invariant of `HotReload`, and the part of `InvokeRouter`'s that is not proved
(`CacheType`), were checked on the instances of the table.

**What the properties except.**  These properties name a case in which they do not hold, in
the formula and in its comment: each is a weakness of the code that was met while modelling it.

* `CancelSticks`, `CanceledNeverOk`, `ResetCompletes`, `HandlerReturns`: a reset has overtaken
  the watcher in the middle of its Clear (section 5, 1).  `HandlerReturns` also: an internal
  extension was turned away at a gate with an old count (section 5, 2).
* `SeenProcessesStopped`: an unsubscribed extension whose kill came too late goes on, and the
  shutdown reports an error (section 5, 10).
* `AcceptedIsAnswer`: an `/error` whose type is that of the complaint the invoker got.
* `ReadyAfterRelease`: the token of an earlier reload is still in `resetDone`, or a caller of
  Reset took the result of another reset.
* `MainDecides`: a signal aborts the init of a hot reloading function (section 5, 8).
* `ChangesReload`: the watcher was stopped, a folder is polled by nobody because it came
  between listing and adding, or a failed poll has forgotten a path.
* `CompleteIsWhole`: a limit of 2^63 - 1 wraps; another request has set the package variables
  meanwhile.  `ResetEnds`: the response belongs to an invocation that was passed on after the
  reset had killed the runtime.
* `InvokesEnd`, `PostsAnswered`, `ProgramEnds`: a body that the worker does not finish
  (section 5, 6); `PostsAnswered` also an event that was never sent, `ProgramEnds` also a
  crash notice that the monitor was not there to take, and a flush that hangs (section 5, 9).
* `CallsEnd`: a batch had to be dropped (section 5, 9).

`ResetterSymmetry` permutes resetters, which no definition tells apart; it is not used with
liveness.  `Alike` permutes the two extensions of `instance_safety`.  The view `Readable` of `MCInteropServer` drops what no goroutine will read again
and no invariant of that run needs; no temporal property is checked with it.

Deadlock checking is off: when the bounds are used up the system rests, and the real one
waits for requests.

**Fairness.**  Goroutines that can go on do: weak fairness for the handler, the watcher,
each resetter, each goroutine of a call, each reset, and for HTTP handlers that wait for
nobody.  A timeout fires.  Nothing is assumed of callers or of the function: a runtime may
hang for ever, a worker never post, an extension never answer a post, a process ignore
SIGTERM (but not SIGKILL).  `HotReload`, `DirectInvoke`, `Telemetry` and `InitProgram` have
one weak-fairness condition for all steps of the program: their behaviours are finite apart
from stuttering, so it says the same as one for each goroutine.

`HandlerReturns` is the exception and says so: it has as a premise (`Cooperation`) that runtime and extensions keep calling the API, because without that an
init or invoke really waits until it is reset.  `InteropServer` has fairness for a handler
only when it was canceled, which `CanceledHandlerReturns` justifies.

Every property of a passing run has a mutant: a small change to a mapped definition under
which TLC finds the property violated.

`server_safety` needs its restrictions.  Without `Prompt`, without `MainAwaits` or with a
hot reload TLC finds violations of `ReplyToOwner`, `AnsweredUnlessTimedOut`,
`ReturnedMeansClosed` and `NoPanic`: a `FastInvoke` that starts late attaches its stream to
the next reservation; a handler that fails while a hot reload releases the reservation makes
`trySendDefaultErrorResponse` panic.  `TypeOK`, `OneReply` and `SenderHasReceiver` hold
without any of them, and are proved so; the others are proved with them, for any number of
calls.  (The type invariants that are proved are no part of a run.)

## 4. What is proved

For every value of the constants that the named assumptions admit: `LimitAssumption`,
`DomainAssumption`, `ServerAssumption`, `InitProgramAssumption`, `DirectInvokeAssumption`,
`RouterAssumption`, `InstanceAssumption` and `TelemetryAssumption`.  They say that bounds are
natural numbers, that pools, batches and buckets are not empty, that names do not coincide,
and, in `InstanceAssumption`, that `MaxAgentsLimit` (65535 in the code) is more than the
extensions there are.

| theorem | statement | argument |
|---|---|---|
| `RuntimeDomain_proofs!TypeCorrect` | `Spec => []TypeOK` | one step per action, lemmas on gates and agents |
| `GatesAlwaysSound` | `Spec => []GatesSound` | `FlowStep` says how any step may change the gates; `Sound` survives each of these ways |
| `CancellationSticks` | `Spec => []CancelSticks` | `CancelInv` |
| `CanceledHandlersFail` | `Exclusive` implies `Spec => CanceledNeverOk` | `CancelInv /\ HandlerInv` |
| `DomainInvariant` | `Exclusive` implies `Spec => []DomainInv` | the six parts below |
| `ResetsKillTheGeneration` | `Exclusive` implies `Spec => []ResetKillsGeneration` | `ProcInv /\ KillInv` |
| `RuntimeNeverGone` | `Exclusive` implies `Spec => []NoNilRuntime` | `RuntimeInv` |
| `InitDoneMeansAllReady` | `Exclusive` implies `Spec => []InitDoneMeansReady` | `RuntimeInv /\ AgentsInv` |
| `CountsAlwaysAccepted` | `Exclusive` implies `Spec => []CountsAccepted` | `AgentsInv /\ QuietInv` |
| `DomainImplementsSandbox` | `Exclusive` implies `Spec => ImplementsSandbox` | each step maps to a step of `Sandbox` or a stutter, under `CauseInv` |
| `EventsOnlyWhenInvoked` | `Exclusive` and not `StaleHandlers` imply `Spec => EventOnlyWhenInvoked` | `EventInv` |
| `InvokesOkWhenAllReady` | `Exclusive` and not `StaleHandlers` imply `Spec => InvokeOkMeansReady` | `EventInv /\ BackInv` |
| `CrashesReported` | `Exclusive` implies `Spec => CrashReported` | `ReportInv` |
| `InteropServer_proofs!TypeCorrect`, `OneReplyEver`, `SenderAlwaysReceived` | `Spec => []` of `TypeOK`, `OneReply`, `SenderHasReceiver` | `ServerInv` |
| `SequentialInvariance` | `Sequential` implies `Spec => []SeqInv` | below |
| `RepliesToOwner`, `AnswersUnlessTimeout`, `ReturnsClosed`, `NeverPanics` | `Sequential` implies `Spec => []` of `ReplyToOwner`, `AnsweredUnlessTimedOut`, `ReturnedMeansClosed`, `NoPanic` | `SeqInv` |
| `InvokesNeverMeetResets` | `Sequential` implies `Spec => InvokesExcludeResets` | `SeqInv`: a request on its way has no reset beside it |
| `InitProgram_proofs!TypeCorrect` | `Spec => []TypeOK` | `Typed`: an attempt that has ended has a result |
| `ColdStartReportedOnce` | `Spec => []ColdStartOnce` | `FlowInv /\ ColdInv` |
| `InitErrorsAreOwn` | `Spec => []InitErrorIsOwn` | `FlowInv /\ TurnInv /\ ErrorInv` |
| `ReadyAfterReset` | `Spec => []ReadyAfterRelease` | `FlowInv /\ CallsInv /\ AbortInv` |
| `DirectInvoke_proofs!CompleteRepliesAreWhole` | `Spec => []CompleteIsWhole` | `StreamInv` |
| `InvokeRouter_proofs!TypeCorrect` | `Spec => [](PoolType /\ ProcessType)` | `RouterInv` |
| `NextsConserved` | `Spec => []PoolConserved` | `RouterInv` |
| `DispatchImplemented` | `Spec => ImplementsDispatch` | each step maps to a step of `Dispatch` or a stutter, under `RouterInv` |
| `AcceptedAreAnswers` | `Spec => []AcceptedIsAnswer` | `RouterInv /\ TouchInv /\ AnswerInv` |
| `ManagedInstance_proofs!TypeCorrect` | `Spec => []TypeOK` | one step per action |
| `CrashesNamed` | `Spec => []CrashNamed` | `NamedInv` |
| `SeenStopped` | `Spec => []SeenProcessesStopped` | `StopInv` |
| `OkInitsAreReady` | `Spec => InitOkMeansReady` | `ReadyInv` |
| `Telemetry_proofs!AllEventsAccounted` | `Spec => []EventsAccounted` | `RelayInv` |

Apart from the type invariants and `GatesSound` none of these properties is inductive.  What
has to be added, and why:

* `CancelSticks`: a reset between its two Clears may meet the cancellation
  of another, whose gates it then clears.  `CancelInv` adds that in this case a reset is on
  its way that will clear everything once more, unless it is the watcher that was overtaken;
  that is forgotten only by the next Clear, which re-arms `cancelOnce`.
* `HandlerInv`: while a handler works, the other resetters only wait for it, and a
  cancellation has reached all gates, but for that of an overtaken watcher; so each wait of
  the handler fails.
* `DomainInv` has six parts.  `TurnInv`: a handler at work shares the sandbox only with resets
  that wait for the mutex, one reset at a time has it, and between its two Clears nobody is
  registered.  `ProcInv` and `KillInv`: no process is newer than the generation, those of the
  current one have their exit channel or are about to get it, and how far the shutdown
  sequence has come with them.  `RuntimeInv`: only a runtime that has asked for work went
  through its gate, unless the gate is canceled or about to be cleared.  `AgentsInv`: no more
  arrivals at the gates of the init than extensions that have got so far.  `QuietInv`: between
  invokes the gate of the extensions is empty, or counts the subscribers, or will be cleared.
  These need `Exclusive`: with an invoke that starts under a reset, `TurnInv` fails.
* `CauseInv`: CancelFlows and Clear treat all gates alike, so each gate tells the handler what
  the mapped variable `cancel` says; this makes the refinement mapping to `Sandbox` work.
* `EventInv`: where the runtime is on its way tells which gates of the invoke it has passed.
  `BackInv`: no more extensions went through the gate of the invoke than are back from it.  A
  handler that outlives its runtime breaks both, hence `~StaleHandlers`.
* `ReportInv`: the last exit the watcher took, when it is of this generation, was recorded.
* `SenderHasReceiver` needs to know which `FastInvoke` will receive.  `Reserved` says that
  the current reservation is not released and that no call is reserved twice, `Streams` that
  the call that set the reply stream is before its receive, on the current reservation,
  until the reply is sent, and `Unwritten` that nothing was written to it before.
  `ServerInv` is their conjunction with `TypeOK` and `OneReply`.  The key step is `Release`:
  it needs the mutex, so it cannot take the reservation away from a sender.
* `SeqInv`, under `Sequential` (`MainAwaits`, `~Overlap`, `Prompt`, no hot reload: the
  restrictions of `server_safety`): `OrderInv` says that one call is under way at a time and
  after the init; `CtxInv` that reservation, stream, runtime and the result in
  `InvokeDoneChan` belong to it, and that what counts as answered was written; `CallInv` how
  far its goroutines can be apart (`RelInv`, `FastInv`, `ReqInv`), and that a call that has
  returned has nothing left at work.  The two resets that one call may start (its timeout and
  its failure) share `ResetDoneChan`, so that each caller may get the value of the other's
  reset.  `Paired` is what survives: as many callers wait as resets are at work.  With it the
  last caller goes on only when both resets have released, and its own Release takes nothing
  away.
* `InitProgram`: `FlowInv` follows the result of the eager init from the attempt through
  `initFailures` and `initDone` to main, and says what main cannot have done before.  So no
  invocation has begun while the eager init runs, and its report and the init timer leave a
  duration only to the first (`ColdInv`: once the timer has fired the attempt is marked until
  its report).  `ErrorInv` says what the events API knows of the attempt at each of its stages
  and what the invocation under way may conclude from it; it needs `TurnInv`, that there is
  one invocation under way, and that an inline init is its own.  `AbortInv` says where the
  result of an aborted init is and what main waited for when it was told; `CallsInv` that a
  caller with its own Done has it after the last step of its reset, and that a token is that
  of a reload whose call has returned.
* `StreamInv`: the sender holds the mutex from the first unit to the last, so reply, copy and
  reservation belong to one request, and what was copied is what the reply has, unless the
  package variables were changed under it.
* `RouterInv`: each `/next` that was admitted is in exactly one place (idle, reserved, given to
  a call, gone), and the pool's size is bounded by what it has.  `TouchInv`: a `/next` that was
  never parked is referred to by nobody.  `AnswerInv`: the right to answer is held by one
  `/response` at a time, and what is sent to its handler, or kept for that of an `/error` to
  compare with, is what the invoker was answered with.
* `NamedInv`: as soon as something that may cancel the gates of the init is under way (a crash
  the watcher has seen, a shutdown), there is a name for it.
* `StopInv`: what Shutdown has seen, stage by stage of its order (runtime, extensions, all);
  it needs that a process has an exit channel only once it was launched (`LaunchInv`).  An
  extension whose kill came too late is carried along until the last wait, which then times out,
  so that the shutdown has failed (`DownInv`).
* `ReadyInv`: the arrivals at the gate of the extensions are those that have asked, and its
  count is the number of the registered once registration is off.
* `RelayInv`: a subscriber has been given what it wants but for what the holder of the relay's
  mutex is about to send it, which is later than all it has; the buffer of the init has all
  events in order until subscribing is turned off.

Each inductive invariant was checked with TLC on the instances of its component's runs, and
most of them on larger ones while they were being found, before it was proved.

Only model-checked, because the prover does not reach it: everything temporal under fairness
(`InvokeReturns`, `ResetCompletes`, `HandlerReturns`, `CanceledHandlerReturns`, `InvokesEnd`,
`PostsAnswered`, `ProgramEnds`, `ResetEnds`, `CallsEnd`, `MainDecides`, `ChangesReload`), and
`CacheType` of `InvokeRouter`, which is about `SelectSeq`, a recursive definition.  Every other
property of a run is stated by a theorem, and so is every type invariant but
that of `HotReload` and those parts of `DirectInvoke`'s and `Telemetry`'s that `StreamInv` and
`RelayInv` do not need.

## 5. Where the code and its documentation disagree

Each has a configuration beside the runs, the smallest instance that shows it; TLC reports a
violation of its one property.

1. `RuntimeDomain_lateCancel.cfg` (`ResetAlwaysCompletes`): a watcher between the close of the last
   exit channel and its own `CancelFlows` can use up the re-armed `cancelOnce` just before the
   gates are cleared; the next reset cancels nothing and waits for ever.
2. `RuntimeDomain_turnedAway.cfg` (`InitCountsEveryAgent`): `Clear` keeps a gate's count, so an
   internal extension that is new after a reset is refused at the gate and then waited for.
3. `RuntimeDomain_failedInit.cfg` (`InlineInitStartsFresh`): with `AwaitInitialized` called
   first, nobody shuts the sandbox down after a failed init, and the inline init does not start
   fresh.
4. `RuntimeDomain_fastExit.cfg` (`ExitFindsChannel`): a process that exits between `Exec` and
   `createExitedChannel` makes the watcher panic.
5. `InteropServer_reload.cfg` (`InitFailureRenamed`): the case that renames
   `ErrReleaseReservationDone` after an init failure cannot be reached; a reset by hot
   reloading ends such an `Invoke` as a success without a reply.
6. `InvokeRouter_stalled.cfg` (`TimeoutEndsInvoke`): the function timeout does not end an
   invoke whose worker has begun a response and does not finish it, nor does the abort of a
   shutdown.
7. `InvokeRouter_cross.cfg` (`NoCrossWiring`): the check that refuses an answer of another
   invocation is skipped while the new invoke has no invocation ID yet. `Invoke` publishes the
   running invoke before `RunInvokeAndSendResult` assigns the ID, so a late answer to an earlier
   invoke with the same invoke ID passes in that window and is delivered to the new one.
8. `InitProgram_signal.cfg` (`SignalEnds`): a signal that aborts the init of a hot reloading
   function leaves main waiting for a token that nobody sends.
9. `Telemetry_drops.cfg` (`DropsDoNotBlock`): a subscriber that drops a batch broadcasts that
   it did; when the relay is sending to it at that moment both wait for ever.
10. `ManagedInstance_lateKill.cfg` (`UnsubscribedKilled`): an extension that has not subscribed to
    SHUTDOWN is killed with a deadline that was fixed before the runtime was shut down and the
    telemetry flushed; when that took longer, no signal is sent and the extension goes on.

## 6. Not modelled

* X-Ray daemon, credentials, users, code archives, the metadata service: start-up I/O or
  constant answers, no state that other parts read again.  Whether a download fails is a fault
  of `InitProgram`.
* The HTTP front ends (`rie`, the routers, rendering, validation of bodies): they call what is
  modelled; a refused request changes nothing.
* Restore and init caching (`rapid/handlers.go`, the restore states): nothing in this
  repository starts them.
* fsnotify: a library; only its use in `hotreloading.go` is the same as the poller's.
* Metrics, logging and the text of messages and reports: no control depends on them.  One
  consequence: the deadline `rie_invoke_request.go:177` puts in the header for the runtime
  multiplies a `time.Duration` by a millisecond; no property here is about it.
* `internal/lambda/telemetry` and `logs.go`: interfaces, stubs and a copy of lines to a buffer.
* The copy of the bandwidth limiter in the managed stack is used by nothing.
* Data races proper (a torn map or word): reading the old or the new value is covered.

## 7. Plan

1. Done: all modules of section 2 and their runs; the theorems of section 4, about every module
   but `HotReload`, whose property is a liveness property.
2. Next: `TypeCorrect` for `HotReload`, `DirectInvoke` and `Telemetry`; safety parts of the
   liveness properties that TLC checks on small instances only (what a waiting goroutine
   waits for), as far as they are invariants.
