---------------------------- MODULE InitProgram ----------------------------
(***************************************************************************)
(* The LocalStack init program (cmd/localstack): the main flow from the    *)
(* start of the Runtime API to the status it reports, the interop server   *)
(* it wraps around rapidcore's, the events API that writes the synthetic   *)
(* INIT_REPORT and REPORT lines, and the three parties that reset the      *)
(* sandbox under it: the hot reloading listener, which runs before the     *)
(* init has started, the init timeout, and the termination signal.         *)
(*                                                                         *)
(* The sandbox underneath is the one RuntimeDomain models, reduced to what *)
(* Sandbox promises: who holds the handler mutex, what canceled the flows, *)
(* and the steps of rapidcore.Server.Reset that InteropServer has.         *)
(***************************************************************************)
EXTENDS Naturals, FiniteSets

CONSTANTS
    Confs,       \* the deployments: [onDemand, hotReload]
    MaxReloads,  \* file changes that reach the reset listener
    MaxInvokes,  \* invocations LocalStack sends
    MaxFaults    \* exits of the runtime, errors and refusals of the init, signals, lost posts

\* What the environment variables choose: on-demand or provisioned, hot reloading or not.
Deployments == [onDemand : BOOLEAN, hotReload : BOOLEAN]

ASSUME InitProgramAssumption ==
    /\ Confs \subseteq Deployments /\ Confs # {}
    /\ MaxReloads \in Nat /\ MaxInvokes \in Nat /\ MaxFaults \in Nat

VARIABLES
    conf,      \* the deployment
    main,      \* where main is
    status,    \* the status LocalStack got: "none", "ready" or the error it was told
    initDone,  \* the channel initDone and the goroutine that feeds it
    failures,  \* rapidcore's initFailures channel: "nil" before the init, "open", a failure
               \* somebody has to take, or "closed"
    att,       \* the init attempt that runs, eager or inline
    rapid,     \* the sandbox: holder of the mutex, what canceled the flows, the first fatal
               \* error, whether the runtime is initialized
    ev,        \* LocalStackEventsAPI
    payload,   \* whether the runtime has posted /init/error
    reset,     \* the calls of Server.Reset: their goroutine and their caller
    token,     \* resetDone: the reset whose token is in the channel
    took,      \* the reset whose token main took
    crossed,   \* whether a caller of Reset took the Done of another reset
    aborter,   \* the reset that aborted the eager init
    ctx,       \* the invocation that has the reservation, 0 for none
    inv,       \* the invocations
    faults     \* how many faults there were

vars == <<conf, main, status, initDone, failures, att, rapid, ev, payload, reset, token, took,
          crossed, aborter, ctx, inv, faults>>

mainVars   == <<main, status, initDone>>
resetVars  == <<reset, token, took, crossed>>
domainVars == <<att, rapid, ev, payload, aborter>>

Reloads == 1 .. MaxReloads
Invokes == 1 .. MaxInvokes

\* Who calls Reset: the listener once per change, main when the init times out, the signal
\* handler, and an invocation that fails or times out.  Named by numbers, 0 for nobody.
ByTimeout == MaxReloads + 1
BySignal  == MaxReloads + 2
ByInvoke  == MaxReloads + 3
Resets    == 1 .. ByInvoke
Nobody    == 0
Exit      == MaxReloads + 4   \* in rapid.cancel: the exit of a process

ErrorTypes == {"", "Runtime.ExitError", "Runtime.InvalidEntrypoint", "Runtime.Unknown", "reported"}

NoReset == [go |-> "idle", caller |-> "idle"]
NoAtt   == [phase |-> "none", pc |-> "idle", res |-> "none"]
NoInv   == [pc |-> "idle", cold |-> FALSE, failed |-> "", res |-> "none",
            report |-> [status |-> "none", error |-> ""], sent |-> "none"]

\* initFailures: there is no channel before the init.
FailureStates == {"nil", "open", "fail", "reset", "closed"}

\* resetDone holds one token, named by the reset that sent it.
Tokens == {Nobody} \cup Resets

\* A new LocalStackEventsAPI
NewEventsAPI == [status |-> "", type |-> "", initError |-> "", timedOut |-> FALSE, cold |-> FALSE]

Alive == main # "exited"

TypeOK ==
    /\ conf \in Confs
    /\ main \in {"boot", "select", "resetting", "discard", "token", "decided", "ready", "exited"}
    /\ status \in {"none", "ready", "payload", "Sandbox.Timeout"} \cup (ErrorTypes \ {""})
    /\ initDone \in {"none", "wait", "fail", "reset", "nilDone", "failDone", "resetDone", "taken"}
    /\ failures \in FailureStates
    /\ att \in [phase : {"none", "init", "invoke"},
                pc : {"idle", "queued", "start", "run", "done", "report", "deliver"},
                res : {"none", "ok", "fail", "reset"}]
    /\ rapid \in [holder : {"none", "init", "invoke"}, cancel : 0 .. Exit,
                  fatal : ErrorTypes, ready : BOOLEAN, wiped : BOOLEAN]
    /\ ev \in [status : {"", "success", "error"}, type : ErrorTypes, initError : ErrorTypes,
               timedOut : BOOLEAN, cold : BOOLEAN]
    /\ payload \in BOOLEAN
    /\ reset \in [Resets -> [go : {"idle", "cancel", "lock", "rearm", "clear", "offer", "end"},
                             caller : {"idle", "wait", "release", "token", "returned"}]]
    /\ token \in Tokens /\ took \in Tokens /\ aborter \in Tokens
    /\ crossed \in BOOLEAN
    /\ ctx \in 0 .. MaxInvokes /\ faults \in 0 .. MaxFaults
    /\ inv \in [Invokes -> [pc : {"idle", "await", "request", "inline", "handle",
                                  "silent", "failing", "resetting", "done"},
                            cold : BOOLEAN, failed : {"", "Init"},
                            res : {"none", "ok", "empty", "failed", "timeout"},
                            report : [status : {"none", "", "timeout", "error"}, error : ErrorTypes],
                            sent : {"none", "response", "error"}]]

Init ==
    /\ conf \in Confs
    /\ main = "boot" /\ status = "none" /\ initDone = "none" /\ failures = "nil"
    /\ att = NoAtt /\ payload = FALSE
    /\ rapid = [holder |-> "none", cancel |-> Nobody, fatal |-> "", ready |-> FALSE, wiped |-> FALSE]
    /\ ev = NewEventsAPI
    /\ reset = [r \in Resets |-> NoReset]
    /\ token = Nobody /\ took = Nobody /\ crossed = FALSE /\ aborter = Nobody
    /\ ctx = 0 /\ inv = [k \in Invokes |-> NoInv] /\ faults = 0

-----------------------------------------------------------------------------
\* LocalStackEventsAPI

\* SendInitStart: a new attempt forgets how the last one ended.
SendInitStartKeeps(e) == [e EXCEPT !.status = "", !.type = ""]
SendInitStart(e) == [e EXCEPT !.status = "", !.type = "", !.initError = ""]

SendInitRuntimeDone(e, s, t) == [e EXCEPT !.status = s, !.type = t]

\* SetInitPhaseTimedOut drops the duration of an init that has finished at the same time.
TimedOutKeepsDuration(e) == [e EXCEPT !.timedOut = TRUE]
SetInitPhaseTimedOut(e) == [e EXCEPT !.timedOut = TRUE, !.cold = FALSE]

\* SendInitReport: no status means that the runtime was never started.  A cold start that
\* succeeds leaves its duration to the REPORT of the first invocation.
SendInitReport(e, phase) ==
    LET st == IF e.status = "" THEN "error" ELSE e.status
    IN  CASE e.timedOut /\ phase = "init" -> [e EXCEPT !.timedOut = FALSE]
          [] ~(e.timedOut /\ phase = "init") /\ st # "success" ->
                 [e EXCEPT !.initError = IF e.type = "" THEN "Runtime.ExitError" ELSE e.type]
          [] ~(e.timedOut /\ phase = "init") /\ st = "success" ->
                 [e EXCEPT !.cold = (phase = "init" /\ conf.onDemand) \/ e.cold]

TakeColdStartInitDuration(e) == [e EXCEPT !.cold = FALSE]

-----------------------------------------------------------------------------
\* The init attempts: doRuntimeDomainInit, run by HandleInit or by an invocation

\* HandleInit has the mutex and doRuntimeDomainInit announces the attempt.
HandleInit ==
    /\ att.phase = "init" /\ att.pc = "queued" /\ rapid.holder = "none"
    /\ rapid' = [rapid EXCEPT !.holder = "init"]
    /\ att' = [att EXCEPT !.pc = "start"] /\ ev' = SendInitStart(ev)
    /\ UNCHANGED <<mainVars, failures, payload, aborter, resetVars, ctx, inv>>

\* The request is refused, or the events of the supervisor cannot be watched: no event is sent.
InitRefused ==
    /\ att.phase = "init" /\ att.pc = "queued" /\ rapid.holder = "none"
    /\ rapid' = [rapid EXCEPT !.holder = "init"]
    /\ att' = [att EXCEPT !.pc = "deliver", !.res = "fail"]
    /\ UNCHANGED <<mainVars, failures, ev, payload, aborter, resetVars, ctx, inv>>

\* The attempt ends: what canceled it decides how.  A reset that aborts the eager init is
\* remembered.
Ends(pc, res) ==
    /\ att' = [att EXCEPT !.pc = pc, !.res = res]
    /\ aborter' = IF res = "reset" /\ att.phase = "init" THEN rapid.cancel ELSE aborter

Cause == IF rapid.cancel = Exit THEN "fail" ELSE "reset"

\* No reset stands between letting the mutex go and its deferred Clear: two adjacent
\* statements, where starting a process and the timers take milliseconds and more.
Prompt == \A r \in Resets : reset[r].go # "rearm"

\* The runtime process is started; before that an extension or the bootstrap may fail.
RuntimeStarted ==
    /\ att.pc = "start" /\ Prompt /\ att' = [att EXCEPT !.pc = "run"]
    /\ UNCHANGED <<mainVars, failures, rapid, ev, payload, aborter, resetVars, ctx, inv>>

BootCanceled ==
    /\ att.pc = "start" /\ rapid.cancel # Nobody
    /\ Ends("report", Cause)
    /\ UNCHANGED <<mainVars, failures, rapid, ev, payload, resetVars, ctx, inv>>

BootFails ==
    /\ att.pc = "start" /\ Ends("report", "fail")
    /\ UNCHANGED <<mainVars, failures, rapid, ev, payload, resetVars, ctx, inv>>

FirstFatal(t) == IF rapid.fatal = "" THEN t ELSE rapid.fatal

\* The process cannot be started: RuntimeDone is reported all the same.
ExecFails ==
    /\ att.pc = "start" /\ Prompt /\ Ends("done", "fail")
    /\ rapid' = [rapid EXCEPT !.fatal = FirstFatal("Runtime.InvalidEntrypoint")]
    /\ UNCHANGED <<mainVars, failures, ev, payload, resetVars, ctx, inv>>

\* AwaitRuntimeRestoreReady and AwaitAgentsReady
RuntimeReady ==
    /\ att.pc = "run" /\ rapid.cancel = Nobody /\ ~rapid.wiped
    /\ Ends("done", "ok") /\ rapid' = [rapid EXCEPT !.ready = TRUE]
    /\ UNCHANGED <<mainVars, failures, ev, payload, resetVars, ctx, inv>>

RunCanceled ==
    /\ att.pc = "run" /\ rapid.cancel # Nobody
    /\ Ends("done", Cause)
    /\ UNCHANGED <<mainVars, failures, rapid, ev, payload, resetVars, ctx, inv>>

\* SendInitErrorResponse: the runtime reports its own error and goes on.
InitError ==
    /\ att.pc = "run" /\ payload' = TRUE
    /\ rapid' = [rapid EXCEPT !.fatal = FirstFatal("reported")]
    /\ UNCHANGED <<mainVars, failures, att, ev, aborter, resetVars, ctx, inv>>

\* The runtime exits: the watcher cancels the flows, unless something has before.
RuntimeExits ==
    /\ att.pc = "run" \/ \E k \in Invokes : inv[k].pc = "handle"
    /\ rapid' = [rapid EXCEPT !.fatal = FirstFatal("Runtime.ExitError"),
                              !.cancel = IF @ = Nobody THEN Exit ELSE @]
    /\ UNCHANGED <<mainVars, failures, att, ev, payload, aborter, resetVars, ctx, inv>>

\* getFirstFatalError: a reset leaves no fatal error, the type is then unknown.
FirstFatalError == IF rapid.fatal = "" THEN "Runtime.Unknown" ELSE rapid.fatal

\* The deferred events, in the order of the unwinding: RuntimeDone, unless the runtime was
\* never started, and the report.
RuntimeDone(e) ==
    CASE att.pc = "report" -> e
      [] att.pc = "done" /\ att.res = "ok" -> SendInitRuntimeDone(e, "success", "")
      [] att.pc = "done" /\ att.res # "ok" -> SendInitRuntimeDone(e, "error", FirstFatalError)

InitReport ==
    /\ att.pc \in {"done", "report"} /\ att' = [att EXCEPT !.pc = "deliver"]
    /\ ev' = SendInitReport(RuntimeDone(ev), att.phase)
    /\ UNCHANGED <<mainVars, failures, rapid, payload, aborter, resetVars, ctx, inv>>

\* handleInit hands its result to awaitInitCompletion, which acknowledges it at once: a
\* failure stays in the channel until somebody takes it, then the channel is closed.
InitDelivered ==
    /\ att.phase = "init" /\ att.pc = "deliver" /\ failures = "open"
    /\ failures' = IF att.res = "ok" THEN "closed" ELSE att.res
    /\ att' = NoAtt /\ rapid' = [rapid EXCEPT !.holder = "none"]
    /\ UNCHANGED <<mainVars, ev, payload, aborter, resetVars, ctx, inv>>

-----------------------------------------------------------------------------
\* rapidcore.Server.Reset

Release == ctx' = 0

StartReset(r) == reset' = [reset EXCEPT ![r] = [go |-> "cancel", caller |-> "wait"]]
Go(r, from, to) == reset[r].go = from /\ reset' = [reset EXCEPT ![r].go = to]

\* resetListener: one change at a time, each waits for its Reset to return.  A signal does not
\* stop it: the file watcher is canceled after the signal's Reset has returned, and the
\* changes that are queued by then are still served.
HotReload(j) ==
    /\ conf.hotReload /\ reset[j] = NoReset
    /\ j > 1 => reset[j - 1].caller = "returned"
    /\ StartReset(j)
    /\ UNCHANGED <<mainVars, failures, domainVars, token, took, crossed, ctx, inv>>

\* signalHandler runs the shutdown functions: the first of them resets the delegate itself.
Signal ==
    /\ reset[BySignal] = NoReset /\ StartReset(BySignal)
    /\ UNCHANGED <<mainVars, failures, domainVars, token, took, crossed, ctx, inv>>

\* HandleReset cancels the flows before it waits for the mutex.
ResetCancel(r) ==
    /\ Go(r, "cancel", "lock")
    /\ rapid' = [rapid EXCEPT !.cancel = IF @ = Nobody THEN r ELSE @]
    /\ UNCHANGED <<mainVars, failures, att, ev, payload, aborter, token, took, crossed, ctx, inv>>

\* handleReset stops the processes while it holds the mutex.
HandleReset(r) ==
    /\ Go(r, "lock", "rearm") /\ rapid.holder = "none"
    /\ UNCHANGED <<mainVars, failures, domainVars, token, took, crossed, ctx, inv>>

\* The deferred Clear of SandboxContext.Reset runs after the mutex is free again: an init
\* that has started in between loses its registrations.
ResetRearm(r) ==
    /\ Go(r, "rearm", "clear")
    /\ rapid' = [rapid EXCEPT !.cancel = Nobody, !.fatal = "", !.ready = FALSE,
                              !.wiped = rapid.holder # "none"]
    /\ UNCHANGED <<mainVars, failures, att, ev, payload, aborter, token, took, crossed, ctx, inv>>

\* Server.Clear
ResetClear(r) ==
    /\ Go(r, "clear", "offer") /\ Release
    /\ UNCHANGED <<mainVars, failures, domainVars, token, took, crossed, inv>>

\* ResetDoneChan is one channel for all: any caller that waits takes the Done.
ResetHandoff(r, w) ==
    /\ reset[r].go = "offer" /\ reset[w].caller = "wait"
    /\ reset' = [reset EXCEPT ![r].go = "end", ![w].caller = "release"]
    /\ crossed' = (crossed \/ r # w)
    /\ UNCHANGED <<mainVars, failures, domainVars, token, took, ctx, inv>>

\* Server.Reset returns after a Release of its own.
CallerReleases(w) ==
    /\ reset[w].caller = "release" /\ Release
    /\ reset' = [reset EXCEPT ![w].caller = IF w \in Reloads THEN "token" ELSE "returned"]
    /\ UNCHANGED <<mainVars, failures, domainVars, token, took, crossed, inv>>

\* CustomInteropServer.Reset: a token for main, unless one is there.  Before it a Reset that
\* sends the token before the delegate has returned, and a channel without a buffer.
TokenBeforeReset(w) ==
    /\ w \in Reloads /\ reset[w].caller \in {"wait", "token"}
    /\ reset' = [reset EXCEPT ![w].caller = IF @ = "token" THEN "returned" ELSE @]
    /\ token' = IF token = Nobody THEN w ELSE token
    /\ UNCHANGED <<mainVars, failures, domainVars, took, crossed, ctx, inv>>

UnbufferedToken(w) ==
    /\ reset[w].caller = "token"
    /\ reset' = [reset EXCEPT ![w].caller = "returned"]
    /\ token' = IF main = "token" THEN w ELSE token
    /\ UNCHANGED <<mainVars, failures, domainVars, took, crossed, ctx, inv>>

SendResetDone(w) ==
    /\ reset[w].caller = "token"
    /\ reset' = [reset EXCEPT ![w].caller = "returned"]
    /\ token' = IF token = Nobody THEN w ELSE token
    /\ UNCHANGED <<mainVars, failures, domainVars, took, crossed, ctx, inv>>

-----------------------------------------------------------------------------
\* main

\* The Runtime API answers, InitHandler starts the eager init, and a goroutine awaits it.
StartInit ==
    /\ main = "boot" /\ main' = "select" /\ initDone' = "wait" /\ failures' = "open"
    /\ att' = [NoAtt EXCEPT !.phase = "init", !.pc = "queued"]
    /\ UNCHANGED <<status, rapid, ev, payload, aborter, resetVars, ctx, inv>>

\* The settings are refused before anything runs: a required variable is missing, the log
\* level, the payload size or the function timeout cannot be read.
SettingsRefused ==
    /\ main = "boot" /\ reset = [r \in Resets |-> NoReset] /\ main' = "exited"
    /\ UNCHANGED <<status, initDone, failures, domainVars, resetVars, ctx, inv>>

\* One archive that cannot be fetched or unpacked ends the program; modes that cannot be
\* changed, a user that cannot be switched to and a missing home are only warned about.
DownloadCodeArchivesFails ==
    /\ main = "boot" /\ reset = [r \in Resets |-> NoReset] /\ main' = "exited"
    /\ UNCHANGED <<status, initDone, failures, domainVars, resetVars, ctx, inv>>

\* waitForRuntimeAPI gives up.
NoRuntimeAPI ==
    /\ main = "boot" /\ main' = "exited"
    /\ UNCHANGED <<status, initDone, failures, domainVars, resetVars, ctx, inv>>

\* Server.AwaitInitialized: a failure is taken out of the channel, which is then closed, and
\* the reservation is released before the caller hears of it.
AwaitInitialized ==
    /\ initDone = "wait" /\ failures \in {"closed", "fail", "reset"}
    /\ initDone' = IF failures = "closed" THEN "nilDone" ELSE failures
    /\ failures' = "closed"
    /\ UNCHANGED <<main, status, domainVars, resetVars, ctx, inv>>

AwaitInitializedReleases ==
    /\ initDone \in {"fail", "reset"} /\ Release
    /\ initDone' = IF initDone = "fail" THEN "failDone" ELSE "resetDone"
    /\ UNCHANGED <<main, status, failures, domainVars, resetVars, inv>>

\* ReportInitFailure: the runtime's own error if it has posted one.
ReportInitFailure(t) == status' = IF payload THEN "payload" ELSE t

\* The init is over before its timer fires.
InitSucceeded ==
    /\ main = "select" /\ initDone = "nilDone" /\ initDone' = "taken" /\ main' = "decided"
    /\ UNCHANGED <<status, failures, domainVars, resetVars, ctx, inv>>

InitFailureFolded ==
    /\ main = "select" /\ initDone = "failDone" /\ conf.onDemand
    /\ initDone' = "taken" /\ main' = "decided"
    /\ UNCHANGED <<status, failures, domainVars, resetVars, ctx, inv>>

InitFailureReportedAndExit ==
    /\ main = "select" /\ initDone = "failDone" /\ ~conf.onDemand
    /\ initDone' = "taken" /\ main' = "exited"
    /\ ReportInitFailure(IF ev.initError = "" THEN "Runtime.ExitError" ELSE ev.initError)
    /\ UNCHANGED <<failures, domainVars, resetVars, ctx, inv>>

\* A reset has aborted the init: with hot reloading main waits for a token, else it exits.
InitWasReset ==
    /\ main = "select" /\ initDone = "resetDone" /\ initDone' = "taken"
    /\ main' = IF conf.hotReload THEN "token" ELSE "exited"
    /\ UNCHANGED <<status, failures, domainVars, resetVars, ctx, inv>>

TakeToken ==
    /\ main = "token" /\ token # Nobody
    /\ main' = "decided" /\ took' = token /\ token' = Nobody
    /\ UNCHANGED <<status, initDone, failures, domainVars, reset, crossed, ctx, inv>>

\* The timer fires, whether or not the result is there, but seconds after the goroutine of
\* HandleInit was started: on demand the attempt is marked and reset, else the failure is
\* reported.
InitTimerFires ==
    /\ main = "select" /\ conf.onDemand /\ att.pc # "queued" /\ Prompt
    /\ main' = "resetting" /\ StartReset(ByTimeout) /\ ev' = SetInitPhaseTimedOut(ev)
    /\ UNCHANGED <<status, initDone, failures, att, rapid, payload, aborter, token, took, crossed,
                   ctx, inv>>

ExtendedInitTimesOut ==
    /\ main = "select" /\ ~conf.onDemand /\ att.pc # "queued" /\ Prompt
    /\ main' = "exited" /\ ReportInitFailure("Sandbox.Timeout")
    /\ UNCHANGED <<initDone, failures, domainVars, resetVars, ctx, inv>>

InitTimeoutReset ==
    /\ main = "resetting" /\ reset[ByTimeout].caller = "returned" /\ main' = "discard"
    /\ UNCHANGED <<status, initDone, failures, domainVars, resetVars, ctx, inv>>

\* The result of the aborted init is awaited and thrown away.
DiscardResult ==
    /\ main = "discard" /\ initDone \in {"nilDone", "failDone", "resetDone"}
    /\ initDone' = "taken" /\ main' = "decided"
    /\ UNCHANGED <<status, failures, domainVars, resetVars, ctx, inv>>

SendReady ==
    /\ main = "decided" /\ main' = "ready" /\ status' = "ready"
    /\ UNCHANGED <<initDone, failures, domainVars, resetVars, ctx, inv>>

SendReadyFails ==
    /\ main = "decided" /\ main' = "exited"
    /\ UNCHANGED <<status, initDone, failures, domainVars, resetVars, ctx, inv>>

\* The last shutdown function meets main at exitChan.
ExitChan ==
    /\ main = "ready" /\ reset[BySignal].caller = "returned" /\ main' = "exited"
    /\ UNCHANGED <<status, initDone, failures, domainVars, resetVars, ctx, inv>>

-----------------------------------------------------------------------------
\* The invocations: LocalStack sends one when it is told ready, and the next when it has the
\* result.  The steps of Server.Invoke that matter here; InteropServer has them all.

Set(k, pc) == inv' = [inv EXCEPT ![k].pc = pc]

\* The handler of /invoke takes the cold start duration, then Server.Invoke reserves.
Dispatch(k) ==
    /\ main = "ready" /\ inv[k] = NoInv /\ (k > 1 => inv[k - 1].pc = "done")
    /\ inv' = [inv EXCEPT ![k].pc = "await", ![k].cold = ev.cold]
    /\ ctx = 0 /\ ctx' = k
    /\ ev' = TakeColdStartInitDuration(ev)
    /\ UNCHANGED <<mainVars, failures, att, rapid, payload, aborter, resetVars>>

\* awaitInitialized sees the closed channel, setReplyStream the reservation.
SetReplyStream(k) ==
    /\ inv[k].pc = "await" /\ failures = "closed"
    /\ Set(k, IF ctx = k THEN "request" ELSE "silent")
    /\ UNCHANGED <<mainVars, failures, domainVars, resetVars, ctx>>

\* HandleInvoke runs an inline init when the sandbox is not initialized.
HandleInvoke(k) ==
    /\ inv[k].pc = "request" /\ rapid.holder = "none" /\ att = NoAtt
    /\ rapid' = [rapid EXCEPT !.holder = "invoke", !.wiped = FALSE]
    /\ \/ rapid.ready /\ Set(k, "handle") /\ UNCHANGED <<att, ev>>
       \/ /\ ~rapid.ready /\ Set(k, "inline")
          /\ att' = [NoAtt EXCEPT !.phase = "invoke", !.pc = "start"] /\ ev' = SendInitStart(ev)
    /\ UNCHANGED <<mainVars, failures, payload, aborter, resetVars, ctx>>

\* Where an invocation goes when its handler is over: a reset is not answered.
After(k, res) == IF res = "reset" \/ inv[k].res = "timeout" THEN "silent" ELSE "failing"

InlineInitReturns(k) ==
    /\ inv[k].pc = "inline" /\ att.pc = "deliver" /\ att' = NoAtt
    /\ \/ att.res = "ok" /\ Set(k, "handle") /\ UNCHANGED rapid
       \/ /\ att.res # "ok"
          /\ inv' = [inv EXCEPT ![k].pc = After(k, att.res), ![k].failed = "Init"]
          /\ rapid' = [rapid EXCEPT !.holder = "none"]
    /\ UNCHANGED <<mainVars, failures, ev, payload, aborter, resetVars, ctx>>

\* What the handler of /invoke makes of the result: only a failure that an init has caused
\* is named in the report.
Outcome(res) ==
    CASE res = "timeout" -> [status |-> "timeout", error |-> ""]
      [] res = "failed" /\ ev.initError # "" -> [status |-> "error", error |-> ev.initError]
      [] OTHER -> [status |-> "", error |-> ""]

\* SendResult: to /error if the handler says so or the body has an error type.
SendResult(isError, hasErrorType) == IF isError \/ hasErrorType THEN "error" ELSE "response"

\* END and REPORT are written, then logs and result are sent; a lost post is only logged.
PrintEndReports(k, res, hasErrorType) ==
    inv' = [inv EXCEPT ![k].pc = "done", ![k].res = res, ![k].report = Outcome(res),
                       ![k].sent = SendResult(Outcome(res).status # "", hasErrorType)]

\* The runtime answers; without the reservation the answer is refused.
HandlerOk(k) ==
    /\ inv[k].pc = "handle" /\ rapid.cancel = Nobody
    /\ rapid' = [rapid EXCEPT !.holder = "none"]
    /\ \/ /\ ctx = k /\ inv[k].res = "none" /\ Release
          /\ \E hasErrorType \in BOOLEAN : PrintEndReports(k, "ok", hasErrorType)
       \/ ctx # k /\ Set(k, "silent") /\ UNCHANGED ctx
    /\ UNCHANGED <<mainVars, failures, att, ev, payload, aborter, resetVars>>

HandlerCanceled(k) ==
    /\ inv[k].pc = "handle" /\ rapid.cancel # Nobody
    /\ rapid' = [rapid EXCEPT !.holder = "none"] /\ Set(k, After(k, Cause))
    /\ UNCHANGED <<mainVars, failures, att, ev, payload, aborter, resetVars, ctx>>

\* The default error goes to the reservation and the failure resets the sandbox; without
\* the reservation trySendDefaultErrorResponse panics.
InvokeFails(k) ==
    /\ inv[k].pc = "failing"
    /\ \/ /\ ctx = k /\ reset[ByInvoke] = NoReset /\ StartReset(ByInvoke)
          /\ inv' = [inv EXCEPT ![k].pc = "resetting", ![k].res = "failed"]
          /\ UNCHANGED main
       \/ ctx # k /\ main' = "exited" /\ UNCHANGED <<reset, inv>>
    /\ UNCHANGED <<status, initDone, failures, domainVars, token, took, crossed, ctx>>

\* The function timeout.
InvokeTimesOut(k) ==
    /\ inv[k].pc \in {"inline", "handle"} /\ Prompt /\ inv[k].res = "none" /\ reset[ByInvoke] = NoReset
    /\ StartReset(ByInvoke) /\ inv' = [inv EXCEPT ![k].res = "timeout"]
    /\ UNCHANGED <<mainVars, failures, domainVars, token, took, crossed, ctx>>

\* A reservation that somebody else has released ends the invocation without an answer.
ReservationDone(k) ==
    /\ inv[k].pc = "silent" /\ inv[k].res = "none" /\ ctx # k
    /\ PrintEndReports(k, "empty", FALSE)
    /\ UNCHANGED <<mainVars, failures, domainVars, resetVars, ctx>>

\* The Reset of the invocation has returned: the REPORT line has the error of the last init.
InvokeReturns(k) ==
    /\ inv[k].pc = IF inv[k].res = "timeout" THEN "silent" ELSE "resetting"
    /\ reset[ByInvoke].caller = "returned"
    /\ reset' = [reset EXCEPT ![ByInvoke] = IF @.go = "end" THEN NoReset ELSE @]
    /\ \E hasErrorType \in (IF payload THEN BOOLEAN ELSE {TRUE}) :
           PrintEndReports(k, inv[k].res, hasErrorType)
    /\ UNCHANGED <<mainVars, failures, domainVars, token, took, crossed, ctx>>

-----------------------------------------------------------------------------
Attempt ==
    \/ HandleInit \/ RuntimeStarted \/ BootCanceled \/ RunCanceled
    \/ InitReport \/ InitDelivered

ResetStep(r) ==
    \/ ResetCancel(r) \/ HandleReset(r) \/ ResetRearm(r) \/ ResetClear(r)
    \/ CallerReleases(r) \/ SendResetDone(r)
    \/ \E w \in Resets : ResetHandoff(r, w)

Main ==
    \/ StartInit \/ AwaitInitialized \/ AwaitInitializedReleases
    \/ InitSucceeded \/ InitFailureFolded \/ InitFailureReportedAndExit \/ InitWasReset
    \/ TakeToken \/ InitTimeoutReset \/ DiscardResult \/ SendReady \/ ExitChan

InvokeStep(k) ==
    \/ SetReplyStream(k) \/ HandleInvoke(k) \/ InlineInitReturns(k)
    \/ HandlerCanceled(k) \/ InvokeFails(k) \/ ReservationDone(k) \/ InvokeReturns(k)

Program ==
    \/ Attempt \/ Main \/ \E r \in Resets : ResetStep(r) \/ \E k \in Invokes : InvokeStep(k)

World ==
    \/ RuntimeReady \/ \E j \in Reloads : HotReload(j)
    \/ \E k \in Invokes : Dispatch(k) \/ HandlerOk(k)

Fault ==
    \/ InitRefused \/ BootFails \/ ExecFails \/ InitError \/ RuntimeExits
    \/ SettingsRefused \/ DownloadCodeArchivesFails \/ NoRuntimeAPI \/ SendReadyFails
    \/ Signal

\* The timers always fire in the end.
Timer == InitTimerFires \/ ExtendedInitTimesOut \/ \E k \in Invokes : InvokeTimesOut(k)

Next ==
    \/ Alive /\ (Program \/ World \/ Timer) /\ UNCHANGED <<conf, faults>>
    \/ Alive /\ Fault /\ faults < MaxFaults /\ faults' = faults + 1 /\ UNCHANGED conf

\* The program goes on while a goroutine of it can, and the timers fire; the runtime, the
\* client and the file system owe nothing.  One condition for all goroutines is enough: no
\* goroutine of this model goes on for ever, so that none can starve another.
Fairness == WF_vars(Alive /\ UNCHANGED <<conf, faults>> /\ (Program \/ Timer))

Spec == Init /\ [][Next]_vars /\ Fairness

-----------------------------------------------------------------------------
\* Properties

\* main tells LocalStack that it is ready only after the reset it has waited for has
\* released the server, so that its Release cannot cancel the reservation of the first
\* invocation (the comments at resetDone and in main).  Left out: the token of an earlier
\* reset that main takes for this one's, and a Done that went to another caller.
ReadyAfterRelease ==
    \A r \in Resets :
        /\ status = "ready" /\ aborter = r
        /\ r = ByTimeout \/ (r \in Reloads /\ reset[ByTimeout] = NoReset)
        /\ took \in {Nobody, r} /\ ~crossed
        => reset[r].go = "end" /\ reset[r].caller \in {"token", "returned"}

\* The REPORT of a failed invocation names an init error if and only if the init that
\* failed is the one this invocation ran: no earlier attempt taints it.
InitErrorIsOwn ==
    \A k \in Invokes : inv[k].pc = "done" /\ inv[k].res = "failed" =>
        (inv[k].report.error # "" <=> inv[k].failed # "")

\* The cold start duration is reported at most once, with the first invocation, and never
\* for an init that main has declared timed out, however the timer races the result.
ColdStartOnce ==
    \A k \in Invokes : inv[k].cold =>
        k = 1 /\ conf.onDemand /\ reset[ByTimeout] = NoReset

\* The reset of the termination signal goes to the delegate and sends no token.
TokenNeverSent == aborter = BySignal /\ conf.hotReload

\* main reports a status or exits, whatever the runtime does and whoever resets it, and a
\* termination signal ends it; except when the signal aborts the init of a hot reloading
\* function.
MainDecides ==
    /\ main = "boot" ~> main \in {"ready", "exited"} \/ TokenNeverSent
    /\ reset[BySignal] # NoReset ~> main = "exited" \/ TokenNeverSent

\* "Trap SIGINT and SIGTERM signals, call shutdown function": the signal ends the program.
SignalEnds == reset[BySignal] # NoReset ~> main = "exited"
=============================================================================
