---------------------------- MODULE InteropServer ----------------------------
(***************************************************************************)
(* The interop server of internal/lambda/rapidcore/server.go, on top of    *)
(* what Sandbox promises.  One call of Server.Invoke runs as five          *)
(* goroutines:                                                             *)
(*                                                                         *)
(*   main   the select over timeout and release that ends Invoke           *)
(*   timer  the invoke timeout                                             *)
(*   rel    Reserve, AwaitRelease and the reset after a failure            *)
(*   fast   awaitInitialized and FastInvoke                                *)
(*   req    the request FastInvoke passes to the sandbox                   *)
(*                                                                         *)
(* and each Server.Reset as two: the goroutine that resets, and its caller.*)
(* Server.mutex is only seen from outside while a response is handed over  *)
(* on sendResponseChan; every other critical section is one step.          *)
(***************************************************************************)
EXTENDS Naturals, Sequences, Sandbox

CONSTANTS Calls,        \* the calls of Server.Invoke, numbered in their order
          Slow,         \* the calls that may run into their timeout
          MaxReloads,   \* resets that hot reloading asks for
          MaxCrashes,   \* processes that exit by themselves
          MainAwaits,   \* AwaitInitialized comes before the first Invoke (LocalStack)
          Overlap,      \* a call may come before the last one has returned
          Prompt        \* runnable goroutines get on before a timeout or a reset does

ASSUME ServerAssumption ==
    /\ Calls \subseteq Nat \ {0} /\ Slow \subseteq Calls
    /\ MaxReloads \in Nat /\ MaxCrashes \in Nat
    /\ {MainAwaits, Overlap, Prompt} \subseteq BOOLEAN

VARIABLES
    ctx,        \* Server.invokeCtx: the reserved call, its reply stream, ReplySent
    resv,       \* Server.reservationContext: the call that was reserved last
    released,   \* calls whose reservationContext is done
    sender,     \* who holds the mutex at sendResponseChan: a response of the runtime, a
                \* default error, or "none"
    doneChan,   \* InvokeDoneChan, a buffer of one
    initChan,   \* initFailures: "pending", "failed" (a value is offered) or "closed"
    cached,     \* cachedInitErrorResponse is there
    call,       \* per call, the places of its goroutines and what they remember
    reset,      \* per reset, its goroutine and its caller
    rt,         \* the runtime: the invocation it got, and how far its answer is
    replies,    \* per call, what was written to its reply stream
    crashes,
    panicked

mutexVars == <<ctx, resv, released>>
chanVars  == <<sender, doneChan, initChan, cached>>
envVars   == <<rt, replies, crashes, panicked>>
vars == <<sandboxVars, mutexVars, chanVars, call, reset, envVars>>

NoCtx  == [id |-> 0, stream |-> 0, sent |-> FALSE]
Resets == (Calls \X {"timeout", "failure"}) \cup ((1..MaxReloads) \X {"reload"})

MutexFree == sender = "none"

\* Release: the reservation is over and the server can be reserved again.  Mutants do
\* not take the mutex, and do not cancel the reservation.
ReleaseUnlocked ==
    /\ ctx' = NoCtx
    /\ released' = IF ctx = NoCtx THEN released ELSE released \cup {resv}
    /\ UNCHANGED resv

ReleaseUncanceled == MutexFree /\ ctx' = NoCtx /\ UNCHANGED <<resv, released>>

Release ==
    /\ MutexFree
    /\ ctx' = NoCtx
    /\ released' = IF ctx = NoCtx THEN released ELSE released \cup {resv}
    /\ UNCHANGED resv

Init ==
    /\ holder = "init" /\ cancel = "no" /\ outcome = "none"
    /\ ctx = NoCtx /\ resv = 0 /\ released = {}
    /\ sender = "none" /\ doneChan = "empty" /\ initChan = "pending" /\ cached = FALSE
    /\ call = [c \in Calls |-> [main |-> "new", timer |-> "off", rel |-> "none", relCtx |-> 0,
                                fast |-> "none", fastCtx |-> 0, req |-> "none", id |-> 0,
                                ret |-> "none"]]
    /\ reset = [r \in Resets |-> [go |-> "idle", caller |-> "idle"]]
    /\ rt = [id |-> 0, state |-> "idle"]
    /\ replies = [c \in Calls |-> <<>>]
    /\ crashes = 0 /\ panicked = "no"
------------------------------------------------------------------------------
(* The init phase. *)

\* The runtime calls /init/error: SendInitErrorResponse outside of an invocation.
InitError ==
    /\ holder = "init" /\ ~cached /\ cached' = TRUE
    /\ UNCHANGED <<sandboxVars, mutexVars, sender, doneChan, initChan, call, reset, envVars>>

\* handleInit returns and awaitInitCompletion passes the outcome on.
InitReturns(r) ==
    /\ holder = "init" /\ Finish(r)
    /\ cached => r # "ok"
    /\ initChan' = IF r = "ok" THEN "closed" ELSE "failed"
    /\ UNCHANGED <<mutexVars, sender, doneChan, cached, call, reset, envVars>>

\* Server.AwaitInitialized receives a failure, after which the channel is closed.
AwaitInitialized ==
    /\ MainAwaits /\ initChan = "failed" /\ initChan' = "closed"
    /\ Release
    /\ UNCHANGED <<sandboxVars, sender, doneChan, cached, call, reset, envVars>>
------------------------------------------------------------------------------
(* Reset.  Its caller waits for a value on ResetDoneChan, whoever sends it. *)

StartReset(r) == reset' = [reset EXCEPT ![r] = [go |-> "cancel", caller |-> "wait"]]

HotReload(k) ==
    /\ initChan = "closed" /\ reset[<<k, "reload">>].go = "idle"
    /\ \A j \in 1..(k - 1) : reset[<<j, "reload">>].caller = "returned"
    /\ StartReset(<<k, "reload">>)
    /\ UNCHANGED <<sandboxVars, mutexVars, chanVars, call, envVars>>

\* One step of the goroutine of a reset.
Step(r, from, to) == reset[r].go = from /\ reset' = [reset EXCEPT ![r].go = to]

ResetCancel(r) ==
    /\ Step(r, "cancel", "lock")
    /\ Cancel("reset") \/ (cancel # "no" /\ UNCHANGED sandboxVars)
    /\ UNCHANGED <<mutexVars, chanVars, call, envVars>>

\* The reset has the mutex and kills the runtime; an answer on its way is not stopped.
ResetLock(r) ==
    /\ Step(r, "lock", "locked")
    /\ Lock
    /\ rt' \in {rt, [rt EXCEPT !.state = "idle"]}
    /\ UNCHANGED <<mutexVars, chanVars, call, replies, crashes, panicked>>

ResetUnlock(r) ==
    /\ Step(r, "locked", "rearm")
    /\ Unlock
    /\ UNCHANGED <<mutexVars, chanVars, call, envVars>>

\* The Clear of SandboxContext.Reset; nothing here keeps handlers away.
ResetRearm(r) ==
    /\ Step(r, "rearm", "drain")
    /\ cancel' = "no"
    /\ UNCHANGED <<holder, outcome, mutexVars, chanVars, call, envVars>>

\* Mutant: stale results stay in InvokeDoneChan.
Undrained == doneChan
Drained   == "empty"

\* Server.Clear drains InvokeDoneChan ...
ResetDrain(r) ==
    /\ Step(r, "drain", "release")
    /\ Prompt => \A c \in Calls : call[c].req \in {"none", "send", "handling", "done"}
    /\ doneChan' = Drained
    /\ UNCHANGED <<sandboxVars, mutexVars, sender, initChan, cached, call, envVars>>

\* ... and ends the reservation.
ResetRelease(r) ==
    /\ Step(r, "release", "handoff")
    /\ Release
    /\ UNCHANGED <<sandboxVars, chanVars, call, envVars>>

ResetHandoff(r, w) ==
    /\ reset[r].go = "handoff" /\ reset[w].caller = "wait"
    /\ reset' = [reset EXCEPT ![r].go = "done", ![w].caller = "release"]
    /\ UNCHANGED <<sandboxVars, mutexVars, chanVars, call, envVars>>

\* The caller goes on; it releases whatever is reserved by now.
ResetReturns(w) ==
    /\ reset[w].caller = "release" /\ reset' = [reset EXCEPT ![w].caller = "returned"]
    /\ Release
    /\ UNCHANGED <<sandboxVars, chanVars, call, envVars>>
------------------------------------------------------------------------------
(* Invoke: main and timer. *)

Invoke(c) ==
    /\ call[c].main = "new"
    /\ \A d \in Calls : d < c => call[d].main = "returned" \/ (Overlap /\ call[d].main # "new")
    /\ MainAwaits => initChan = "closed"
    /\ call' = [call EXCEPT ![c] = [@ EXCEPT !.main = "select", !.timer = "armed",
                                             !.rel = "reserve"]]
    /\ UNCHANGED <<sandboxVars, mutexVars, chanVars, reset, envVars>>

\* All goroutines of the call have come to where they wait.
Settled(c) ==
    /\ call[c].rel \notin {"reserve", "reserved"} /\ call[c].req # "send"
    /\ call[c].fast \in {"wait", "done"} \/ (call[c].fast = "init" /\ initChan = "pending")

TimerFires(c) ==
    /\ c \in Slow /\ call[c].timer = "armed"
    /\ Prompt => Settled(c)
    /\ call' = [call EXCEPT ![c].timer = "fired"]
    /\ UNCHANGED <<sandboxVars, mutexVars, chanVars, reset, envVars>>

MainTimeout(c) ==
    /\ call[c].main = "select" /\ call[c].timer = "fired"
    /\ call' = [call EXCEPT ![c] = [@ EXCEPT !.main = "resetting", !.timer = "off"]]
    /\ StartReset(<<c, "timeout">>)
    /\ UNCHANGED <<sandboxVars, mutexVars, chanVars, envVars>>

\* Invoke returns: the timer stops, unless it is already blocked on timeoutChan.
Stopped(timer) == IF timer = "armed" THEN "off" ELSE timer

Returns(c, r) ==
    /\ call' = [call EXCEPT ![c] = [@ EXCEPT !.main = "returned", !.rel = "done", !.ret = r,
                                             !.timer = Stopped(call[c].timer)]]
    /\ UNCHANGED <<sandboxVars, chanVars, reset, envVars>>

MainFailure(c) ==
    /\ call[c].main = "select" /\ call[c].rel = "sendErr"
    /\ Returns(c, "failed") /\ UNCHANGED mutexVars

MainSuccess(c) ==
    /\ call[c].main = "select" /\ call[c].rel = "sendOk"
    /\ Release
    /\ Returns(c, "ok")

\* After the reset for a timeout, Invoke still waits for the other goroutine; a mutant
\* does not.
MainReturnsAtOnce(c) ==
    /\ call[c].main = "resetting" /\ reset[<<c, "timeout">>].caller = "returned"
    /\ Returns(c, "timeout") /\ UNCHANGED mutexVars

MainTimedOut(c) ==
    /\ call[c].main = "resetting" /\ reset[<<c, "timeout">>].caller = "returned"
    /\ call[c].rel \in {"sendErr", "sendOk"}
    /\ Returns(c, "timeout") /\ UNCHANGED mutexVars
------------------------------------------------------------------------------
(* Invoke: Reserve and AwaitRelease. *)

\* A reservation that is refused leaves a nil response, which Invoke reads.
Reserve(c) ==
    /\ call[c].rel = "reserve" /\ MutexFree
    /\ \/ /\ ctx = NoCtx
          /\ ctx' = [NoCtx EXCEPT !.id = c] /\ resv' = c
          /\ call' = [call EXCEPT ![c] = [@ EXCEPT !.rel = "reserved", !.fast = "init"]]
          /\ UNCHANGED panicked
       \/ /\ ctx # NoCtx
          /\ panicked' = "nilReservation" /\ UNCHANGED <<ctx, resv, call>>
    /\ UNCHANGED <<sandboxVars, released, chanVars, reset, rt, replies, crashes>>

\* AwaitRelease comes to its select, for the reservation that is current by now.
AwaitRelease(c) ==
    /\ call[c].rel = "reserved"
    /\ call' = [call EXCEPT ![c] = [@ EXCEPT !.rel = "await", !.relCtx = resv]]
    /\ UNCHANGED <<sandboxVars, mutexVars, chanVars, reset, envVars>>

ReleaseDone(c) ==
    /\ call[c].rel = "await" /\ doneChan = "ok" /\ doneChan' = "empty"
    /\ Release
    /\ call' = [call EXCEPT ![c].rel = "sendOk"]
    /\ UNCHANGED <<sandboxVars, sender, initChan, cached, reset, envVars>>

ReleaseFailed(c) ==
    /\ call[c].rel = "await" /\ doneChan = "fail" /\ doneChan' = "empty"
    /\ call' = [call EXCEPT ![c].rel = "resetting"]
    /\ StartReset(<<c, "failure">>)
    /\ UNCHANGED <<sandboxVars, mutexVars, sender, initChan, cached, envVars>>

\* The reservation is over: ErrReleaseReservationDone counts as success.
ReleaseCanceled(c) ==
    /\ call[c].rel = "await" /\ call[c].relCtx \in released
    /\ call' = [call EXCEPT ![c].rel = "sendOk"]
    /\ UNCHANGED <<sandboxVars, mutexVars, chanVars, reset, envVars>>

ReleaseAfterReset(c) ==
    /\ call[c].rel = "resetting" /\ reset[<<c, "failure">>].caller = "returned"
    /\ call' = [call EXCEPT ![c].rel = "sendErr"]
    /\ UNCHANGED <<sandboxVars, mutexVars, chanVars, reset, envVars>>
------------------------------------------------------------------------------
(* awaitInitialized and FastInvoke. *)

\* After a failed init the error is cached, and the sandbox is shut down.
AwaitInit(c) ==
    /\ call[c].fast = "init" /\ initChan # "pending"
    /\ initChan' = "closed"
    /\ cached' = (cached \/ initChan = "failed")
    /\ call' = [call EXCEPT ![c].fast = IF initChan = "failed" THEN "shutdown" ELSE "stream"]
    /\ UNCHANGED <<sandboxVars, mutexVars, sender, doneChan, reset, envVars>>

ShutdownFailedInit(c) ==
    /\ call[c].fast = "shutdown" /\ holder = "none"
    /\ call' = [call EXCEPT ![c].fast = "stream"]
    /\ rt' = [rt EXCEPT !.state = "idle"]
    /\ UNCHANGED <<sandboxVars, mutexVars, chanVars, reset, replies, crashes, panicked>>

SetReplyStream(c) ==
    /\ call[c].fast = "stream" /\ MutexFree
    /\ ctx # NoCtx /\ ~ctx.sent /\ ctx.stream = 0
    /\ ctx' = [ctx EXCEPT !.stream = c]
    /\ call' = [call EXCEPT ![c] = [@ EXCEPT !.fast = "peek", !.id = ctx.id]]
    /\ UNCHANGED <<sandboxVars, resv, released, chanVars, reset, envVars>>

\* ErrNotReserved, ErrAlreadyReplied, ErrAlreadyInvocating.
ReplyStreamRefused(c) ==
    /\ call[c].fast = "stream" /\ MutexFree
    /\ ctx = NoCtx \/ ctx.sent \/ ctx.stream # 0
    /\ call' = [call EXCEPT ![c].fast = "done"]
    /\ UNCHANGED <<sandboxVars, mutexVars, chanVars, reset, envVars>>

\* FastInvoke receives from sendResponseChan: the sender marks the reply as sent and
\* lets the mutex go.
Received(c) ==
    /\ sender # "none" /\ sender' = "none"
    /\ ctx' = [ctx EXCEPT !.sent = TRUE]
    /\ call' = [d \in Calls |->
                  [call[d] EXCEPT !.fast = IF d = c THEN "done" ELSE @,
                                  !.req = IF @ = "sending" THEN "doneFail" ELSE @]]
    /\ rt' = IF sender = "runtime" /\ rt.state = "sending"
             THEN [rt EXCEPT !.state = "answered"] ELSE rt
    /\ UNCHANGED <<sandboxVars, resv, released, doneChan, initChan, cached, reset, replies,
                   crashes, panicked>>

\* ErrInvokeResponseAlreadyWritten: no request is sent.
AlreadyWritten(c) == call[c].fast = "peek" /\ Received(c)

SendRequest(c) ==
    /\ call[c].fast = "peek" /\ sender = "none"
    /\ call' = [call EXCEPT ![c] = [@ EXCEPT !.fast = "wait", !.fastCtx = resv, !.req = "send"]]
    /\ UNCHANGED <<sandboxVars, mutexVars, chanVars, reset, envVars>>

ResponseReceived(c) == call[c].fast = "wait" /\ Received(c)

ReservationDone(c) ==
    /\ call[c].fast = "wait" /\ call[c].fastCtx \in released
    /\ call' = [call EXCEPT ![c].fast = "done"]
    /\ UNCHANGED <<sandboxVars, mutexVars, chanVars, reset, envVars>>
------------------------------------------------------------------------------
(* The request, the runtime that answers it, and processes that exit. *)

HandleInvoke(c) ==
    /\ call[c].req = "send" /\ Begin("invoke")
    /\ call' = [call EXCEPT ![c].req = "handling"]
    /\ rt' = [id |-> call[c].id, state |-> "running"]
    /\ UNCHANGED <<mutexVars, chanVars, reset, replies, crashes, panicked>>

\* The handler succeeds only after the runtime's answer went through.
HandlerReturns(c, r) ==
    /\ call[c].req = "handling" /\ Finish(r)
    /\ r = "ok" => rt.state = "answered"
    /\ call' = [call EXCEPT ![c].req = IF r = "reset" THEN "done" ELSE r]
    /\ UNCHANGED <<mutexVars, chanVars, reset, envVars>>

\* sendResponseUnsafe, up to the send on sendResponseChan; mutants forget a check.
AcceptsAgain(id) == ctx.id = id /\ ctx.stream # 0
AcceptsAny(id)   == ctx # NoCtx /\ ~ctx.sent /\ ctx.stream # 0
Accepts(id)      == ctx # NoCtx /\ ctx.id = id /\ ~ctx.sent /\ ctx.stream # 0

Write(id, by) ==
    /\ replies' = [replies EXCEPT ![ctx.stream] = Append(@, id)]
    /\ sender' = by

\* The runtime calls /response or /error, or /init/error in an inline init.
RuntimeResponds ==
    /\ rt.state = "running" /\ MutexFree
    /\ \/ /\ Accepts(rt.id)
          /\ Write(rt.id, "runtime") /\ rt' = [rt EXCEPT !.state = "sending"]
       \/ /\ ~Accepts(rt.id)
          /\ rt' = [rt EXCEPT !.state = "refused"] /\ UNCHANGED <<replies, sender>>
    /\ UNCHANGED <<sandboxVars, mutexVars, doneChan, initChan, cached, call, reset, crashes,
                   panicked>>

\* trySendDefaultErrorResponse reads the current invoke ID ...
DefaultErrorID(c) ==
    /\ call[c].req = "fail" /\ MutexFree
    /\ call' = [call EXCEPT ![c] = [@ EXCEPT !.req = "default", !.id = ctx.id]]
    /\ UNCHANGED <<sandboxVars, mutexVars, chanVars, reset, envVars>>

\* ... and sends the error to it, unless there was an answer; any other refusal panics.
\* A mutant panics at every refusal.
SendDefaultErrorOrDie(c) ==
    /\ call[c].req = "default" /\ MutexFree
    /\ \/ /\ Accepts(call[c].id)
          /\ Write(c, "default")
          /\ call' = [call EXCEPT ![c].req = "sending"] /\ UNCHANGED panicked
       \/ /\ ~Accepts(call[c].id)
          /\ panicked' = "defaultError" /\ UNCHANGED <<call, replies, sender>>
    /\ UNCHANGED <<sandboxVars, mutexVars, doneChan, initChan, cached, reset, rt, crashes>>

SendDefaultError(c) ==
    /\ call[c].req = "default" /\ MutexFree
    /\ \/ /\ Accepts(call[c].id)
          /\ Write(c, "default")
          /\ call' = [call EXCEPT ![c].req = "sending"] /\ UNCHANGED panicked
       \/ /\ ctx # NoCtx /\ ctx.id = call[c].id /\ ctx.sent
          /\ call' = [call EXCEPT ![c].req = "doneFail"]
          /\ UNCHANGED <<replies, sender, panicked>>
       \/ /\ ctx = NoCtx \/ ctx.id # call[c].id \/ (~ctx.sent /\ ctx.stream = 0)
          /\ panicked' = "defaultError"
          /\ UNCHANGED <<call, replies, sender>>
    /\ UNCHANGED <<sandboxVars, mutexVars, doneChan, initChan, cached, reset, rt, crashes>>

\* The result goes to InvokeDoneChan.
RequestDone(c) ==
    /\ call[c].req \in {"ok", "doneFail"} /\ doneChan = "empty"
    /\ doneChan' = IF call[c].req = "ok" THEN "ok" ELSE "fail"
    /\ call' = [call EXCEPT ![c].req = "done"]
    /\ UNCHANGED <<sandboxVars, mutexVars, sender, initChan, cached, reset, envVars>>

\* The runtime or an extension exits.
Crash ==
    /\ crashes < MaxCrashes /\ crashes' = crashes + 1
    /\ Cancel("exit")
    /\ rt' \in {rt, [rt EXCEPT !.state = IF @ = "running" THEN "idle" ELSE @]}
    /\ UNCHANGED <<mutexVars, chanVars, call, reset, replies, panicked>>
------------------------------------------------------------------------------
Main(c) == MainTimeout(c) \/ MainFailure(c) \/ MainSuccess(c) \/ MainTimedOut(c)

Rel(c) ==
    \/ Reserve(c) \/ AwaitRelease(c) \/ ReleaseDone(c) \/ ReleaseFailed(c)
    \/ ReleaseCanceled(c) \/ ReleaseAfterReset(c)

Fast(c) ==
    \/ AwaitInit(c) \/ ShutdownFailedInit(c) \/ SetReplyStream(c) \/ ReplyStreamRefused(c)
    \/ AlreadyWritten(c) \/ SendRequest(c) \/ ResponseReceived(c) \/ ReservationDone(c)

Req(c) == HandleInvoke(c) \/ DefaultErrorID(c) \/ SendDefaultError(c) \/ RequestDone(c)

ResetGoroutine(r) ==
    \/ ResetCancel(r) \/ ResetLock(r) \/ ResetUnlock(r) \/ ResetRearm(r) \/ ResetDrain(r)
    \/ ResetRelease(r) \/ \E w \in Resets : ResetHandoff(r, w)

Handler ==
    \E r \in Outcomes : InitReturns(r) \/ \E c \in Calls : HandlerReturns(c, r)

Next ==
    /\ panicked = "no"
    /\ \/ InitError \/ AwaitInitialized \/ Handler \/ RuntimeResponds \/ Crash
       \/ \E c \in Calls : \/ Invoke(c) \/ TimerFires(c)
                           \/ Main(c) \/ Rel(c) \/ Fast(c) \/ Req(c)
       \/ \E k \in 1..MaxReloads : HotReload(k)
       \/ \E r \in Resets : ResetGoroutine(r) \/ ResetReturns(r)

Spec == Init /\ [][Next]_vars

\* Runnable goroutines run and the timeout comes.  Of the function nothing is assumed;
\* of the sandbox, that a canceled handler returns.
Running(A) == panicked = "no" /\ A

Fairness ==
    /\ WF_vars(Running(AwaitInitialized)) /\ WF_vars(Running(cancel # "no" /\ Handler))
    /\ \A c \in Calls : /\ WF_vars(Running(TimerFires(c))) /\ WF_vars(Running(Main(c)))
                        /\ WF_vars(Running(Rel(c))) /\ WF_vars(Running(Fast(c)))
                        /\ WF_vars(Running(Req(c)))
    /\ \A r \in Resets : /\ WF_vars(Running(ResetGoroutine(r)))
                         /\ WF_vars(Running(ResetReturns(r)))

FairSpec == Spec /\ Fairness
------------------------------------------------------------------------------
(* Properties *)

CallRec ==
    [main : {"new", "select", "resetting", "returned"}, timer : {"off", "armed", "fired"},
     rel : {"none", "reserve", "reserved", "await", "resetting", "sendOk", "sendErr", "done"},
     relCtx : Calls \cup {0},
     fast : {"none", "init", "shutdown", "stream", "peek", "wait", "done"},
     fastCtx : Calls \cup {0},
     req : {"none", "send", "handling", "ok", "fail", "default", "sending", "doneFail", "done"},
     id : Calls \cup {0}, ret : {"none", "ok", "failed", "timeout"}]
ResetRec ==
    [go : {"idle", "cancel", "lock", "locked", "rearm", "drain", "release", "handoff", "done"},
     caller : {"idle", "wait", "release", "returned"}]

SandboxType == /\ holder \in Handlers \cup {"none", "reset"} /\ cancel \in Causes \cup {"no"}
               /\ outcome \in Outcomes \cup {"none"}
MutexType   == /\ ctx \in [id : Calls \cup {0}, stream : Calls \cup {0}, sent : BOOLEAN]
               /\ resv \in Calls \cup {0} /\ released \subseteq Calls
ChanType    == /\ sender \in {"none", "runtime", "default"} /\ doneChan \in {"empty", "ok", "fail"}
               /\ initChan \in {"pending", "failed", "closed"} /\ cached \in BOOLEAN
CallType    == call \in [Calls -> CallRec]
ResetType   == reset \in [Resets -> ResetRec]
EnvType     == /\ rt \in [id : Calls \cup {0},
                          state : {"idle", "running", "sending", "answered", "refused"}]
               /\ replies \in [Calls -> Seq(Calls)]
               /\ crashes \in Nat /\ panicked \in {"no", "nilReservation", "defaultError"}

\* Type correctness: what goes through the channels and what the goroutines remember is
\* what the code can put there, and only reserved calls are ever released.
TypeOK == SandboxType /\ MutexType /\ ChanType /\ CallType /\ ResetType /\ EnvType

\* Each caller gets at most one reply, and that of its own invocation, however the
\* runtime's answer, the default error, the timeout and the next call interleave
\* (sendResponseUnsafe, trySendDefaultErrorResponse).
ReplyToOwner == \A c \in Calls : replies[c] \in {<<>>, <<c>>}

\* At most one reply is ever written to a stream (ReplySent in sendResponseUnsafe, and
\* the stream that each reservation takes once).
OneReply == \A c \in Calls : Len(replies[c]) <= 1

\* Who is blocked on sendResponseChan holds Server.mutex: there is a FastInvoke that
\* cannot leave before it has received, or the server would hang for ever.
SenderHasReceiver ==
    sender # "none" => \E c \in Calls : \/ call[c].fast = "peek"
                                        \/ call[c].fast = "wait" /\ call[c].fastCtx \notin released

\* Why the last two hold.  A reservation is current until it is released, and no call is
\* reserved twice (setNewInvokeContext, Release).
Reserved ==
    /\ ctx # NoCtx => ctx.id = resv /\ resv \in Calls /\ resv \notin released
    /\ \A d \in Calls : d = resv \/ d \in released => call[d].fast # "none"
    /\ \A c \in Calls : /\ call[c].main = "new" => call[c].rel = "none" /\ call[c].fast = "none"
                        /\ call[c].rel = "reserve" => call[c].fast = "none"

\* The FastInvoke that set the reply stream waits for the reply, on that reservation.
Streams ==
    /\ ctx.stream # 0 => call[ctx.stream].fast \in {"peek", "wait", "done"}
    /\ ctx.stream # 0 /\ ~ctx.sent =>
          \/ call[ctx.stream].fast = "peek"
          \/ call[ctx.stream].fast = "wait" /\ call[ctx.stream].fastCtx = resv
    /\ sender # "none" => ctx.stream # 0 /\ ~ctx.sent

\* Nothing was written to a stream before it was set and until ReplySent tells.
Unwritten ==
    /\ \A c \in Calls : call[c].fast \in {"none", "init", "shutdown", "stream"} => replies[c] = <<>>
    /\ ctx.stream # 0 /\ ~ctx.sent /\ sender = "none" => replies[ctx.stream] = <<>>

ServerInv == TypeOK /\ Reserved /\ Streams /\ Unwritten /\ OneReply

\* Invoke returns without a timeout only when the reply is there for its caller to
\* send on (custom_interop.go: "was already written by rapid and is sent below").
AnsweredUnlessTimedOut ==
    \A c \in Calls : call[c].ret \in {"ok", "failed"} => replies[c] # <<>>

\* No request enters the sandbox while a reset is on its way through it: what
\* RuntimeDomain assumes as Exclusive, and Sandbox in Rearm.
InvokesExcludeResets ==
    [][(holder # "invoke" /\ holder' = "invoke")
         => \A r \in Resets : reset[r].go \notin {"cancel", "lock", "locked", "rearm"}]_vars

\* "Release closes the invocation, making server ready for reserve again": an Invoke
\* that has returned holds no reservation, and has no request in the sandbox.
ReturnedMeansClosed ==
    \A c \in Calls : call[c].ret # "none" => ctx.id # c /\ call[c].req \in {"none", "done"}

\* Neither panic of the invoke path is reached: a nil reservation that is read, and a
\* default error that cannot be sent.
NoPanic == panicked = "no"

\* "For Init failures, AwaitRelease returns ErrReleaseReservationDone because the Reset
\* calls Release & cancels the release context.  We rename the error to
\* ErrInitDoneFailed": Invoke does not pass such an invocation for a success.
InitFailureRenamed ==
    \A c \in Calls : call[c].ret = "ok" /\ replies[c] = <<>> => ~cached

\* Every Invoke returns, whatever the function does: at the latest after the timeout.
InvokeReturns ==
    \A c \in Calls : call[c].main = "select" ~> call[c].main = "returned"
==============================================================================
