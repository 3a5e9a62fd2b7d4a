---------------------------- MODULE InvokeRouter ----------------------------
(***************************************************************************)
(* The invoke router of the managed instances                              *)
(* (internal/lambda-managed-instances/invoke, with the handlers of         *)
(* /runtime/invocation in rapi/handler and the responder of                *)
(* aws-lambda-rie).  The workers of the runtime park a /next each; an      *)
(* invoke takes one, possibly reserved for it beforehand, sends its event  *)
(* there and waits for the /response or /error with its ID, for its        *)
(* timeout, or for the abort of a shutdown.                                *)
(*                                                                         *)
(* One call of Invoke, one /next and one /response or /error is a process  *)
(* each; a step ends where the code takes a lock, uses an atomic or a      *)
(* channel.  The runtime is not trusted to be fair: it may post twice,     *)
(* late, never, or stop in the middle of a body.                           *)
(***************************************************************************)
EXTENDS Naturals, Sequences, FiniteSets, SequencesExt

CONSTANTS
    Ids,         \* invoke IDs, chosen by the client: two calls may bring the same
    MaxCalls,    \* calls of Invoke
    MaxNexts,    \* /next requests
    MaxReqs,     \* /response and /error requests
    MaxReserves, \* reservations
    MaxFaults,   \* reservations, and faults of client and runtime: lost connections, bad
                 \* bodies and headers
    MaxSize,     \* size of the runtime pool
    CacheSize    \* timeoutCacheSize

ASSUME RouterAssumption ==
    /\ MaxCalls \in Nat /\ MaxNexts \in Nat /\ MaxReqs \in Nat
    /\ MaxReserves \in Nat /\ MaxFaults \in Nat /\ MaxSize \in Nat \ {0} /\ CacheSize \in Nat \ {0}

Calls  == 1 .. MaxCalls
Nexts  == 1 .. MaxNexts
Reqs   == 1 .. MaxReqs
Timers == 1 .. MaxReserves
None   == 0
Absent == 0              \* an ID that is not in runningInvokes ...
Nil    == MaxNexts + 1   \* ... and one stored with a nil runtime

VARIABLES
    \* RuntimePool
    idle,      \* parked /next requests, oldest first
    reserved,  \* the reservation of an ID: its /next and its timer
    timer,     \* time.AfterFunc of each reservation
    asking,    \* IDs whose ReserveIdleRuntime has passed the check of runningInvokes
    \* InvokeRouter
    running,   \* runningInvokes: Absent, Nil (the placeholder) or a /next
    cache,     \* RecentCache of timed out IDs, oldest first
    aborting,  \* AbortRunningInvokes: "no", "waiting", "done"
    call, next, req,
    faults     \* how many faults and reservations there were

vars == <<idle, reserved, timer, asking, running, cache, aborting, call, next, req, faults>>
poolVars == <<idle, reserved, timer, asking>>

-----------------------------------------------------------------------------
(* State. *)

CallStates == {"new", "refused", "placed", "acquired", "stored", "sending", "waiting",
               "body", "truncating", "notifying", "unwinding", "done"}
InFlight   == CallStates \ {"new", "refused", "done"}

\* context.Cause of the invoke's context, as BuildInvokeAppError turns it into an error.
Causes == {"live", "timeout", "aborted", "platform"}

\* Errors of an invoke; "nil" is success.  "function" is an /error of the runtime, "trailer"
\* an error in the trailers of its /response.
Errors == {"nil", "function", "trailer", "oversized", "truncated", "parsing", "unknown"}
              \cup (Causes \ {"live"})

NewCall == [pc |-> "new", id |-> None, run |-> None, ctx |-> "live", err |-> "nil",
            from |-> None, answers |-> 0]

\* newRunningInvoke: one per /next.  pc is where the handler of /next is.
NewNext == [pc |-> "unborn", iid |-> None, state |-> "noResponse", sent |-> FALSE,
            got |-> None, response |-> None, error |-> None,
            responseSent |-> "empty", errorSent |-> "empty", cancel |-> "live"]

NewReq == [pc |-> "unborn", kind |-> "response", id |-> None, echo |-> None, valid |-> TRUE,
           run |-> None, status |-> "none"]

\* HTTP answers the runtime gets; "panic": the handler dies and the connection breaks.
Statuses == {"none", "accepted", "invalidRequestID", "timeout", "badMode", "tooLarge",
             "truncated", "internal", "panic"}

CallRecs == [pc : CallStates, id : Ids \cup {None}, run : Nexts \cup {None}, ctx : Causes,
             err : Errors, from : Reqs \cup {None}, answers : 0 .. 1]

NextRecs == [pc : {"unborn", "refused", "parked", "event", "failed", "gone"},
             iid : Calls \cup {None}, state : {"noResponse", "gotResponse", "gotError"},
             sent : BOOLEAN, got : Calls \cup {None},
             response : Reqs \cup {None}, error : Reqs \cup {None},
             responseSent : Errors \cup {"empty"}, errorSent : Errors \cup {"empty"},
             cancel : Causes \cup {"ended", "unknown"}]

\* A /response may have a bad mode header, an /error is never refused for its form.
ResponseRecs == [pc : {"unborn", "lookup", "found", "swapped", "await", "done"},
                 kind : {"response"}, id : Ids \cup {None}, echo : Calls \cup {None},
                 valid : BOOLEAN, run : Nexts \cup {None}, status : Statuses]
ErrorRecs == [pc : {"lookup", "found", "await", "done"},
              kind : {"error"}, id : Ids, echo : Calls \cup {None}, valid : {TRUE},
              run : Nexts \cup {None}, status : Statuses]

PoolType ==
    /\ idle \in Seq(Nexts)
    /\ reserved \in [Ids -> [run : Nexts \cup {None}, timer : Timers \cup {None}]]
    /\ timer \in [Timers -> [st : {"unused", "armed", "fired", "off"}, id : Ids \cup {None}]]
    /\ asking \subseteq Ids

ProcessType ==
    /\ running \in [Ids -> Nexts \cup {Absent, Nil}]
    /\ aborting \in {"no", "waiting", "done"} /\ faults \in 0 .. MaxFaults
    /\ call \in [Calls -> CallRecs]
    /\ next \in [Nexts -> NextRecs]
    /\ req \in [Reqs -> ResponseRecs \cup ErrorRecs]

CacheType == cache \in Seq(Ids) /\ Len(cache) <= CacheSize

TypeOK == PoolType /\ ProcessType /\ CacheType

NewRecentCache == <<>>
NoReservation  == [run |-> None, timer |-> None]

Init ==
    /\ idle = <<>> /\ cache = NewRecentCache /\ asking = {} /\ aborting = "no" /\ faults = 0
    /\ reserved = [i \in Ids |-> NoReservation]
    /\ timer = [t \in Timers |-> [st |-> "unused", id |-> None]]
    /\ running = [i \in Ids |-> Absent]
    /\ call = [c \in Calls |-> NewCall]
    /\ next = [n \in Nexts |-> NewNext]
    /\ req = [r \in Reqs |-> NewReq]

\* Processes of one kind start in the order of their numbers.
Fresh(f, k) == f[k].pc \in {"new", "unborn"}
                   /\ \A j \in DOMAIN f : j < k => f[j].pc \notin {"new", "unborn"}

SetCall(c, r) == call' = [call EXCEPT ![c] = r]
SetNext(n, r) == next' = [next EXCEPT ![n] = r]
SetReq(q, r)  == req' = [req EXCEPT ![q] = r]

-----------------------------------------------------------------------------
(* RuntimePool and RecentCache: each operation holds the structure's mutex. *)

Reserved == {i \in Ids : reserved[i].run # None}
Full     == Len(idle) + Cardinality(Reserved) >= MaxSize

\* Add.
Add(n) == idle' = Append(idle, n) /\ UNCHANGED <<reserved, timer, asking>>

\* Reserve: the oldest idle runtime, with a timer that gives it back.
Reserve(i, t) ==
    /\ Fresh([u \in Timers |-> [pc |-> IF timer[u].st = "unused" THEN "new" ELSE "old"]], t)
    /\ reserved' = [reserved EXCEPT ![i] = [run |-> Head(idle), timer |-> t]]
    /\ timer' = [timer EXCEPT ![t] = [st |-> "armed", id |-> i]]
    /\ idle' = Tail(idle)

\* Timer.Stop: it does nothing when the timer has fired.
Stop(t) == timer' = IF t = None \/ timer[t].st # "armed" THEN timer
                    ELSE [timer EXCEPT ![t].st = "off"]

\* mutant: the reservation is not deleted
ExpireKeeps(i) ==
    /\ IF i \in Reserved THEN idle' = Append(idle, reserved[i].run) ELSE UNCHANGED idle
    /\ UNCHANGED reserved

\* ExpireReservation: it finds whatever reservation the ID has by now.
ExpireReservation(i) ==
    /\ IF i \in Reserved
       THEN /\ idle' = Append(idle, reserved[i].run)
            /\ reserved' = [reserved EXCEPT ![i] = NoReservation]
       ELSE UNCHANGED <<idle, reserved>>

\* mutant: neither duplicates nor the size are looked at
RegisterAlways(i, cs) == Append(cs, i)

\* Register and Consume.
Register(i, cs) ==
    IF Contains(cs, i) THEN Append(Remove(cs, i), i)
    ELSE Append(IF Len(cs) = CacheSize THEN Tail(cs) ELSE cs, i)
Consume(i) == cache' = Remove(cache, i)

-----------------------------------------------------------------------------
(* /next. *)

\* InvocationNextHandler and RuntimeNext: park the request, or refuse it.
RuntimeNext(n) ==
    /\ Fresh(next, n)
    /\ IF Full THEN SetNext(n, [NewNext EXCEPT !.pc = "refused"]) /\ UNCHANGED poolVars
               ELSE SetNext(n, [NewNext EXCEPT !.pc = "parked"]) /\ Add(n)
    /\ UNCHANGED <<running, cache, aborting, call, req>>

\* RuntimeNextWait returns as soon as the event was sent or the run was canceled.  (When
\* both hold by the time it runs it may report the second; the worker has its event then.)
RuntimeNextWait(r) ==
    IF r.pc # "parked" THEN r
    ELSE IF r.sent THEN [r EXCEPT !.pc = "event"]
    ELSE IF r.cancel # "live" THEN [r EXCEPT !.pc = "failed"] ELSE r

\* The worker goes away: the handler returns and its entry stays in the pool.
WorkerGone(n) ==
    /\ next[n].pc = "parked"
    /\ SetNext(n, [next[n] EXCEPT !.pc = "gone"])
    /\ UNCHANGED <<poolVars, running, cache, aborting, call, req>>

-----------------------------------------------------------------------------
(* Reservations. *)

\* ReserveIdleRuntime looks for a running invoke of that ID ...
ReserveCheck(i) ==
    /\ running[i] = Absent /\ i \notin asking
    /\ \E t \in Timers : timer[t].st = "unused"
    /\ asking' = asking \cup {i}
    /\ UNCHANGED <<idle, reserved, timer, running, cache, aborting, call, next, req>>

\* ... and reserves later, when such an invoke may be running.
ReserveIdleRuntime(i) ==
    /\ i \in asking /\ asking' = asking \ {i}
    /\ IF i \in Reserved \/ idle = <<>> THEN UNCHANGED <<idle, reserved, timer>>
       ELSE \E t \in Timers : Reserve(i, t)
    /\ UNCHANGED <<running, cache, aborting, call, next, req>>

TimerFires(t) ==
    /\ timer[t].st = "armed"
    /\ timer' = [timer EXCEPT ![t].st = "fired"]
    /\ UNCHANGED <<idle, reserved, asking, running, cache, aborting, call, next, req>>

OnExpire(t) ==
    /\ timer[t].st = "fired"
    /\ timer' = [timer EXCEPT ![t].st = "off"]
    /\ ExpireReservation(timer[t].id)
    /\ UNCHANGED <<asking, running, cache, aborting, call, next, req>>

-----------------------------------------------------------------------------
(* Invoke. *)

\* SetIfAbsent stores a placeholder until there is a runtime.
Invoke(c, i) ==
    /\ Fresh(call, c)
    /\ IF running[i] # Absent
       THEN SetCall(c, [NewCall EXCEPT !.pc = "refused", !.id = i]) /\ UNCHANGED running
       ELSE /\ SetCall(c, [NewCall EXCEPT !.pc = "placed", !.id = i])
            /\ running' = [running EXCEPT ![i] = Nil]
    /\ UNCHANGED <<poolVars, cache, aborting, next, req>>

\* Acquire: the runtime reserved for the ID, the oldest idle one, or none.
Acquire(c) ==
    LET i == call[c].id IN
    /\ call[c].pc = "placed"
    /\ \/ /\ i \in Reserved
          /\ SetCall(c, [call[c] EXCEPT !.pc = "acquired", !.run = reserved[i].run])
          /\ reserved' = [reserved EXCEPT ![i] = NoReservation]
          /\ Stop(reserved[i].timer)
          /\ UNCHANGED <<idle, running>>
       \/ /\ i \notin Reserved /\ idle # <<>>
          /\ SetCall(c, [call[c] EXCEPT !.pc = "acquired", !.run = Head(idle)])
          /\ idle' = Tail(idle)
          /\ UNCHANGED <<reserved, timer, running>>
       \/ /\ i \notin Reserved /\ idle = <<>>
          /\ SetCall(c, [call[c] EXCEPT !.pc = "refused"])
          /\ running' = [running EXCEPT ![i] = Absent]
          /\ UNCHANGED <<idle, reserved, timer>>
    /\ UNCHANGED <<asking, cache, aborting, next, req>>

\* runningInvokes.Set.
Store(c) ==
    /\ call[c].pc = "acquired"
    /\ SetCall(c, [call[c] EXCEPT !.pc = "stored"])
    /\ running' = [running EXCEPT ![call[c].id] = call[c].run]
    /\ UNCHANGED <<poolVars, cache, aborting, next, req>>

\* RunInvokeAndSendResult: the internal invocation ID is set, the headers go to the worker.
RunInvoke(c) ==
    LET n == call[c].run IN
    /\ call[c].pc = "stored"
    /\ SetCall(c, [call[c] EXCEPT !.pc = "sending"])
    /\ SetNext(n, [next[n] EXCEPT !.iid = c, !.got = IF next[n].pc = "parked" THEN c
                                                                  ELSE None])
    /\ UNCHANGED <<poolVars, running, cache, aborting, req>>

\* The invoke's context ends: timeout, the client's request, CancelAsync.  (Nothing looks
\* at it any more once a /response is being read.)
CtxEnds(c, why) ==
    /\ call[c].pc \in {"sending", "waiting"}
    /\ call[c].ctx = "live"
    /\ SetCall(c, [call[c] EXCEPT !.ctx = why])
    /\ UNCHANGED <<poolVars, running, cache, aborting, next, req>>
Deadline(c)   == CtxEnds(c, "timeout")
ClientGone(c) == CtxEnds(c, "platform")
Canceled(c)   == call[c].run # None /\ next[call[c].run].cancel = "aborted" /\ CtxEnds(c, "aborted")

\* sendInvokeToRuntime succeeds (a write to a dead worker may be lost unnoticed).
InvokeSent(c) ==
    LET n == call[c].run IN
    /\ call[c].pc = "sending"
    /\ SetCall(c, [call[c] EXCEPT !.pc = "waiting"])
    /\ SetNext(n, RuntimeNextWait([next[n] EXCEPT !.sent = TRUE]))
    /\ UNCHANGED <<poolVars, running, cache, aborting, req>>

\* The only answer an invoke sends to its invoker.
Answered(c, pc, err, from) ==
    SetCall(c, [call[c] EXCEPT !.pc = pc, !.err = err, !.from = from, !.answers = @ + 1])
RegisterTimeout(c, err) == cache' = IF err = "timeout" THEN Register(call[c].id, cache) ELSE cache

\* It fails: the context ended, or a side of the copy broke.  Nobody is told on
\* responseSentChan and errorSentChan.
InvokeNotSent(c, err) ==
    LET n == call[c].run IN
    /\ call[c].pc = "sending"
    /\ err = "unknown" \/ (err = call[c].ctx /\ err # "live")
    /\ SetNext(n, RuntimeNextWait([next[n] EXCEPT !.cancel = IF @ = "live" THEN err ELSE @]))
    /\ RegisterTimeout(c, err)
    /\ Answered(c, "unwinding", err, None)
    /\ UNCHANGED <<poolVars, running, aborting, req>>

\* The select of RunInvokeAndSendResult.
TakeResponse(c) ==
    LET n == call[c].run
        q == next[n].response IN
    /\ call[c].pc = "waiting" /\ q # None
    /\ IF req[q].valid
       THEN /\ SetCall(c, [call[c] EXCEPT !.pc = "body", !.from = q])
            /\ SetNext(n, [next[n] EXCEPT !.response = None])
       ELSE /\ Answered(c, "notifying", "parsing", q)
            /\ SetNext(n, [next[n] EXCEPT !.response = None, !.state = "gotError"])
    /\ UNCHANGED <<poolVars, running, cache, aborting, req>>

\* mutant: the invoke returns without an answer
TakeErrorReturns(c) ==
    LET n == call[c].run IN
    /\ call[c].pc = "waiting" /\ next[n].error # None
    /\ SetCall(c, [call[c] EXCEPT !.pc = "done"])
    /\ SetNext(n, [next[n] EXCEPT !.error = None])
    /\ UNCHANGED <<poolVars, running, cache, aborting, req>>

TakeError(c) ==
    LET n == call[c].run IN
    /\ call[c].pc = "waiting" /\ next[n].error # None
    /\ Answered(c, "notifying", "function", next[n].error)
    /\ SetNext(n, [next[n] EXCEPT !.error = None])
    /\ UNCHANGED <<poolVars, running, cache, aborting, req>>

\* mutant: only the timeout is noticed, not the abort
TimeoutOnly(c) ==
    LET n == call[c].run IN
    /\ call[c].pc = "waiting" /\ call[c].ctx = "timeout"
    /\ SetNext(n, [next[n] EXCEPT !.state = "gotError"])
    /\ RegisterTimeout(c, call[c].ctx)
    /\ Answered(c, "notifying", call[c].ctx, None)
    /\ UNCHANGED <<poolVars, running, aborting, req>>

CtxDone(c) ==
    LET n == call[c].run IN
    /\ call[c].pc = "waiting" /\ call[c].ctx # "live"
    /\ SetNext(n, [next[n] EXCEPT !.state = "gotError"])
    /\ RegisterTimeout(c, call[c].ctx)
    /\ Answered(c, "notifying", call[c].ctx, None)
    /\ UNCHANGED <<poolVars, running, aborting, req>>

\* sendRuntimeResponse: the body of the /response is read to its end, however long that
\* takes (SendRuntimeResponseBody of aws-lambda-rie does not look at the context) ...
BodyEnds(c, err) ==
    /\ call[c].pc = "body"
    /\ err \in {"nil", "trailer", "oversized", "truncated"}
    /\ Answered(c, "notifying", err, call[c].from)
    /\ UNCHANGED <<poolVars, running, cache, aborting, next, req>>

\* ... and an /error that comes meanwhile replaces it, once the body has ended.
ErrorInBody(c) ==
    LET n == call[c].run IN
    /\ call[c].pc = "body" /\ next[n].error # None
    /\ SetCall(c, [call[c] EXCEPT !.pc = "truncating", !.from = next[n].error])
    /\ SetNext(n, [next[n] EXCEPT !.error = None])
    /\ UNCHANGED <<poolVars, running, cache, aborting, req>>

TruncatedBodyEnds(c) ==
    /\ call[c].pc = "truncating"
    /\ Answered(c, "notifying", "function", call[c].from)
    /\ UNCHANGED <<poolVars, running, cache, aborting, next, req>>

\* mutant: whoever posted an /error is not told
NotifyResponse(c) ==
    LET n == call[c].run IN
    /\ call[c].pc = "notifying"
    /\ SetCall(c, [call[c] EXCEPT !.pc = "unwinding"])
    /\ SetNext(n, [next[n] EXCEPT !.responseSent = call[c].err])
    /\ UNCHANGED <<poolVars, running, cache, aborting, req>>

\* responseSentChan and errorSentChan, both buffered.
Notify(c) ==
    LET n == call[c].run IN
    /\ call[c].pc = "notifying"
    /\ SetCall(c, [call[c] EXCEPT !.pc = "unwinding"])
    /\ SetNext(n, [next[n] EXCEPT !.responseSent = call[c].err, !.errorSent = call[c].err])
    /\ UNCHANGED <<poolVars, running, cache, aborting, req>>

\* The deferred calls: the contexts are canceled, the ID is removed, wg.Done.
Finish(c) ==
    LET n == call[c].run IN
    /\ call[c].pc = "unwinding"
    /\ SetCall(c, [call[c] EXCEPT !.pc = "done"])
    /\ SetNext(n, RuntimeNextWait([next[n] EXCEPT !.cancel = IF @ = "live" THEN "ended" ELSE @]))
    /\ running' = [running EXCEPT ![call[c].id] = Absent]
    /\ UNCHANGED <<poolVars, cache, aborting, req>>

\* AbortRunningInvokes: cancel what the map holds (a placeholder is not canceled) ...
AbortRunningInvokes ==
    /\ aborting = "no" /\ aborting' = "waiting"
    /\ next' = [n \in Nexts |-> IF next[n].cancel = "live" /\ \E i \in Ids : running[i] = n
                                 THEN RuntimeNextWait([next[n] EXCEPT !.cancel = "aborted"])
                                 ELSE next[n]]
    /\ UNCHANGED <<poolVars, running, cache, call, req>>

\* ... and wait for the invokes in flight.
InvokesAborted ==
    /\ aborting = "waiting" /\ aborting' = "done"
    /\ \A c \in Calls : call[c].pc \notin InFlight
    /\ UNCHANGED <<poolVars, running, cache, call, next, req>>

-----------------------------------------------------------------------------
(* /response and /error. *)

\* A worker that has got an event posts, with or without the invocation ID it was sent
\* (runtimes that do not know the header leave it out), and with a response mode that may
\* be unknown.
Post(q, n, kind, echoes, valid) ==
    /\ Fresh(req, q) /\ next[n].got # None
    /\ SetReq(q, [NewReq EXCEPT !.pc = "lookup", !.kind = kind, !.id = call[next[n].got].id,
                                !.echo = IF echoes THEN next[n].got ELSE None, !.valid = valid])
    /\ UNCHANGED <<poolVars, running, cache, aborting, call, next>>

Reply(q, status) == SetReq(q, [req[q] EXCEPT !.pc = "done", !.status = status])

\* RuntimeResponse and RuntimeError of InvokeRouter.
Lookup(q) ==
    LET i == req[q].id IN
    /\ req[q].pc = "lookup"
    /\ \/ /\ running[i] = Absent /\ Consume(i)
          /\ Reply(q, IF Contains(cache, i) THEN "timeout" ELSE "invalidRequestID")
       \/ /\ running[i] = Nil /\ Reply(q, "panic") /\ UNCHANGED cache
       \/ /\ running[i] \in Nexts /\ UNCHANGED cache
          /\ SetReq(q, [req[q] EXCEPT !.pc = "found", !.run = running[i]])
    /\ UNCHANGED <<poolVars, running, aborting, call, next>>

Mismatch(q) == LET n == req[q].run IN
    req[q].echo # None /\ next[n].iid # None /\ req[q].echo # next[n].iid

\* RuntimeResponse of runningInvokeImpl: take the right to answer ...
ResponseSwap(q) ==
    LET n == req[q].run IN
    /\ req[q].pc = "found" /\ req[q].kind = "response"
    /\ IF next[n].state = "noResponse"
       THEN /\ SetNext(n, [next[n] EXCEPT !.state = "gotResponse"])
            /\ SetReq(q, [req[q] EXCEPT !.pc = "swapped"])
       ELSE Reply(q, "invalidRequestID") /\ UNCHANGED next
    /\ UNCHANGED <<poolVars, running, cache, aborting, call>>

\* ... give it back if the answer is for another invocation, else pass it on.
ResponsePush(q) ==
    LET n == req[q].run IN
    /\ req[q].pc = "swapped"
    /\ \/ /\ Mismatch(q) /\ Reply(q, "timeout")
          /\ SetNext(n, [next[n] EXCEPT !.state = IF @ = "gotResponse" THEN "noResponse" ELSE @])
       \/ /\ ~ Mismatch(q) /\ next[n].response = None
          /\ SetNext(n, [next[n] EXCEPT !.response = q])
          /\ SetReq(q, [req[q] EXCEPT !.pc = "await"])
    /\ UNCHANGED <<poolVars, running, cache, aborting, call>>

\* RuntimeError of runningInvokeImpl.
ErrorPush(q) ==
    LET n == req[q].run IN
    /\ req[q].pc = "found" /\ req[q].kind = "error"
    /\ \/ Mismatch(q) /\ Reply(q, "timeout") /\ UNCHANGED next
       \/ ~ Mismatch(q) /\ next[n].state = "gotError" /\ Reply(q, "invalidRequestID") /\ UNCHANGED next
       \/ /\ ~ Mismatch(q) /\ next[n].state # "gotError" /\ next[n].error = None
          /\ SetNext(n, [next[n] EXCEPT !.state = "gotError", !.error = q])
          /\ SetReq(q, [req[q] EXCEPT !.pc = "await"])
    /\ UNCHANGED <<poolVars, running, cache, aborting, call>>

\* How the handler of /response renders the outcome: by the type of the error.  A runtime
\* chooses the type of its /error and of its trailers, also one that the program uses
\* itself.  Where no case applies the handler asks the trailers for their error without a
\* check that they have one.
RuntimesChoice == {"accepted", "invalidRequestID", "timeout", "badMode", "tooLarge",
                   "truncated"}

ResponseStatus(err) ==
    CASE err = "nil"       -> {"accepted"}
      [] err = "trailer"   -> RuntimesChoice
      [] err = "timeout"   -> {"timeout"}
      [] err = "parsing"   -> {"badMode"}
      [] err = "oversized" -> {"tooLarge"}
      [] err = "truncated" -> {"truncated"}
      [] err = "function"  -> RuntimesChoice \cup {"panic"}
      [] OTHER             -> {"panic"}

\* What is wrong with a /response, in the words of the program.
Complaints == {"parsing", "oversized", "truncated"}

\* mutant: an /error that comes after the /response counts as sent
LateErrorAccepted(err) == IF err \in {"nil", "function", "trailer"} THEN {"accepted"} ELSE {"internal"}

\* And the handler of /error.  IsRuntimeError compares types (and severities) only: the
\* error of a trailer, or a complaint about the /response, may have the type of the posted
\* one, which then counts as sent.
ErrorStatus(err) ==
    CASE err = "nil"         -> {"invalidRequestID"}
      [] err = "function"    -> {"accepted"}
      [] err = "trailer"     -> {"accepted", "invalidRequestID", "timeout", "internal"}
      [] err \in Complaints  -> {"accepted", "internal"}
      [] OTHER               -> {"internal"}

Await(q) ==
    LET n == req[q].run IN
    /\ req[q].pc = "await"
    /\ \/ /\ req[q].kind = "response" /\ next[n].responseSent # "empty"
          /\ \E s \in ResponseStatus(next[n].responseSent) : Reply(q, s)
          /\ SetNext(n, [next[n] EXCEPT !.responseSent = "empty"])
       \/ /\ req[q].kind = "error" /\ next[n].errorSent # "empty"
          /\ \E s \in ErrorStatus(next[n].errorSent) : Reply(q, s)
          /\ SetNext(n, [next[n] EXCEPT !.errorSent = "empty"])
    /\ UNCHANGED <<poolVars, running, cache, aborting, call>>

-----------------------------------------------------------------------------
\* Steps of the program, and of the world around it.
CallStep(c) ==
    \/ Acquire(c) \/ Store(c) \/ RunInvoke(c)
    \/ (\E e \in Causes : InvokeNotSent(c, e))
    \/ TakeResponse(c) \/ TakeError(c) \/ CtxDone(c) \/ ErrorInBody(c)
    \/ Notify(c) \/ Finish(c)
ReqStep(q) == Lookup(q) \/ ResponseSwap(q) \/ ResponsePush(q) \/ ErrorPush(q) \/ Await(q)

World ==
    \/ \E c \in Calls, i \in Ids : Invoke(c, i)
    \/ \E c \in Calls : InvokeSent(c) \/ TruncatedBodyEnds(c) \/ BodyEnds(c, "nil")
    \/ \E n \in Nexts : RuntimeNext(n)
    \/ AbortRunningInvokes
    \/ \E q \in Reqs, n \in Nexts, k \in {"response", "error"}, echoes \in BOOLEAN :
           Post(q, n, k, echoes, TRUE)

Fault ==
    \/ \E c \in Calls : \/ ClientGone(c) \/ InvokeNotSent(c, "unknown")
                        \/ \E e \in {"trailer", "oversized", "truncated"} : BodyEnds(c, e)
    \/ \E n \in Nexts : WorkerGone(n)
    \/ \E i \in Ids : ReserveCheck(i)
    \/ \E q \in Reqs, n \in Nexts : Post(q, n, "response", TRUE, FALSE)

Program ==
    \/ \E c \in Calls : CallStep(c) \/ Deadline(c) \/ Canceled(c)
    \/ \E q \in Reqs : ReqStep(q)
    \/ \E t \in Timers : TimerFires(t) \/ OnExpire(t)
    \/ \E i \in Ids : ReserveIdleRuntime(i)
    \/ InvokesAborted

Next == \/ (Program \/ World) /\ UNCHANGED faults
        \/ Fault /\ faults < MaxFaults /\ faults' = faults + 1

\* The scheduler runs every goroutine that can go on and every timer fires; the client and
\* the runtime owe nothing.
Fairness ==
    /\ \A c \in Calls : /\ WF_vars(CallStep(c) /\ UNCHANGED faults)
                        /\ WF_vars(Deadline(c) /\ UNCHANGED faults)
                        /\ WF_vars(Canceled(c) /\ UNCHANGED faults)
    /\ \A q \in Reqs : WF_vars(ReqStep(q) /\ UNCHANGED faults)
    /\ \A t \in Timers : /\ WF_vars(TimerFires(t) /\ UNCHANGED faults)
                         /\ WF_vars(OnExpire(t) /\ UNCHANGED faults)
    /\ WF_vars(InvokesAborted /\ UNCHANGED faults)

Spec == Init /\ [][Next]_vars /\ Fairness

-----------------------------------------------------------------------------
(* Properties. *)

\* A runtime is told that its /response or /error was accepted only when the invoker has
\* been answered with it, or with an error the same runtime reported for that invoke; an
\* /error also when the invoker got the program's complaint about the runtime's /response
\* instead, if it has the same type (IsRuntimeError).  Never when the invoker got the
\* timeout, the abort or nothing, and an /error never when it got a response.
AcceptedIsAnswer == \A q \in Reqs : req[q].status = "accepted" =>
    \E c \in Calls : /\ call[c].run = req[q].run /\ call[c].answers = 1
                      /\ \/ call[c].from = q
                         \/ call[c].err \in {"function", "trailer"}
                         \/ req[q].kind = "error" /\ call[c].err \in Complaints

\* Reservations, expiries of stale timers and acquisitions never lose or duplicate a /next:
\* each one that was admitted waits in one place or has been given to one invoke, and the
\* pool is never larger than its maximum.
Places(n) == {<<"idle", k>> : k \in {j \in DOMAIN idle : idle[j] = n}}
                 \cup {<<"reserved", i>> : i \in {i \in Ids : reserved[i].run = n}}
                 \cup {<<"given", c>> : c \in {c \in Calls : call[c].run = n}}
PoolConserved ==
    /\ Len(idle) + Cardinality(Reserved) <= MaxSize
    /\ \A n \in Nexts :
           Cardinality(Places(n)) = IF next[n].pc \in {"unborn", "refused"} THEN 0 ELSE 1

\* Every invoke ends, by its timeout at the latest, unless the runtime has begun a /response
\* whose body does not end; and so does the abort of a shutdown.
InBody(c) == call[c].pc \in {"body", "truncating"}
InvokesEnd ==
    /\ \A c \in Calls : call[c].pc \in InFlight ~> (call[c].pc \notin InFlight \/ InBody(c))
    /\ aborting = "waiting" ~> (aborting = "done" \/ \E c \in Calls : InBody(c))

\* A /response or /error that was passed on to an invoke whose event was sent is answered,
\* also when the timeout or the abort wins.
PostsAnswered == \A q \in Reqs :
    req[q].pc = "await" /\ next[req[q].run].sent
        ~> (req[q].pc = "done" \/ \E c \in Calls : InBody(c))

\* "You can configure timeout ... to the number of seconds you want your function to timeout
\* in" (README): an invoke whose event was sent ends.
TimeoutEndsInvoke == \A c \in Calls : call[c].pc = "waiting" ~> call[c].pc = "done"

\* "Cross-wiring detected: invocation ID mismatch on response": an answer that names the
\* invocation it is for never goes to another invoke.
NoCrossWiring == \A c \in Calls :
    call[c].answers = 1 /\ call[c].from # None => req[call[c].from].echo \in {None, c}

\* The router implements Dispatch.
Phase(c) == CASE call[c].pc = "new"     -> "new"
              [] call[c].pc = "refused" -> "refused"
              [] call[c].pc = "placed"  -> "admitted"
              [] call[c].pc \in {"notifying", "unwinding"} -> "answered"
              [] call[c].pc = "done"    -> "done"
              [] OTHER                  -> "running"
D == INSTANCE Dispatch WITH phase <- [c \in Calls |-> Phase(c)],
                            given <- [c \in Calls |-> call[c].run]
ImplementsDispatch == D!DispatchSpec
=============================================================================
