---------------------------- MODULE DirectInvoke ----------------------------
(***************************************************************************)
(* A direct invocation (core/directinvoke, core/bandwidthlimiter,          *)
(* rapidcore/server.go and the handlers of rapidcore/standalone): the      *)
(* caller reserves the sandbox and posts the event; the runtime's response *)
(* is copied to the caller while it is read, under a size limit and, when  *)
(* it is streamed, under a token bucket, and a reset may interrupt it.     *)
(*                                                                         *)
(* Sizes are counted in units and the limit wraps as an int64 does.  The   *)
(* init is over.  The sandbox is what a reset stops: the invocation's      *)
(* runtime with the connection its body comes from.                        *)
(***************************************************************************)
EXTENDS Integers, FiniteSets

CONSTANTS
    Requests,        \* requests to /test/directInvoke
    Resets,          \* requests to /test/reset
    MaxReserves,     \* reservations made
    Headers,         \* what a request says: limit, response mode, which part is invalid
    Sizes,           \* sizes of a response body
    MaxPayloadSize,  \* the limit of a request that names none
    MaxInt,          \* the largest limit a request can name: 2^63 - 1
    Capacity, Refill, \* of the token bucket
    MaxFaults        \* crashes and failed writes

Modes  == {"Buffered", "Streaming"}
Limits == -1 .. MaxInt   \* -1 for none

ASSUME DirectInvokeAssumption ==
    /\ MaxReserves \in Nat /\ MaxFaults \in Nat /\ Sizes \subseteq Nat
    /\ MaxInt \in Nat /\ MaxPayloadSize \in 0 .. MaxInt
    /\ Capacity \in Nat \ {0} /\ Refill \in Nat \ {0}
    /\ Headers \subseteq [max : Limits, mode : {""} \cup Modes,
                          bad : {"no", "headers", "max", "mode", "rate", "token"}]

VARIABLES
    ctx,        \* invokeCtx: the reservation, whose stream is set, whether it was replied to
    reserves,   \* reservations so far
    canceled,   \* reservations whose context is canceled
    limit, mode, \* MaxDirectResponseSize and InvokeResponseMode, shared by all requests
    req,        \* a request: where its handler is, the reservation it validated, its status
    reply,      \* what was written to a request: units, the End-Of-Response trailer, the size
                \* of the body it came from, whether another request came in between
    rt,         \* the runtime
    failure,    \* the server's goroutine of a failed invocation: "no", "pending", "sending"
    done,       \* InvokeDoneChan
    send,       \* the sender, which holds the mutex of the server, whose response it sends and
                \* which resets had stopped the runtime before
    copy,       \* the copy of the response to the caller
    tokens,     \* the bucket
    reset,      \* where the goroutine of a reset is
    panicked, faults

vars == <<ctx, reserves, canceled, limit, mode, req, reply, rt, failure, done, send, copy,
          tokens, reset, panicked, faults>>
server  == <<ctx, reserves, canceled>>
globals == <<limit, mode>>
sandbox == <<rt, failure, done>>
stream  == <<send, copy, tokens>>

NoCtx  == [id |-> 0, stream |-> 0, sent |-> FALSE]
NoSend == [pc |-> "none", by |-> "none", late |-> {}]
NoCopy == [pc |-> "none", throttled |-> FALSE, restricted |-> FALSE, left |-> 0, rest |-> 0,
           chunk |-> 0, n |-> 0, waiting |-> FALSE, broken |-> FALSE, canceled |-> FALSE,
           err |-> FALSE]
NoReply == [units |-> 0, trailer |-> "none", size |-> 0, limit |-> 0, disturbed |-> FALSE]

\* A bucket is full at first.
NewBucket == Capacity

Least(a, b) == IF a < b THEN a ELSE b

\* int64 addition: past the largest value it goes on with the smallest.
PlusOne(n) == IF n = MaxInt THEN -MaxInt - 1 ELSE n + 1

MutexFree == send.pc = "none"

TypeOK ==
    /\ ctx \in [id : 0 .. MaxReserves, stream : Requests \cup {0}, sent : BOOLEAN]
    /\ reserves \in 0 .. MaxReserves /\ canceled \subseteq 1 .. MaxReserves
    /\ limit \in Limits /\ mode \in Modes
    /\ req \in [Requests -> [pc : {"idle", "invoke", "peek", "wait", "done"},
                             id : 0 .. MaxReserves, status : {0, 200, 400, 502}]]
    /\ rt \in {"idle", "busy", "posting", "replied", "dead"}
    /\ failure \in {"no", "pending", "sending"} /\ done \in {"none", "ok", "failed"}
    /\ send.pc \in {"none", "select", "drain", "ack", "copy", "metrics"}
    /\ copy.pc \in {"none", "run", "done"} /\ tokens \in 0 .. Capacity
    /\ reset \in [Resets -> {"idle", "interrupt", "ack", "kill", "clear", "release", "done"}]

Init ==
    /\ ctx = NoCtx /\ reserves = 0 /\ canceled = {}
    /\ limit = MaxPayloadSize /\ mode = "Buffered"
    /\ req = [r \in Requests |-> [pc |-> "idle", id |-> 0, status |-> 0]]
    /\ reply = [r \in Requests |-> NoReply]
    /\ rt = "idle" /\ failure = "no" /\ done = "none"
    /\ send = NoSend /\ copy = NoCopy /\ tokens = NewBucket
    /\ reset = [k \in Resets |-> "idle"] /\ panicked = FALSE /\ faults = 0

-----------------------------------------------------------------------------
\* Server: the reservation

Reserve ==
    /\ MutexFree /\ ctx = NoCtx /\ reserves < MaxReserves
    /\ reserves' = reserves + 1 /\ ctx' = [NoCtx EXCEPT !.id = reserves + 1]
    /\ UNCHANGED canceled

\* Refused with 400 while there is a reservation.
ReserveHandler ==
    /\ Reserve
    /\ UNCHANGED <<globals, req, reply, sandbox, stream, reset, panicked, faults>>

Release ==
    /\ MutexFree /\ ctx' = NoCtx
    /\ canceled' = IF ctx = NoCtx THEN canceled ELSE canceled \cup {ctx.id}
    /\ UNCHANGED reserves

\* A failed invocation keeps its reservation, until a reset.
AwaitRelease ==
    /\ done # "none" /\ done' = "none"
    /\ IF done = "ok" THEN Release ELSE UNCHANGED server

WaitUntilReleaseHandler ==
    /\ AwaitRelease
    /\ UNCHANGED <<globals, req, reply, rt, failure, stream, reset, panicked, faults>>

-----------------------------------------------------------------------------
\* ReceiveDirectInvoke sets the limit and the mode as it parses, before it has validated the
\* request; a mode that is not named stays as the last request left it.

ParsedLimit(h) == CASE h.bad = "headers" -> limit [] h.bad = "max" -> MaxPayloadSize [] OTHER -> h.max

ParsedMode(h) ==
    IF h.bad \in {"headers", "max", "mode"} THEN mode
    ELSE IF ParsedLimit(h) = -1 \/ h.mode = "Streaming" THEN "Streaming"
    ELSE IF h.mode = "" THEN mode ELSE h.mode

Refused(h) == IF h.bad = "rate" THEN ParsedMode(h) = "Streaming" ELSE h.bad # "no"

Answer(r, status) == req' = [req EXCEPT ![r].pc = "done", ![r].status = status]

\* What is being sent meanwhile is sent under the new limit and mode.
Disturb(h) ==
    reply' = [r \in Requests |->
                 IF copy.pc = "run" /\ ctx.stream = r /\ <<ParsedLimit(h), ParsedMode(h)>> # globals
                 THEN [reply[r] EXCEPT !.disturbed = TRUE] ELSE reply[r]]

DirectInvokeHandler(r, h) ==
    /\ req[r].pc = "idle" /\ MutexFree
    /\ IF ctx = NoCtx
       THEN Answer(r, 400) /\ UNCHANGED <<globals, reply>>
       ELSE /\ limit' = ParsedLimit(h) /\ mode' = ParsedMode(h) /\ Disturb(h)
            /\ IF Refused(h) THEN Answer(r, 400)
               ELSE req' = [req EXCEPT ![r].pc = "invoke", ![r].id = ctx.id]
    /\ UNCHANGED <<server, sandbox, stream, reset, panicked, faults>>

\* A request whose token was read before the sender took the mutex.
LateDirectInvokeHandler(r, h) ==
    /\ req[r].pc = "idle" /\ ~MutexFree
    /\ limit' = ParsedLimit(h) /\ mode' = ParsedMode(h) /\ Disturb(h)
    /\ IF Refused(h) THEN Answer(r, 400) ELSE req' = [req EXCEPT ![r].pc = "invoke", ![r].id = ctx.id]
    /\ UNCHANGED <<server, sandbox, stream, reset, panicked, faults>>

-----------------------------------------------------------------------------
\* FastInvoke

\* setReplyStream; the handler's switch answers the first two errors with nothing, which is 200.
SetReplyStream(r) ==
    /\ req[r].pc = "invoke" /\ MutexFree
    /\ IF ctx = NoCtx \/ ctx.sent THEN Answer(r, 200) /\ UNCHANGED ctx
       ELSE IF ctx.stream # 0 THEN Answer(r, 400) /\ UNCHANGED ctx
       ELSE req' = [req EXCEPT ![r].pc = "peek"] /\ ctx' = [ctx EXCEPT !.stream = r]
    /\ UNCHANGED <<reserves, canceled, globals, reply, sandbox, stream, reset, panicked, faults>>

\* The end of a send: the reply is marked as sent and the mutex given back.  A default error
\* response that was not sent whole ends the program.
FinishSend ==
    /\ ctx' = [ctx EXCEPT !.sent = TRUE]
    /\ send' = NoSend /\ copy' = NoCopy
    /\ rt' = IF send.by # "default" /\ rt = "posting" THEN "replied" ELSE rt
    /\ failure' = IF send.by = "default" THEN "no" ELSE failure
    /\ done' = IF send.by = "default" THEN "failed" ELSE done
    /\ panicked' = (send.by = "default" /\ reply[ctx.stream].trailer # "Complete")

\* A response that is there before the invocation was passed on is taken for it.
AlreadyWritten(r) ==
    /\ req[r].pc = "peek" /\ send.pc = "metrics" /\ Answer(r, 200) /\ FinishSend
    /\ UNCHANGED <<reserves, canceled, globals, reply, tokens, reset, faults>>

\* SendRequest: a runtime that is gone is started again.  The request waits for the reservation
\* of now, which need not be the one whose token it came with.
SendRequest(r) ==
    /\ req[r].pc = "peek" /\ send.pc # "metrics"
    /\ req' = [req EXCEPT ![r].pc = "wait", ![r].id = reserves]
    /\ rt' = IF rt \in {"idle", "dead"} THEN "busy" ELSE rt
    /\ UNCHANGED <<server, globals, reply, failure, done, stream, reset, panicked, faults>>

\* The metrics of a response go to whoever waits.
ResponseSent(r) ==
    /\ req[r].pc = "wait" /\ send.pc = "metrics" /\ Answer(r, 200) /\ FinishSend
    /\ UNCHANGED <<reserves, canceled, globals, reply, tokens, reset, faults>>

ReservationDone(r) ==
    /\ req[r].pc = "wait" /\ req[r].id \in canceled /\ Answer(r, 502)
    /\ UNCHANGED <<server, globals, reply, sandbox, stream, reset, panicked, faults>>

-----------------------------------------------------------------------------
\* SendDirectInvokeResponse

\* The reader is limited to one unit more than the response may have.  Before it to as many.
ReaderLimitExact == limit
ReaderLimit == PlusOne(limit)

\* Only a reservation with a stream that was not replied to takes a response.
AwaitsReply == ctx # NoCtx /\ ~ctx.sent /\ ctx.stream # 0

\* A streamed response goes through a new throttler to a writer that can be canceled.
NewThrottler(c) == [c EXCEPT !.throttled = (mode = "Streaming"), !.canceled = FALSE]

NewStreamedResponseWriter(size) ==
    NewThrottler([NoCopy EXCEPT !.pc = "run", !.restricted = (mode = "Buffered" \/ limit # -1),
                                !.left = ReaderLimit, !.rest = size])

\* An /error whose response mode is not known is dropped by the buffered path: nothing is
\* written and no metrics are sent.
SendStart(by, size, badMode) ==
    /\ AwaitsReply
    /\ IF badMode /\ mode = "Buffered"
       THEN ctx' = [ctx EXCEPT !.sent = TRUE] /\ UNCHANGED <<stream, reply>>
       ELSE /\ send' = [pc |-> IF mode = "Streaming" THEN "select" ELSE "copy", by |-> by,
                        late |-> {k \in Resets : reset[k] \in {"clear", "release"}}]
            /\ copy' = NewStreamedResponseWriter(size)
            /\ tokens' = NewBucket
            /\ reply' = [reply EXCEPT ![ctx.stream] = [NoReply EXCEPT !.size = size, !.limit = limit]]
            /\ UNCHANGED ctx

AtLimit == copy.restricted /\ copy.left <= 0

\* The body of a /response comes from the runtime; the other payloads are in memory.
FromRuntime == send.by = "response"

CopyRead ==
    /\ copy.pc = "run" /\ copy.chunk = 0 /\ copy.rest > 0 /\ ~copy.broken /\ ~AtLimit
    /\ \E k \in 1 .. (IF copy.restricted THEN Least(copy.rest, copy.left) ELSE copy.rest) :
           copy' = [copy EXCEPT !.chunk = k, !.rest = @ - k, !.left = @ - k]
    /\ UNCHANGED <<server, globals, req, reply, sandbox, send, tokens, reset, panicked, faults>>

Trailer(err) ==
    CASE err -> "Truncated"
      [] copy.throttled /\ ~err -> IF copy.restricted /\ copy.n > limit THEN "Oversized" ELSE "Complete"
      [] OTHER -> IF mode # "Streaming" /\ copy.n = PlusOne(limit) THEN "Oversized" ELSE "Complete"

\* The copy has ended: the trailer is set under the limit of now.
CopyEnds(err) ==
    /\ copy' = [copy EXCEPT !.pc = "done", !.err = err, !.chunk = 0, !.waiting = FALSE]
    /\ reply' = [reply EXCEPT ![ctx.stream].trailer = Trailer(err)]
    /\ send' = IF send.pc = "copy" THEN [send EXCEPT !.pc = "metrics"] ELSE send

CopyEOF ==
    /\ copy.pc = "run" /\ copy.chunk = 0 /\ (AtLimit \/ (copy.rest = 0 /\ ~copy.broken)) /\ CopyEnds(FALSE)
    /\ UNCHANGED <<server, globals, req, sandbox, tokens, reset, panicked, faults>>

CopyReadFails ==
    /\ copy.pc = "run" /\ copy.chunk = 0 /\ copy.broken /\ ~AtLimit /\ CopyEnds(TRUE)
    /\ UNCHANGED <<server, globals, req, sandbox, tokens, reset, panicked, faults>>

\* What one bandwidthLimitingWrite writes: a chunk larger than the bucket goes in pieces.
Piece == IF copy.throttled THEN Least(copy.chunk, Capacity) ELSE copy.chunk

Consumes == IF copy.throttled THEN Piece ELSE 0

\* A canceled writer refuses; its tokens are gone all the same.
CopyWrite ==
    /\ copy.pc = "run" /\ copy.chunk > 0 /\ ~copy.waiting /\ Consumes <= tokens
    /\ tokens' = tokens - Consumes
    /\ IF copy.canceled THEN CopyEnds(TRUE)
       ELSE /\ copy' = [copy EXCEPT !.chunk = @ - Piece, !.n = @ + Piece]
            /\ reply' = [reply EXCEPT ![ctx.stream].units = @ + Piece]
            /\ UNCHANGED send
    /\ UNCHANGED <<server, globals, req, sandbox, reset, panicked, faults>>

WriteFails ==
    /\ copy.pc = "run" /\ copy.chunk > 0 /\ ~copy.waiting /\ faults < MaxFaults
    /\ faults' = faults + 1 /\ CopyEnds(TRUE)
    /\ UNCHANGED <<server, globals, req, sandbox, tokens, reset, panicked>>

CopyWaits ==
    /\ copy.pc = "run" /\ copy.chunk > 0 /\ ~copy.waiting /\ Consumes > tokens
    /\ copy' = [copy EXCEPT !.waiting = TRUE]
    /\ UNCHANGED <<server, globals, req, reply, sandbox, send, tokens, reset, panicked, faults>>

\* The ticker of the throttler refills the bucket and wakes the writer.
Tick ==
    /\ copy.pc = "run" /\ copy.throttled /\ (copy.waiting \/ tokens < Capacity)
    /\ tokens' = Least(tokens + Refill, Capacity) /\ copy' = [copy EXCEPT !.waiting = FALSE]
    /\ UNCHANGED <<server, globals, req, reply, sandbox, send, reset, panicked, faults>>

\* sendStreamingInvokeResponse: the copy ends, or a reset interrupts it.
CopyDone ==
    /\ send.pc \in {"select", "drain"} /\ copy.pc = "done"
    /\ send' = [send EXCEPT !.pc = IF @ = "select" THEN "metrics" ELSE "ack"]
    /\ UNCHANGED <<server, globals, req, reply, sandbox, copy, tokens, reset, panicked, faults>>

-----------------------------------------------------------------------------
\* The runtime and the handler of its invocation

RuntimePosts ==
    /\ rt = "busy" /\ MutexFree /\ rt' = "posting"
    /\ \E by \in {"response", "error"}, size \in Sizes, badMode \in BOOLEAN :
           (badMode => by = "error") /\ SendStart(by, size, badMode)
    /\ UNCHANGED <<reserves, canceled, globals, req, failure, done, reset, panicked, faults>>

\* Once its post is answered the runtime asks for the next event, which ends the invocation.
RuntimeNext ==
    /\ rt = "replied" \/ (rt = "posting" /\ MutexFree)
    /\ done = "none" /\ rt' = "idle" /\ done' = "ok"
    /\ UNCHANGED <<server, globals, req, reply, failure, stream, reset, panicked, faults>>

\* The runtime exits: its connection breaks and the invocation fails.
Crash ==
    /\ rt \in {"busy", "posting", "replied"} /\ failure = "no" /\ faults < MaxFaults
    /\ faults' = faults + 1 /\ rt' = "dead" /\ failure' = "pending"
    /\ copy' = IF copy.pc = "run" /\ FromRuntime THEN [copy EXCEPT !.broken = TRUE] ELSE copy
    /\ UNCHANGED <<server, globals, req, reply, done, send, tokens, reset, panicked>>

\* trySendDefaultErrorResponse: only an answer that was sent already may stop it.
SendDefaultError ==
    /\ failure = "pending" /\ MutexFree
    /\ IF ctx = NoCtx \/ (~ctx.sent /\ ctx.stream = 0)
       THEN panicked' = TRUE /\ UNCHANGED <<ctx, reply, failure, done, stream>>
       ELSE IF ctx.sent
       THEN failure' = "no" /\ done' = "failed" /\ UNCHANGED <<ctx, reply, stream, panicked>>
       ELSE failure' = "sending" /\ SendStart("default", 1, FALSE) /\ UNCHANGED <<done, panicked>>
    /\ UNCHANGED <<reserves, canceled, globals, req, rt, reset, faults>>

-----------------------------------------------------------------------------
\* Reset

ResetHandler(k) ==
    /\ reset[k] = "idle" /\ reset' = [reset EXCEPT ![k] = "interrupt"]
    /\ UNCHANGED <<server, globals, req, reply, sandbox, stream, panicked, faults>>

\* A streamed response that is being copied is told to stop: its writer is canceled and the
\* connection of a /response closed.  Before it the writer only.
StopWriterOnly == copy' = [copy EXCEPT !.canceled = TRUE]
StopSender == copy' = [copy EXCEPT !.canceled = TRUE, !.broken = @ \/ FromRuntime]

\* The channel of the interruption is also the one of its acknowledgement: a second reset is
\* taken for the acknowledgement the first one waits for.
Interrupt(k) ==
    /\ reset[k] = "interrupt"
    /\ IF send.pc = "select"
       THEN /\ StopSender /\ send' = [send EXCEPT !.pc = "drain"]
            /\ reset' = [reset EXCEPT ![k] = "ack"]
       ELSE /\ reset' = IF \E j \in Resets : reset[j] = "ack"
                        THEN [reset EXCEPT ![CHOOSE j \in Resets : reset[j] = "ack"] = "kill", ![k] = "ack"]
                        ELSE [reset EXCEPT ![k] = "kill"]
            /\ UNCHANGED <<copy, send>>
    /\ UNCHANGED <<server, globals, req, reply, sandbox, tokens, panicked, faults>>

Acknowledge(k) ==
    /\ send.pc = "ack" /\ reset[k] = "ack"
    /\ send' = [send EXCEPT !.pc = "metrics"] /\ reset' = [reset EXCEPT ![k] = "kill"]
    /\ UNCHANGED <<server, globals, req, reply, sandbox, copy, tokens, panicked, faults>>

\* The sandbox is reset: the runtime is killed, its invocation ends without an answer.
KillRuntime(k) ==
    /\ reset[k] = "kill" /\ reset' = [reset EXCEPT ![k] = "clear"] /\ rt' = "dead"
    /\ copy' = IF copy.pc = "run" /\ FromRuntime THEN [copy EXCEPT !.broken = TRUE] ELSE copy
    /\ UNCHANGED <<server, globals, req, reply, failure, done, send, tokens, panicked, faults>>

\* Clear, and the Release of the caller once it has the answer.
ResetReleases(k) ==
    /\ reset[k] \in {"clear", "release"} /\ Release
    /\ done' = IF reset[k] = "clear" THEN "none" ELSE done
    /\ reset' = [reset EXCEPT ![k] = IF @ = "clear" THEN "release" ELSE "done"]
    /\ UNCHANGED <<globals, req, reply, rt, failure, stream, panicked, faults>>

-----------------------------------------------------------------------------
\* A runtime may keep its caller waiting for its body, its post and its next.
RuntimeBody == FromRuntime /\ (CopyRead \/ CopyEOF)

Program ==
    \/ \E r \in Requests : SetReplyStream(r) \/ AlreadyWritten(r) \/ SendRequest(r) \/ ResponseSent(r)
                           \/ ReservationDone(r)
    \/ (~FromRuntime /\ CopyRead) \/ ((~FromRuntime \/ AtLimit) /\ CopyEOF)
    \/ CopyReadFails \/ CopyWrite \/ CopyWaits \/ Tick \/ CopyDone \/ SendDefaultError
    \/ \E k \in Resets : Interrupt(k) \/ Acknowledge(k) \/ KillRuntime(k) \/ ResetReleases(k)

World ==
    \/ ReserveHandler \/ WaitUntilReleaseHandler \/ RuntimeBody \/ RuntimePosts \/ RuntimeNext \/ Crash \/ WriteFails
    \/ \E r \in Requests, h \in Headers : DirectInvokeHandler(r, h) \/ LateDirectInvokeHandler(r, h)
    \/ \E k \in Resets : ResetHandler(k)

Next == ~panicked /\ (Program \/ World)

\* The program, its timers and the reading caller go on; nobody has to call, and the runtime
\* may hang.
Spec == Init /\ [][Next]_vars /\ WF_vars(~panicked /\ Program)

-----------------------------------------------------------------------------
\* A reply whose End-Of-Response trailer says "Complete" holds the whole body of the runtime's
\* response, and no more units than the request's limit allows: unless the limit is the
\* largest integer, or a request that came meanwhile has changed limit or mode.
CompleteIsWhole ==
    \A r \in Requests :
        (reply[r].trailer = "Complete" /\ ~reply[r].disturbed /\ reply[r].limit # MaxInt)
            => reply[r].units = reply[r].size /\ (reply[r].limit = -1 \/ reply[r].units <= reply[r].limit)

\* A reset ends, whatever the runtime, the throttled copy and another reset do: the sender
\* gives the mutex back even when the runtime never ends its response; unless that response
\* is one to an invocation passed on after the reset had killed the runtime.
ResetEnds ==
    \A k \in Resets : reset[k] = "interrupt" ~> (reset[k] = "done" \/ panicked \/ k \in send.late)
=============================================================================
