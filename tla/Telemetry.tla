----------------------------- MODULE Telemetry -----------------------------
(***************************************************************************)
(* The telemetry of the managed-instances emulator (package telemetry      *)
(* under aws-lambda-rie): the relay, which broadcasts log lines and        *)
(* platform events to its subscribers under one mutex; a subscriber's two  *)
(* goroutines, one that batches events and one that posts the batches to   *)
(* the extension; subscriptions, which replay what was broadcast during    *)
(* the init; and the flush of a shutdown.                                  *)
(*                                                                         *)
(* An event is its position in the order of the broadcasts.  A subscriber  *)
(* is named by the request that made it.  A batch is full by the number of *)
(* its events; its size in bytes is a second bound of the same kind.       *)
(***************************************************************************)
EXTENDS Integers, Sequences, SequencesExt

CONSTANTS
    Subs,        \* requests to subscribe
    AgentName,   \* the extension that makes a request
    Categories,  \* the categories a request asks for
    MaxItems,    \* the size of a subscriber's batch
    Streams,     \* log streams, and the callers of the events API
    CategoryOf,  \* the category of what a stream produces
    MaxLines,    \* events of a stream
    MaxFails     \* posts that fail

EventCategories == {"platform", "function", "extension"}

ASSUME TelemetryAssumption ==
    /\ Categories \in [Subs -> SUBSET EventCategories]
    /\ CategoryOf \in [Streams -> EventCategories]
    /\ MaxItems \in [Subs -> Nat \ {0}] /\ MaxLines \in Nat /\ MaxFails \in Nat
    /\ DOMAIN AgentName = Subs

VARIABLES
    hist,      \* the categories of the events broadcast so far
    buffer,    \* initEventsBuffer
    disabled,  \* subscribing is turned off
    subs,      \* the subscribers of the relay
    request,   \* where the handler of a request is
    stream,    \* what a stream does, and how many events it still has
    sub,       \* a subscriber's goroutines, batches and what became of its events
    waiting,   \* callers of broadcast that wait for the mutex of the relay
    job,       \* what the goroutine that holds the mutex does
    flush,     \* the flush: where its caller is, where it is with each subscriber, its timer
    fails

vars == <<hist, buffer, disabled, subs, request, stream, sub, waiting, job, flush, fails>>
relay == <<hist, buffer, disabled, subs>>

NoJob == [kind |-> "none", by |-> <<"none", "none">>, ev |-> 0, left |-> {}, rest |-> <<>>]

\* pc and lock: the consumer and whether it holds curBatchMu; cur its batch; sender and out the
\* goroutine that posts and its batch, "loop" on its way to its receive, "idle" at it; overrun:
\* a batch came while it was not there.
NewSubscriber == [pc |-> "select", lock |-> FALSE, cur |-> <<>>, sender |-> "loop", out |-> <<>>,
                  delivered |-> <<>>, lost |-> {}, overrun |-> FALSE]

NoFlush == [pc |-> "idle", at |-> [s \in Subs |-> "none"], batch |-> [s \in Subs |-> 0], expired |-> FALSE]

Callers == ({"stream"} \X Streams) \cup ({"subscription", "consumer", "sender"} \X Subs)

\* A request is added, or refused: not valid (400), subscribing is off (403 or 202), or the
\* extension has a subscription.
RequestStates == {"idle", "add", "adding", "announce", "ok", "invalid", "off", "exists"}

NewStream == [pc |-> "read", left |-> MaxLines]

TypeOK ==
    /\ hist \in Seq(EventCategories)
    /\ buffer \in Seq(1 .. Len(hist)) /\ disabled \in BOOLEAN /\ subs \subseteq Subs
    /\ request \in [Subs -> RequestStates]
    /\ stream \in [Streams -> [pc : {"read", "send", "stopped"}, left : 0 .. MaxLines]]
    /\ \A s \in Subs : sub[s].pc \in {"select", "drop"} /\ sub[s].sender \in {"loop", "idle", "sending", "drop"}
    /\ waiting \subseteq Callers /\ job.kind \in {"none", "broadcast", "add", "flush"}
    /\ flush.pc \in {"idle", "called", "running", "done"} /\ fails \in 0 .. MaxFails

NewRelay == hist = <<>> /\ buffer = <<>> /\ disabled = FALSE /\ subs = {}

Init ==
    /\ NewRelay
    /\ request = [s \in Subs |-> "idle"]
    /\ stream = [p \in Streams |-> NewStream]
    /\ sub = [s \in Subs |-> NewSubscriber]
    /\ waiting = {} /\ job = NoJob /\ flush = NoFlush /\ fails = 0

SetSub(s, r) == sub' = [sub EXCEPT ![s] = r]

-----------------------------------------------------------------------------
\* The producers

\* A line of a stream, or a call of one of the Send methods of the events API.
Produce(p) ==
    /\ stream[p].pc = "read" /\ stream[p].left > 0
    /\ stream' = [stream EXCEPT ![p].pc = "send"] /\ waiting' = waiting \cup {<<"stream", p>>}
    /\ UNCHANGED <<relay, request, sub, job, flush, fails>>

\* A line too long for the scanner ends it: nobody reads the pipe any more.
ScanFails(p) ==
    /\ stream[p].pc = "read" /\ stream[p].left > 0 /\ CategoryOf[p] # "platform"
    /\ stream' = [stream EXCEPT ![p].pc = "stopped"]
    /\ UNCHANGED <<relay, request, sub, waiting, job, flush, fails>>

-----------------------------------------------------------------------------
\* Relay.broadcast

CategoryOfCall(c) == IF c[1] = "stream" THEN CategoryOf[c[2]] ELSE "platform"

Wants(s, category) == category \in Categories[s]

BroadcastLocks(c) ==
    /\ c \in waiting /\ job = NoJob /\ waiting' = waiting \ {c}
    /\ hist' = Append(hist, CategoryOfCall(c))
    /\ job' = [NoJob EXCEPT !.kind = "broadcast", !.by = c, !.ev = Len(hist) + 1,
                            !.left = {s \in subs : Wants(s, CategoryOfCall(c))}]
    /\ UNCHANGED <<buffer, disabled, subs, request, stream, sub, flush, fails>>

\* The event is sent to every subscriber; the caller goes on.
BroadcastEnds ==
    /\ job.kind = "broadcast" /\ job.left = {} /\ job' = NoJob
    /\ buffer' = IF disabled THEN buffer ELSE Append(buffer, job.ev)
    /\ stream' = IF job.by[1] = "stream" THEN [stream EXCEPT ![job.by[2]] = [pc |-> "read", left |-> @.left - 1]]
                 ELSE stream
    /\ request' = IF job.by[1] = "subscription" THEN [request EXCEPT ![job.by[2]] = "ok"] ELSE request
    /\ LET s == job.by[2] IN
       CASE job.by[1] = "consumer" -> SetSub(s, [sub[s] EXCEPT !.pc = "select", !.lock = FALSE])
         [] job.by[1] = "sender" -> SetSub(s, [sub[s] EXCEPT !.sender = "loop"])
         [] OTHER -> UNCHANGED sub
    /\ UNCHANGED <<hist, disabled, subs, waiting, flush, fails>>

-----------------------------------------------------------------------------
\* The consumer of a subscriber

\* sendCurrentBatchAsync: a batch that the sender cannot take at once is dropped, which is
\* itself an event to broadcast.  Before it a version that waits for the sender.
HandOverWaits(s, batch, lock) ==
    /\ sub[s].sender = "idle"
    /\ SetSub(s, [sub[s] EXCEPT !.cur = <<>>, !.sender = "sending", !.out = batch])
    /\ UNCHANGED waiting
HandOver(s, batch, lock) ==
    IF sub[s].sender = "idle"
    THEN SetSub(s, [sub[s] EXCEPT !.cur = <<>>, !.sender = "sending", !.out = batch]) /\ UNCHANGED waiting
    ELSE /\ SetSub(s, [sub[s] EXCEPT !.cur = <<>>, !.pc = "drop", !.lock = lock,
                                     !.lost = @ \cup ToSet(batch), !.overrun = TRUE])
         /\ waiting' = waiting \cup {<<"consumer", s>>}

IsFull(s, batch) == Len(batch) >= MaxItems[s]

TakeEvent(s, e) ==
    /\ sub[s].pc = "select"
    /\ LET batch == Append(sub[s].cur, e) IN
       IF IsFull(s, batch) THEN HandOver(s, batch, TRUE)
       ELSE SetSub(s, [sub[s] EXCEPT !.cur = batch]) /\ UNCHANGED waiting

\* An event of a broadcast reaches a subscriber.
TakeBroadcast(s) ==
    /\ job.kind = "broadcast" /\ s \in job.left /\ TakeEvent(s, job.ev)
    /\ job' = [job EXCEPT !.left = @ \ {s}]
    /\ UNCHANGED <<relay, request, stream, flush, fails>>

\* An event that was broadcast before the subscriber was added reaches it.
TakeReplayed(s) ==
    /\ job.kind = "add" /\ job.by[2] = s /\ job.rest # <<>>
    /\ IF Wants(s, hist[Head(job.rest)]) THEN TakeEvent(s, Head(job.rest)) ELSE UNCHANGED <<sub, waiting>>
    /\ job' = [job EXCEPT !.rest = Tail(@)]
    /\ UNCHANGED <<relay, request, stream, flush, fails>>

BatchTimer(s) ==
    /\ sub[s].pc = "select" /\ sub[s].cur # <<>> /\ HandOver(s, sub[s].cur, FALSE)
    /\ UNCHANGED <<relay, request, stream, job, flush, fails>>

-----------------------------------------------------------------------------
\* The sender of a subscriber

\* batchSenderLoop comes to its receive: it is started with the subscriber, which the request
\* makes, and comes back after each post.
SenderReceives(s) ==
    /\ request[s] # "idle" /\ sub[s].sender = "loop"
    /\ SetSub(s, [sub[s] EXCEPT !.sender = "idle"])
    /\ UNCHANGED <<relay, request, stream, waiting, job, flush, fails>>

SendSucceeds(s) ==
    /\ sub[s].sender = "sending"
    /\ SetSub(s, [sub[s] EXCEPT !.sender = "loop", !.delivered = @ \o sub[s].out, !.out = <<>>])
    /\ UNCHANGED <<relay, request, stream, waiting, job, flush, fails>>

\* A post fails: the batch is gone, which is an event to broadcast.
SendFails(s) ==
    /\ sub[s].sender = "sending" /\ fails < MaxFails /\ fails' = fails + 1
    /\ SetSub(s, [sub[s] EXCEPT !.sender = "drop", !.lost = @ \cup ToSet(sub[s].out), !.out = <<>>])
    /\ waiting' = waiting \cup {<<"sender", s>>}
    /\ UNCHANGED <<relay, request, stream, job, flush>>

-----------------------------------------------------------------------------
\* SubscriptionAPI

\* A request that is not valid, or names no destination that can be reached, is answered 400.
Subscribe(s) ==
    /\ request[s] = "idle" /\ \E r \in {"add", "invalid"} : request' = [request EXCEPT ![s] = r]
    /\ UNCHANGED <<relay, stream, sub, waiting, job, flush, fails>>

SameAgent(s, t) == AgentName[s] = AgentName[t]

\* Once subscribing is off nobody is added.  Before it a version that does not look.
RefusalLate(s) == IF \E t \in subs : SameAgent(s, t) THEN "exists" ELSE "adding"
Refusal(s) ==
    IF disabled THEN "off"
    ELSE IF \E t \in subs : SameAgent(s, t) THEN "exists" ELSE "adding"

AddSubscriber(s) ==
    /\ request[s] = "add" /\ job = NoJob /\ request' = [request EXCEPT ![s] = Refusal(s)]
    /\ IF Refusal(s) = "adding"
       THEN subs' = subs \cup {s} /\ job' = [NoJob EXCEPT !.kind = "add", !.by = <<"subscription", s>>, !.rest = buffer]
       ELSE UNCHANGED <<subs, job>>
    /\ UNCHANGED <<hist, buffer, disabled, stream, sub, waiting, flush, fails>>

\* Everything is replayed; the subscription is announced by an event of its own.
SubscriberAdded ==
    /\ job.kind = "add" /\ job.rest = <<>> /\ job' = NoJob
    /\ request' = [request EXCEPT ![job.by[2]] = "announce"] /\ waiting' = waiting \cup {job.by}
    /\ UNCHANGED <<relay, stream, sub, flush, fails>>

DisableAddSubscriber == job = NoJob /\ disabled' = TRUE /\ buffer' = <<>>

\* At the end of the init.
TurnOff ==
    /\ ~disabled /\ DisableAddSubscriber
    /\ UNCHANGED <<hist, subs, request, stream, sub, waiting, job, flush, fails>>

-----------------------------------------------------------------------------
\* EventsAPI.Flush, by the shutdown

Flush ==
    /\ flush.pc = "idle" /\ flush' = [flush EXCEPT !.pc = "called"]
    /\ UNCHANGED <<relay, request, stream, sub, waiting, job, fails>>

FlushLocks ==
    /\ flush.pc = "called" /\ job = NoJob /\ job' = [NoJob EXCEPT !.kind = "flush"]
    /\ flush' = [flush EXCEPT !.pc = "running", !.at = [s \in Subs |-> IF s \in subs THEN "look" ELSE "none"]]
    /\ UNCHANGED <<relay, request, stream, sub, waiting, fails>>

\* Subscriber.Flush looks for a batch under curBatchMu: none, nothing to wait for.
FlushLooks(s) ==
    /\ flush.at[s] = "look" /\ ~sub[s].lock
    /\ flush' = IF sub[s].cur = <<>> THEN [flush EXCEPT !.at[s] = "none"]
                ELSE [flush EXCEPT !.at[s] = "signal", !.batch[s] = Head(sub[s].cur)]
    /\ UNCHANGED <<relay, request, stream, sub, waiting, job, fails>>

\* The consumer hands over what it has by now, which may be another batch, or none.
FlushSignals(s) ==
    /\ flush.at[s] = "signal" /\ sub[s].pc = "select"
    /\ IF sub[s].cur = <<>> THEN UNCHANGED <<sub, waiting>> ELSE HandOver(s, sub[s].cur, FALSE)
    /\ flush' = [flush EXCEPT !.at[s] = "wait"]
    /\ UNCHANGED <<relay, request, stream, job, fails>>

\* doneCh: the batch was posted or given up.
Settled(s, e) == e \in ToSet(sub[s].delivered) \cup sub[s].lost

FlushWaits(s) ==
    /\ flush.at[s] = "wait" /\ (Settled(s, flush.batch[s]) \/ flush.expired)
    /\ flush' = [flush EXCEPT !.at[s] = "none"]
    /\ UNCHANGED <<relay, request, stream, sub, waiting, job, fails>>

\* The timeout of one second; it matters to whoever waits for a batch.
FlushExpires ==
    /\ \E s \in Subs : flush.at[s] = "wait"
    /\ ~flush.expired /\ flush' = [flush EXCEPT !.expired = TRUE]
    /\ UNCHANGED <<relay, request, stream, sub, waiting, job, fails>>

FlushEnds ==
    /\ job.kind = "flush" /\ \A s \in Subs : flush.at[s] = "none"
    /\ job' = NoJob /\ flush' = [flush EXCEPT !.pc = "done"]
    /\ UNCHANGED <<relay, request, stream, sub, waiting, fails>>

-----------------------------------------------------------------------------
Program ==
    \/ \E c \in Callers : BroadcastLocks(c)
    \/ BroadcastEnds \/ SubscriberAdded \/ FlushLocks \/ FlushExpires \/ FlushEnds
    \/ \E s \in Subs : TakeBroadcast(s) \/ TakeReplayed(s) \/ BatchTimer(s) \/ AddSubscriber(s)
                       \/ SenderReceives(s)
                       \/ FlushLooks(s) \/ FlushSignals(s) \/ FlushWaits(s)

World ==
    \/ \E p \in Streams : Produce(p) \/ ScanFails(p)
    \/ \E s \in Subs : Subscribe(s) \/ SendSucceeds(s) \/ SendFails(s)
    \/ TurnOff \/ Flush

Next == Program \/ World

\* The goroutines and the timers go on.  An extension may never answer a post: the request has
\* no deadline.
Spec == Init /\ [][Next]_vars /\ WF_vars(Program)

-----------------------------------------------------------------------------
Increasing(q) == \A i, j \in 1 .. Len(q) : i < j => q[i] < q[j]

\* What the relay still has to send to a subscriber.
Pending(s) ==
    (IF s \in job.left THEN {job.ev} ELSE {})
    \cup (IF job.kind = "add" /\ job.by[2] = s
          THEN {e \in ToSet(job.rest) : hist[e] \in Categories[s]} ELSE {})

\* Every event of a subscriber's categories since the start of the program, the init included,
\* is delivered to it, on its way or in a batch that was given up, each once; and what is
\* delivered keeps the order of the broadcasts.
EventsAccounted ==
    \A s \in subs :
        LET kept == sub[s].delivered \o sub[s].out \o sub[s].cur IN
        /\ Increasing(kept) /\ ToSet(kept) \cap sub[s].lost = {}
        /\ ToSet(kept) \cup sub[s].lost \cup Pending(s) = {e \in 1 .. Len(hist) : hist[e] \in Categories[s]}

Overrun == \E s \in Subs : sub[s].overrun

Quiet == waiting = {} /\ job = NoJob /\ flush.pc # "called" /\ \A s \in Subs : request[s] # "add"

\* Whoever sends an event, subscribes or flushes is let go, although an extension never answers
\* a post or refuses it: as long as no subscriber has had to drop a batch because its sender
\* was not at its receive.  (There are finitely many calls: all of them end when there is again
\* and again a moment without one.)
CallsEnd == []<>(Quiet \/ Overrun)

\* The same without the exception: "Some logs were dropped because the downstream consumer is
\* slower than the logs production rate", and nobody is stopped by it.
DropsDoNotBlock == []<>Quiet
=============================================================================
