------------------------- MODULE DirectInvoke_proofs -------------------------
(***************************************************************************)
(* Theorems about DirectInvoke, for any number of requests and resets, any *)
(* sizes, limits and bandwidth, and whatever the runtime does.             *)
(***************************************************************************)
EXTENDS DirectInvoke, TLAPS

CtxRecs   == [id : Nat, stream : Requests \cup {0}, sent : BOOLEAN]
ReplyRecs == [units : Nat, trailer : {"none", "Complete", "Oversized", "Truncated"}, size : Nat,
              limit : Limits, disturbed : BOOLEAN]
SendRecs  == [pc : {"none", "select", "drain", "ack", "copy", "metrics"},
              by : {"none", "response", "error", "default"}, late : SUBSET Resets]
CopyRecs  == [pc : {"none", "run", "done"}, throttled : BOOLEAN, restricted : BOOLEAN, left : Int,
              rest : Nat, chunk : Nat, n : Nat, waiting : BOOLEAN, broken : BOOLEAN,
              canceled : BOOLEAN, err : BOOLEAN]

StreamType ==
    /\ ctx \in CtxRecs /\ reserves \in Nat /\ limit \in Limits /\ mode \in Modes
    /\ reply \in [Requests -> ReplyRecs] /\ send \in SendRecs /\ copy \in CopyRecs

\* Whoever copies holds the mutex of the server, for a reservation with a stream.
Held ==
    /\ send.pc = "none" <=> copy.pc = "none"
    /\ copy.pc # "none" => ctx.stream \in Requests

\* The copy works under the limit and the mode that it was started with.
Undisturbed ==
    /\ reply[ctx.stream].limit = limit
    /\ copy.throttled <=> mode = "Streaming"
    /\ copy.restricted <=> (mode = "Buffered" \/ limit # -1)
    /\ copy.left = PlusOne(limit) - (copy.n + copy.chunk)
    /\ limit # MaxInt /\ copy.restricted => copy.left >= 0

\* What was read of the body and what was written to the caller.
Copied ==
    /\ reply[ctx.stream].trailer = "none" /\ reply[ctx.stream].units = copy.n
    /\ reply[ctx.stream].size = copy.n + copy.chunk + copy.rest
    /\ ~reply[ctx.stream].disturbed => Undisturbed

Copying == copy.pc = "run" => Copied

StreamInv == StreamType /\ Held /\ Copying /\ CompleteIsWhole

-----------------------------------------------------------------------------
\* What the copy has read and written, and under which limits.
Progress(c) == <<c.throttled, c.restricted, c.left, c.rest, c.chunk, c.n>>

\* A step that neither reads nor writes nor changes what a reply is copied under.
LEMMA QuietStep ==
    ASSUME StreamInv, UNCHANGED <<limit, mode, reply>>, ctx' \in CtxRecs, reserves' \in Nat,
           send' \in SendRecs, copy' \in CopyRecs,
           send'.pc = "none" <=> copy'.pc = "none", copy'.pc # "none" => ctx'.stream \in Requests,
           copy'.pc = "run" => /\ copy.pc = "run" /\ ctx'.stream = ctx.stream
                               /\ Progress(copy') = Progress(copy)
    PROVE  StreamInv'
<1>1. StreamType'
  BY DEF StreamInv, StreamType
<1>2. Held'
  BY DEF Held
<1>3. Copying'
  <2> SUFFICES ASSUME copy'.pc = "run" PROVE Copied'
    BY DEF Copying
  <2>1. Copied
    BY DEF StreamInv, Copying
  <2>2. /\ copy'.throttled = copy.throttled /\ copy'.restricted = copy.restricted /\ copy'.left = copy.left
        /\ copy'.rest = copy.rest /\ copy'.chunk = copy.chunk /\ copy'.n = copy.n
    BY DEF Progress
  <2>3. reply'[ctx'.stream] = reply[ctx.stream]
    OBVIOUS
  <2>4. Undisturbed => Undisturbed'
    BY <2>2, <2>3 DEF Undisturbed, PlusOne
  <2> QED
    BY <2>1, <2>2, <2>3, <2>4 DEF Copied
<1>4. CompleteIsWhole'
  BY DEF StreamInv, CompleteIsWhole
<1> QED
  BY <1>1, <1>2, <1>3, <1>4 DEF StreamInv

LEMMA LimitFacts == MaxInt \in Nat /\ 0 \in Limits /\ MaxPayloadSize \in Limits /\ Limits \subseteq Int
<1>1. MaxInt \in Nat /\ MaxPayloadSize \in 0 .. MaxInt
  BY DirectInvokeAssumption
<1> QED
  BY <1>1 DEF Limits

LEMMA NoRecs == NoCtx \in CtxRecs /\ NoSend \in SendRecs /\ NoCopy \in CopyRecs /\ NoReply \in ReplyRecs
<1>1. NoCtx \in CtxRecs
  BY DEF NoCtx, CtxRecs
<1>2. NoSend \in SendRecs
  BY DEF NoSend, SendRecs
<1>3. NoCopy \in CopyRecs
  <2>1. \A b \in BOOLEAN : [pc |-> "none", throttled |-> b, restricted |-> b, left |-> 0, rest |-> 0, chunk |-> 0,
                            n |-> 0, waiting |-> b, broken |-> b, canceled |-> b, err |-> b] \in CopyRecs
    BY DEF CopyRecs
  <2> QED
    BY <2>1, Zenon DEF NoCopy
<1>4. NoReply \in ReplyRecs
  <2>1. \A b \in BOOLEAN : [units |-> 0, trailer |-> "none", size |-> 0, limit |-> 0, disturbed |-> b] \in ReplyRecs
    BY LimitFacts DEF ReplyRecs
  <2> QED
    BY <2>1, Zenon DEF NoReply
<1> QED
  BY <1>1, <1>2, <1>3, <1>4

\* The fields of a copy: the ones that are set leave the others alone.
LEMMA CopyFields ==
    ASSUME NEW c \in CopyRecs, NEW b \in BOOLEAN, NEW d \in BOOLEAN
    PROVE  /\ [c EXCEPT !.waiting = b] \in CopyRecs /\ [c EXCEPT !.broken = b] \in CopyRecs
           /\ [c EXCEPT !.canceled = b, !.broken = d] \in CopyRecs
           /\ Progress([c EXCEPT !.waiting = b]) = Progress(c) /\ [c EXCEPT !.waiting = b].pc = c.pc
           /\ Progress([c EXCEPT !.broken = b]) = Progress(c) /\ [c EXCEPT !.broken = b].pc = c.pc
           /\ Progress([c EXCEPT !.canceled = b, !.broken = d]) = Progress(c)
           /\ [c EXCEPT !.canceled = b, !.broken = d].pc = c.pc
<1>1. [c EXCEPT !.waiting = b] \in CopyRecs /\ [c EXCEPT !.broken = b] \in CopyRecs
  BY DEF CopyRecs
<1>2. [c EXCEPT !.canceled = b, !.broken = d] \in CopyRecs
  BY DEF CopyRecs
<1>3. /\ Progress([c EXCEPT !.waiting = b]) = Progress(c) /\ [c EXCEPT !.waiting = b].pc = c.pc
      /\ Progress([c EXCEPT !.broken = b]) = Progress(c) /\ [c EXCEPT !.broken = b].pc = c.pc
  BY DEF CopyRecs, Progress
<1>4. /\ Progress([c EXCEPT !.canceled = b, !.broken = d]) = Progress(c)
      /\ [c EXCEPT !.canceled = b, !.broken = d].pc = c.pc
  BY DEF CopyRecs, Progress
<1> QED
  BY <1>1, <1>2, <1>3, <1>4

-----------------------------------------------------------------------------
(* A request that comes while another one's response is sent. *)

LEMMA ParsedType ==
    ASSUME StreamType, NEW h \in Headers
    PROVE  ParsedLimit(h) \in Limits /\ ParsedMode(h) \in Modes
<1>1. h.max \in Limits /\ h.mode \in {""} \cup Modes
  BY DirectInvokeAssumption
<1>2. MaxPayloadSize \in Limits /\ limit \in Limits /\ mode \in Modes
  BY LimitFacts DEF StreamType
<1>3. ParsedLimit(h) \in Limits
  <2>1. ParsedLimit(h) \in {limit, MaxPayloadSize, h.max}
    BY DEF ParsedLimit
  <2> QED
    BY <1>1, <1>2, <2>1
<1>4. "Streaming" \in Modes
  BY DEF Modes
<1>5. ParsedMode(h) \in Modes
  BY <1>1, <1>2, <1>4 DEF ParsedMode
<1> QED
  BY <1>3, <1>5

LEMMA DisturbStep ==
    ASSUME StreamInv, NEW h \in Headers, limit' = ParsedLimit(h), mode' = ParsedMode(h), Disturb(h),
           UNCHANGED <<ctx, reserves, send, copy>>
    PROVE  StreamInv'
<1>1. StreamType
  BY DEF StreamInv
<1>2. /\ limit' \in Limits /\ mode' \in Modes /\ reply \in [Requests -> ReplyRecs]
  BY <1>1, ParsedType DEF StreamType
<1>3. \A b \in BOOLEAN, r \in Requests : /\ [reply[r] EXCEPT !.disturbed = b] \in ReplyRecs
                                        /\ [reply[r] EXCEPT !.disturbed = b].disturbed = b
                                        /\ [reply[r] EXCEPT !.disturbed = b].trailer = reply[r].trailer
                                        /\ [reply[r] EXCEPT !.disturbed = b].units = reply[r].units
                                        /\ [reply[r] EXCEPT !.disturbed = b].size = reply[r].size
                                        /\ [reply[r] EXCEPT !.disturbed = b].limit = reply[r].limit
  BY <1>2 DEF ReplyRecs
<1>4. \A r \in Requests : \/ reply'[r] = reply[r]
                          \/ reply'[r] = [reply[r] EXCEPT !.disturbed = TRUE]
  BY DEF Disturb
<1>5. reply' \in [Requests -> ReplyRecs]
  <2>1. \A r \in Requests : reply'[r] \in ReplyRecs
    BY <1>2, <1>3, <1>4
  <2>2. reply' = [r \in Requests |-> reply'[r]]
    BY DEF Disturb
  <2> QED
    BY <2>1, <2>2
<1>6. StreamType'
  BY <1>1, <1>2, <1>5 DEF StreamType
<1>7. Held'
  BY DEF StreamInv, Held
<1>8. Copying'
  <2> SUFFICES ASSUME copy.pc = "run" PROVE Copied'
    BY DEF Copying
  <2>1. Copied /\ ctx.stream \in Requests
    BY DEF StreamInv, Copying, Held
  <2>2. CASE limit' = limit /\ mode' = mode
    <3>1. reply'[ctx.stream] = reply[ctx.stream]
      BY <2>1, <2>2 DEF Disturb, globals
    <3>2. Undisturbed => Undisturbed'
      BY <2>2, <3>1 DEF Undisturbed, PlusOne
    <3> QED
      BY <2>1, <3>1, <3>2 DEF Copied
  <2>3. CASE ~(limit' = limit /\ mode' = mode)
    <3>1. reply'[ctx.stream] = [reply[ctx.stream] EXCEPT !.disturbed = TRUE]
      BY <2>1, <2>3 DEF Disturb, globals
    <3>2. /\ reply'[ctx.stream].disturbed /\ reply'[ctx.stream].trailer = reply[ctx.stream].trailer
          /\ reply'[ctx.stream].units = reply[ctx.stream].units
          /\ reply'[ctx.stream].size = reply[ctx.stream].size
      BY <1>3, <2>1, <3>1
    <3> QED
      BY <2>1, <3>2 DEF Copied
  <2> QED
    BY <2>2, <2>3
<1>9. CompleteIsWhole'
  <2> SUFFICES ASSUME NEW r \in Requests, reply'[r].trailer = "Complete", ~reply'[r].disturbed, reply'[r].limit # MaxInt
               PROVE /\ reply'[r].units = reply'[r].size
                     /\ reply'[r].limit = -1 \/ reply'[r].units <= reply'[r].limit
    BY DEF CompleteIsWhole
  <2>1. reply'[r] = reply[r]
    BY <1>3, <1>4
  <2> QED
    BY <2>1 DEF StreamInv, CompleteIsWhole
<1> QED
  BY <1>6, <1>7, <1>8, <1>9 DEF StreamInv

-----------------------------------------------------------------------------
(* A response is sent. *)

LEMMA NewWriterFacts ==
    ASSUME StreamType, NEW size \in Nat
    PROVE  LET w == NewStreamedResponseWriter(size) IN
           /\ w \in CopyRecs /\ w.pc = "run" /\ (w.throttled <=> mode = "Streaming")
           /\ w.restricted <=> (mode = "Buffered" \/ limit # -1)
           /\ w.left = PlusOne(limit) /\ w.rest = size /\ w.chunk = 0 /\ w.n = 0
<1>1. PICK t \in BOOLEAN : t = (mode = "Streaming")
  OBVIOUS
<1>2. PICK q \in BOOLEAN : q = (mode = "Buffered" \/ limit # -1)
  OBVIOUS
<1>3. PICK l \in Int : l = PlusOne(limit)
  BY LimitFacts DEF StreamType, PlusOne
<1> DEFINE c == [NoCopy EXCEPT !.pc = "run", !.restricted = q, !.left = l, !.rest = size]
           w == [c EXCEPT !.throttled = t, !.canceled = FALSE]
<1>4. NewStreamedResponseWriter(size) = w
  BY <1>1, <1>2, <1>3, Zenon DEF NewStreamedResponseWriter, NewThrottler, ReaderLimit
<1>5. NoCopy \in CopyRecs /\ NoCopy.chunk = 0 /\ NoCopy.n = 0
  BY NoRecs DEF NoCopy
<1>6. /\ c \in CopyRecs /\ c.pc = "run" /\ c.restricted = q /\ c.left = l /\ c.rest = size
      /\ c.chunk = 0 /\ c.n = 0
  BY <1>5 DEF CopyRecs
<1> HIDE DEF c
<1>7. \A b \in BOOLEAN : /\ [c EXCEPT !.throttled = t, !.canceled = b] \in CopyRecs
                         /\ [c EXCEPT !.throttled = t, !.canceled = b].throttled = t
                         /\ [c EXCEPT !.throttled = t, !.canceled = b].restricted = c.restricted
                         /\ [c EXCEPT !.throttled = t, !.canceled = b].pc = c.pc
                         /\ [c EXCEPT !.throttled = t, !.canceled = b].left = c.left
                         /\ [c EXCEPT !.throttled = t, !.canceled = b].rest = c.rest
                         /\ [c EXCEPT !.throttled = t, !.canceled = b].chunk = c.chunk
                         /\ [c EXCEPT !.throttled = t, !.canceled = b].n = c.n
  BY <1>6 DEF CopyRecs
<1>8. /\ w \in CopyRecs /\ w.pc = "run" /\ w.throttled = t /\ w.restricted = q /\ w.left = l
      /\ w.rest = size /\ w.chunk = 0 /\ w.n = 0
  BY <1>6, <1>7
<1> HIDE DEF w
<1> QED
  BY <1>1, <1>2, <1>3, <1>4, <1>8

LEMMA NewReplyFacts ==
    ASSUME StreamType, NEW size \in Nat
    PROVE  LET p == [NoReply EXCEPT !.size = size, !.limit = limit] IN
           /\ p \in ReplyRecs /\ p.units = 0 /\ p.trailer = "none" /\ p.size = size /\ p.limit = limit
<1>1. limit \in Limits
  BY DEF StreamType
<1> QED
  BY <1>1, NoRecs DEF ReplyRecs, NoReply

LEMMA SendStartStep ==
    ASSUME StreamInv, NEW by \in {"response", "error", "default"}, NEW size \in Nat, NEW bad \in BOOLEAN,
           SendStart(by, size, bad), MutexFree, UNCHANGED <<limit, mode, reserves>>
    PROVE  StreamInv'
<1>1. StreamType /\ ctx \in CtxRecs /\ send \in SendRecs /\ copy \in CopyRecs
  BY DEF StreamInv, StreamType
<1>2. copy.pc = "none" /\ send.pc = "none"
  BY DEF StreamInv, Held, MutexFree
<1>3. CASE bad /\ mode = "Buffered"
  <2>1. ctx' = [ctx EXCEPT !.sent = TRUE] /\ UNCHANGED <<send, copy, reply>>
    BY <1>3 DEF SendStart, stream
  <2>2. \A b \in BOOLEAN : [ctx EXCEPT !.sent = b] \in CtxRecs
    BY <1>1 DEF CtxRecs
  <2>3. ctx' \in CtxRecs /\ reserves' \in Nat
    BY <1>1, <2>1, <2>2 DEF StreamType
  <2> QED
    BY <1>1, <1>2, <2>1, <2>3, QuietStep
<1>4. CASE ~(bad /\ mode = "Buffered")
  <2> DEFINE p == [NoReply EXCEPT !.size = size, !.limit = limit]
  <2>1. /\ send' = [pc |-> IF mode = "Streaming" THEN "select" ELSE "copy", by |-> by,
                    late |-> {k \in Resets : reset[k] \in {"clear", "release"}}]
        /\ copy' = NewStreamedResponseWriter(size)
        /\ reply' = [reply EXCEPT ![ctx.stream] = p] /\ ctx' = ctx /\ AwaitsReply
    BY <1>4 DEF SendStart
  <2>2. ctx.stream \in Requests
    BY <1>1, <2>1 DEF AwaitsReply, CtxRecs
  <2>3. send' \in SendRecs /\ send'.pc # "none"
    BY <2>1 DEF SendRecs
  <2>4. /\ copy' \in CopyRecs /\ copy'.pc = "run" /\ (copy'.throttled <=> mode = "Streaming")
        /\ copy'.restricted <=> (mode = "Buffered" \/ limit # -1)
        /\ copy'.left = PlusOne(limit) /\ copy'.rest = size /\ copy'.chunk = 0 /\ copy'.n = 0
    BY <1>1, <2>1, NewWriterFacts
  <2>5. p \in ReplyRecs /\ p.units = 0 /\ p.trailer = "none" /\ p.size = size /\ p.limit = limit
    BY <1>1, NewReplyFacts
  <2> HIDE DEF p
  <2>6. /\ reply' \in [Requests -> ReplyRecs] /\ reply'[ctx.stream] = p
        /\ \A r \in Requests : r # ctx.stream => reply'[r] = reply[r]
    BY <1>1, <2>1, <2>2, <2>5 DEF StreamType
  <2>7. StreamType'
    BY <1>1, <2>1, <2>3, <2>4, <2>6 DEF StreamType
  <2>8. Held'
    BY <2>1, <2>2, <2>3, <2>4 DEF Held
  <2>9. Undisturbed'
    <3>1. PlusOne(limit) \in Int /\ (limit # MaxInt => PlusOne(limit) >= 0)
      BY <1>1, LimitFacts DEF PlusOne, StreamType, Limits
    <3>2. PlusOne(limit)' = PlusOne(limit)
      BY DEF PlusOne
    <3> QED
      BY <2>1, <2>4, <2>5, <2>6, <3>1, <3>2 DEF Undisturbed
  <2>10. Copying'
    BY <2>1, <2>4, <2>5, <2>6, <2>9 DEF Copying, Copied
  <2>11. CompleteIsWhole'
    <3> SUFFICES ASSUME NEW r \in Requests, reply'[r].trailer = "Complete", ~reply'[r].disturbed, reply'[r].limit # MaxInt
                 PROVE /\ reply'[r].units = reply'[r].size
                       /\ reply'[r].limit = -1 \/ reply'[r].units <= reply'[r].limit
      BY DEF CompleteIsWhole
    <3>1. reply'[r] = reply[r]
      BY <2>5, <2>6
    <3> QED
      BY <3>1 DEF StreamInv, CompleteIsWhole
  <2> QED
    BY <2>7, <2>8, <2>10, <2>11 DEF StreamInv
<1> QED
  BY <1>3, <1>4

LEMMA CopyReadStep ==
    ASSUME StreamInv, CopyRead
    PROVE  StreamInv'
<1>1. /\ StreamType /\ copy \in CopyRecs /\ copy.pc = "run" /\ ctx.stream \in Requests /\ Copied
      /\ copy.chunk = 0
  BY DEF StreamInv, StreamType, Held, Copying, CopyRead
<1>2. /\ copy.rest \in Nat /\ copy.left \in Int /\ copy.n \in Nat
  BY <1>1 DEF CopyRecs
<1>3. PICK k \in 1 .. (IF copy.restricted THEN Least(copy.rest, copy.left) ELSE copy.rest) :
          copy' = [copy EXCEPT !.chunk = k, !.rest = @ - k, !.left = @ - k]
  BY DEF CopyRead
<1>4. k \in Nat /\ k <= copy.rest /\ (copy.restricted => k <= copy.left)
  BY <1>2, <1>3 DEF Least
<1>5. /\ copy' \in CopyRecs /\ copy'.pc = "run" /\ copy'.chunk = k /\ copy'.rest = copy.rest - k
      /\ copy'.left = copy.left - k /\ copy'.n = copy.n
      /\ copy'.throttled = copy.throttled /\ copy'.restricted = copy.restricted
  <2>1. PICK u \in Nat, v \in Int : u = copy.rest - k /\ v = copy.left - k
    BY <1>2, <1>4
  <2>2. copy' = [copy EXCEPT !.chunk = k, !.rest = u, !.left = v]
    BY <1>3, <2>1
  <2> QED
    BY <1>1, <1>4, <2>1, <2>2 DEF CopyRecs
<1>6. UNCHANGED <<ctx, reserves, limit, mode, reply, send>>
  BY DEF CopyRead, server, globals
<1>7. StreamType'
  BY <1>1, <1>5, <1>6 DEF StreamType
<1>8. Held'
  BY <1>1, <1>5, <1>6 DEF StreamInv, Held
<1>9. Undisturbed => Undisturbed'
  <2> SUFFICES ASSUME Undisturbed PROVE Undisturbed'
    OBVIOUS
  <2>1. PlusOne(limit)' = PlusOne(limit) /\ PlusOne(limit) \in Int
    BY <1>1, <1>6, LimitFacts DEF PlusOne, StreamType
  <2>2. copy'.left = PlusOne(limit) - (copy'.n + copy'.chunk)
    BY <1>1, <1>2, <1>4, <1>5, <2>1 DEF Undisturbed
  <2>3. limit # MaxInt /\ copy'.restricted => copy'.left >= 0
    BY <1>2, <1>4, <1>5
  <2> QED
    BY <1>5, <1>6, <2>1, <2>2, <2>3 DEF Undisturbed
<1>10. Copying'
  BY <1>1, <1>2, <1>4, <1>5, <1>6, <1>9 DEF Copying, Copied
<1>11. CompleteIsWhole'
  BY <1>6 DEF StreamInv, CompleteIsWhole
<1> QED
  BY <1>7, <1>8, <1>10, <1>11 DEF StreamInv

\* A reply that is declared complete is whole and within its limit.
LEMMA TrailerRight ==
    ASSUME StreamInv, copy.pc = "run", copy.chunk = 0, AtLimit \/ copy.rest = 0,
           Trailer(FALSE) = "Complete", Undisturbed, limit # MaxInt
    PROVE  copy.rest = 0 /\ (limit = -1 \/ copy.n <= limit)
<1>1. /\ copy \in CopyRecs /\ limit \in Limits /\ mode \in Modes
  BY DEF StreamInv, StreamType
<1>2. copy.n \in Nat /\ copy.left \in Int /\ limit \in Int
  BY <1>1, LimitFacts DEF CopyRecs
<1>3. copy.left = limit + 1 - copy.n /\ PlusOne(limit) = limit + 1
  BY <1>2 DEF Undisturbed, PlusOne
<1>4. CASE copy.throttled
  <2>1. ~(copy.restricted /\ copy.n > limit)
    BY <1>4 DEF Trailer
  <2>2. ~AtLimit
    BY <1>2, <1>3, <2>1 DEF AtLimit
  <2> QED
    BY <1>2, <2>1, <2>2 DEF Undisturbed
<1>5. CASE ~copy.throttled
  <2>1. mode = "Buffered" /\ copy.restricted
    BY <1>1, <1>5 DEF Undisturbed, Modes
  <2>2. copy.n # limit + 1
    BY <1>3, <1>5, <2>1 DEF Trailer
  <2>3. copy.left >= 0
    BY <2>1 DEF Undisturbed
  <2>4. ~AtLimit
    BY <1>2, <1>3, <2>2, <2>3 DEF AtLimit
  <2> QED
    BY <1>2, <1>3, <2>2, <2>3, <2>4
<1> QED
  BY <1>4, <1>5

LEMMA CopyEndsStep ==
    ASSUME StreamInv, copy.pc = "run", NEW e \in BOOLEAN, CopyEnds(e),
           ~e => copy.chunk = 0 /\ (AtLimit \/ copy.rest = 0),
           UNCHANGED <<ctx, reserves, limit, mode>>
    PROVE  StreamInv'
<1>1. /\ StreamType /\ copy \in CopyRecs /\ send \in SendRecs /\ ctx.stream \in Requests /\ Copied
      /\ send.pc # "none" /\ reply \in [Requests -> ReplyRecs]
  BY DEF StreamInv, StreamType, Held, Copying
<1>2. copy' \in CopyRecs /\ copy'.pc = "done"
  <2>1. \A b \in BOOLEAN : /\ [copy EXCEPT !.pc = "done", !.err = e, !.chunk = 0, !.waiting = b] \in CopyRecs
                           /\ [copy EXCEPT !.pc = "done", !.err = e, !.chunk = 0, !.waiting = b].pc = "done"
    BY <1>1 DEF CopyRecs
  <2> QED
    BY <2>1, Zenon DEF CopyEnds
<1>3. send' \in SendRecs /\ send'.pc # "none"
  BY <1>1 DEF CopyEnds, SendRecs
<1>4. PICK x : x = Trailer(e) /\ x \in {"Complete", "Oversized", "Truncated"}
  BY DEF Trailer
<1>5. reply' = [reply EXCEPT ![ctx.stream] = [reply[ctx.stream] EXCEPT !.trailer = x]]
  BY <1>4 DEF CopyEnds
<1>6. /\ [reply[ctx.stream] EXCEPT !.trailer = x] \in ReplyRecs
      /\ reply'[ctx.stream] = [reply[ctx.stream] EXCEPT !.trailer = x]
      /\ \A r \in Requests : r # ctx.stream => reply'[r] = reply[r]
  BY <1>1, <1>4, <1>5 DEF ReplyRecs
<1>7. reply' \in [Requests -> ReplyRecs]
  BY <1>1, <1>5, <1>6
<1>8. /\ reply'[ctx.stream].trailer = x /\ reply'[ctx.stream].units = reply[ctx.stream].units
      /\ reply'[ctx.stream].size = reply[ctx.stream].size /\ reply'[ctx.stream].limit = reply[ctx.stream].limit
      /\ reply'[ctx.stream].disturbed = reply[ctx.stream].disturbed
  BY <1>1, <1>6 DEF ReplyRecs
<1>9. StreamType'
  BY <1>1, <1>2, <1>3, <1>7 DEF StreamType
<1>10. Held'
  BY <1>1, <1>2, <1>3 DEF Held
<1>11. Copying'
  BY <1>2 DEF Copying
<1>12. CompleteIsWhole'
  <2> SUFFICES ASSUME NEW r \in Requests, reply'[r].trailer = "Complete", ~reply'[r].disturbed, reply'[r].limit # MaxInt
               PROVE /\ reply'[r].units = reply'[r].size
                     /\ reply'[r].limit = -1 \/ reply'[r].units <= reply'[r].limit
    BY DEF CompleteIsWhole
  <2>1. CASE r # ctx.stream
    <3>1. reply'[r] = reply[r]
      BY <1>6, <2>1
    <3> QED
      BY <3>1 DEF StreamInv, CompleteIsWhole
  <2>2. CASE r = ctx.stream
    <3>1. Undisturbed /\ limit # MaxInt /\ reply[r].limit = limit
      BY <1>1, <1>8, <2>2 DEF Copied, Undisturbed
    <3>2. ~e
      BY <1>4, <1>8, <2>2 DEF Trailer
    <3>3. Trailer(FALSE) = "Complete"
      BY <1>4, <1>8, <2>2, <3>2 DEF Trailer
    <3>4. copy.rest = 0 /\ copy.chunk = 0 /\ (limit = -1 \/ copy.n <= limit)
      BY <3>1, <3>2, <3>3, TrailerRight
    <3>5. reply[r].units = copy.n /\ reply[r].size = copy.n
      <4>1. copy.n \in Nat
        BY <1>1 DEF CopyRecs
      <4> QED
        BY <1>1, <2>2, <3>4, <4>1 DEF Copied
    <3> QED
      BY <1>8, <2>2, <3>1, <3>4, <3>5
  <2> QED
    BY <2>1, <2>2
<1> QED
  BY <1>9, <1>10, <1>11, <1>12 DEF StreamInv

LEMMA CopyWriteStep ==
    ASSUME StreamInv, CopyWrite
    PROVE  StreamInv'
<1>1. UNCHANGED <<ctx, reserves, limit, mode>> /\ copy.pc = "run"
  BY DEF CopyWrite, server, globals
<1>2. CASE copy.canceled
  BY <1>1, <1>2, CopyEndsStep DEF CopyWrite
<1>3. CASE ~copy.canceled
  <2>1. /\ StreamType /\ copy \in CopyRecs /\ ctx.stream \in Requests /\ Copied /\ copy.chunk > 0
        /\ reply \in [Requests -> ReplyRecs]
    BY <1>1 DEF StreamInv, StreamType, Held, Copying, CopyWrite
  <2>2. copy.rest \in Nat /\ copy.left \in Int /\ copy.n \in Nat /\ copy.chunk \in Nat /\ reply[ctx.stream] \in ReplyRecs
    BY <2>1 DEF CopyRecs
  <2>3. PICK k \in Nat : k = Piece /\ k <= copy.chunk
    <3>1. Capacity \in Nat
      BY DirectInvokeAssumption
    <3>2. Piece \in Nat /\ Piece <= copy.chunk
      BY <2>2, <3>1 DEF Piece, Least
    <3> QED
      BY <3>2
  <2>4. /\ copy' = [copy EXCEPT !.chunk = @ - k, !.n = @ + k] /\ send' = send
        /\ reply' = [reply EXCEPT ![ctx.stream] = [reply[ctx.stream] EXCEPT !.units = @ + k]]
    BY <1>3, <2>3 DEF CopyWrite
  <2>5. /\ copy' \in CopyRecs /\ copy'.pc = "run" /\ copy'.chunk = copy.chunk - k /\ copy'.rest = copy.rest
        /\ copy'.left = copy.left /\ copy'.n = copy.n + k
        /\ copy'.throttled = copy.throttled /\ copy'.restricted = copy.restricted
    <3>1. PICK u \in Nat, v \in Nat : u = copy.chunk - k /\ v = copy.n + k
      BY <2>2, <2>3
    <3>2. copy' = [copy EXCEPT !.chunk = u, !.n = v]
      BY <2>4, <3>1
    <3> QED
      BY <1>1, <2>1, <3>1, <3>2 DEF CopyRecs
  <2>6. /\ [reply[ctx.stream] EXCEPT !.units = @ + k] \in ReplyRecs
        /\ reply'[ctx.stream] = [reply[ctx.stream] EXCEPT !.units = @ + k]
        /\ \A r \in Requests : r # ctx.stream => reply'[r] = reply[r]
    BY <2>1, <2>2, <2>3, <2>4 DEF ReplyRecs
  <2>7. reply' \in [Requests -> ReplyRecs]
    BY <2>1, <2>4, <2>6
  <2>8. /\ reply'[ctx.stream].trailer = "none" /\ reply'[ctx.stream].units = copy.n + k
        /\ reply'[ctx.stream].size = reply[ctx.stream].size /\ reply'[ctx.stream].limit = reply[ctx.stream].limit
        /\ reply'[ctx.stream].disturbed = reply[ctx.stream].disturbed
    BY <2>1, <2>2, <2>6 DEF ReplyRecs, Copied
  <2>9. StreamType'
    BY <1>1, <2>1, <2>4, <2>5, <2>7 DEF StreamType
  <2>10. Held'
    BY <1>1, <2>1, <2>4, <2>5 DEF StreamInv, Held
  <2>11. Undisturbed => Undisturbed'
    <3>1. PlusOne(limit)' = PlusOne(limit) /\ PlusOne(limit) \in Int
      BY <1>1, <2>1, LimitFacts DEF PlusOne, StreamType
    <3>2. copy'.n + copy'.chunk = copy.n + copy.chunk
      BY <2>2, <2>3, <2>5
    <3> QED
      BY <1>1, <2>5, <2>8, <3>1, <3>2 DEF Undisturbed
  <2>12. Copying'
    BY <1>1, <2>1, <2>2, <2>3, <2>5, <2>8, <2>11 DEF Copying, Copied
  <2>13. CompleteIsWhole'
    <3> SUFFICES ASSUME NEW r \in Requests, reply'[r].trailer = "Complete", ~reply'[r].disturbed, reply'[r].limit # MaxInt
                 PROVE /\ reply'[r].units = reply'[r].size
                       /\ reply'[r].limit = -1 \/ reply'[r].units <= reply'[r].limit
      BY DEF CompleteIsWhole
    <3>1. reply'[r] = reply[r]
      BY <2>6, <2>8
    <3> QED
      BY <3>1 DEF StreamInv, CompleteIsWhole
  <2> QED
    BY <2>9, <2>10, <2>12, <2>13 DEF StreamInv
<1> QED
  BY <1>2, <1>3

-----------------------------------------------------------------------------
(* The invariant. *)

\* The send is over.
LEMMA FinishSendStep ==
    ASSUME StreamInv, FinishSend, UNCHANGED <<limit, mode, reply, reserves>>
    PROVE  StreamInv'
<1>1. ctx' \in CtxRecs /\ reserves' \in Nat
  <2>1. ctx \in CtxRecs /\ reserves' \in Nat
    BY DEF StreamInv, StreamType
  <2>2. \A b \in BOOLEAN : [ctx EXCEPT !.sent = b] \in CtxRecs
    BY <2>1 DEF CtxRecs
  <2> QED
    BY <2>1, <2>2 DEF FinishSend
<1>2. send' = NoSend /\ copy' = NoCopy
  BY DEF FinishSend
<1>3. send' \in SendRecs /\ copy' \in CopyRecs /\ send'.pc = "none" /\ copy'.pc = "none"
  BY <1>2, NoRecs DEF NoSend, NoCopy
<1> QED
  BY <1>1, <1>3, QuietStep

\* The reservation changes while nobody sends.
LEMMA CtxStep ==
    ASSUME StreamInv, MutexFree, ctx' \in CtxRecs, reserves' \in Nat, UNCHANGED <<limit, mode, reply, send, copy>>
    PROVE  StreamInv'
<1>1. send \in SendRecs /\ copy \in CopyRecs /\ send.pc = "none" /\ copy.pc = "none"
  BY DEF StreamInv, StreamType, Held, MutexFree
<1> QED
  BY <1>1, QuietStep

\* The sender goes on, or the copy is told that it waits, or may not go on.
LEMMA SenderStep ==
    ASSUME StreamInv, UNCHANGED <<limit, mode, reply, ctx, reserves>>, send' \in SendRecs, copy' \in CopyRecs,
           send'.pc = "none" <=> send.pc = "none", copy'.pc = copy.pc, Progress(copy') = Progress(copy)
    PROVE  StreamInv'
<1>1. ctx \in CtxRecs /\ reserves \in Nat
  BY DEF StreamInv, StreamType
<1>2. (send.pc = "none" <=> copy.pc = "none") /\ (copy.pc # "none" => ctx.stream \in Requests)
  BY DEF StreamInv, Held
<1> QED
  BY <1>1, <1>2, QuietStep

LEMMA StreamInit == Init => StreamInv
<1> SUFFICES ASSUME Init PROVE StreamInv
  OBVIOUS
<1>1. ctx = NoCtx /\ send = NoSend /\ copy = NoCopy /\ \A r \in Requests : reply[r] = NoReply
  BY DEF Init
<1>2. StreamType
  <2>1. ctx \in CtxRecs /\ send \in SendRecs /\ copy \in CopyRecs
    BY <1>1, NoRecs
  <2>2. reply \in [Requests -> ReplyRecs] /\ reserves \in Nat /\ limit \in Limits /\ mode \in Modes
    BY NoRecs, LimitFacts DEF Init, Modes
  <2> QED
    BY <2>1, <2>2 DEF StreamType
<1>3. Held /\ Copying
  BY <1>1 DEF Held, Copying, NoSend, NoCopy
<1>4. CompleteIsWhole
  BY <1>1 DEF CompleteIsWhole, NoReply
<1> QED
  BY <1>2, <1>3, <1>4 DEF StreamInv

LEMMA StreamNext == StreamInv /\ [Next]_vars => StreamInv'
<1> SUFFICES ASSUME StreamInv, [Next]_vars PROVE StreamInv'
  OBVIOUS
<1> USE DEF server, globals, stream
<1>1. /\ ctx \in CtxRecs /\ reserves \in Nat /\ send \in SendRecs /\ copy \in CopyRecs
  BY DEF StreamInv, StreamType
<1>2. ASSUME UNCHANGED <<limit, mode, reply, ctx, reserves, send, copy>> PROVE StreamInv'
  BY <1>1, <1>2, SenderStep
<1>3. CASE UNCHANGED vars
  BY <1>2, <1>3 DEF vars
<1>4. CASE ReserveHandler
  <2>1. MutexFree /\ UNCHANGED <<limit, mode, reply, send, copy>> /\ reserves' = reserves + 1
        /\ ctx' = [NoCtx EXCEPT !.id = reserves + 1]
    BY <1>4 DEF ReserveHandler, Reserve
  <2>2. reserves' \in Nat /\ ctx' \in CtxRecs
    BY <1>1, <2>1, NoRecs DEF CtxRecs
  <2> QED
    BY <2>1, <2>2, CtxStep
<1>5. ASSUME Release, UNCHANGED <<limit, mode, reply, send, copy>> PROVE StreamInv'
  <2>1. MutexFree /\ ctx' = NoCtx /\ reserves' = reserves
    BY <1>5 DEF Release
  <2> QED
    BY <1>1, <1>5, <2>1, NoRecs, CtxStep
<1>6. CASE WaitUntilReleaseHandler
  BY <1>2, <1>5, <1>6 DEF WaitUntilReleaseHandler, AwaitRelease
<1>7. ASSUME NEW k \in Resets, ResetReleases(k) PROVE StreamInv'
  BY <1>5, <1>7 DEF ResetReleases
<1>8. ASSUME NEW r \in Requests, SetReplyStream(r) PROVE StreamInv'
  <2>1. MutexFree /\ UNCHANGED <<limit, mode, reply, send, copy, reserves>>
        /\ (ctx' = ctx \/ ctx' = [ctx EXCEPT !.stream = r])
    BY <1>8 DEF SetReplyStream
  <2>2. ctx' \in CtxRecs
    BY <1>1, <2>1 DEF CtxRecs
  <2> QED
    BY <1>1, <2>1, <2>2, CtxStep
<1>9. ASSUME NEW r \in Requests, AlreadyWritten(r) \/ ResponseSent(r) PROVE StreamInv'
  <2>1. FinishSend /\ UNCHANGED <<limit, mode, reply, reserves>>
    BY <1>9 DEF AlreadyWritten, ResponseSent
  <2> QED
    BY <2>1, FinishSendStep
<1>10. ASSUME NEW r \in Requests, SendRequest(r) \/ ReservationDone(r) PROVE StreamInv'
  BY <1>2, <1>10 DEF SendRequest, ReservationDone
<1>11. CASE CopyRead
  BY <1>11, CopyReadStep
<1>12. CASE CopyEOF
  <2>1. /\ copy.pc = "run" /\ copy.chunk = 0 /\ (AtLimit \/ copy.rest = 0) /\ CopyEnds(FALSE)
        /\ UNCHANGED <<ctx, reserves, limit, mode>>
    BY <1>12 DEF CopyEOF
  <2> QED
    BY <2>1, CopyEndsStep
<1>13. CASE CopyReadFails \/ WriteFails
  <2>1. copy.pc = "run" /\ CopyEnds(TRUE) /\ UNCHANGED <<ctx, reserves, limit, mode>>
    BY <1>13 DEF CopyReadFails, WriteFails
  <2> QED
    BY <2>1, CopyEndsStep
<1>14. CASE CopyWrite
  BY <1>14, CopyWriteStep
<1>15. CASE CopyWaits
  <2>1. copy' = [copy EXCEPT !.waiting = TRUE] /\ UNCHANGED <<limit, mode, reply, ctx, reserves, send>>
    BY <1>15 DEF CopyWaits
  <2>2. copy' \in CopyRecs /\ copy'.pc = copy.pc /\ Progress(copy') = Progress(copy)
    BY <1>1, <2>1, CopyFields
  <2> QED
    BY <1>1, <2>1, <2>2, SenderStep
<1>16. CASE Tick
  <2>1. copy' = [copy EXCEPT !.waiting = FALSE] /\ UNCHANGED <<limit, mode, reply, ctx, reserves, send>>
    BY <1>16 DEF Tick
  <2>2. copy' \in CopyRecs /\ copy'.pc = copy.pc /\ Progress(copy') = Progress(copy)
    BY <1>1, <2>1, CopyFields
  <2> QED
    BY <1>1, <2>1, <2>2, SenderStep
<1>17. CASE CopyDone
  <2>1. /\ send.pc \in {"select", "drain"} /\ UNCHANGED <<limit, mode, reply, ctx, reserves, copy>>
        /\ send' = [send EXCEPT !.pc = IF @ = "select" THEN "metrics" ELSE "ack"]
    BY <1>17 DEF CopyDone
  <2>2. send' \in SendRecs /\ send'.pc # "none"
    BY <1>1, <2>1 DEF SendRecs
  <2> QED
    BY <1>1, <2>1, <2>2, SenderStep
<1>18. CASE RuntimePosts
  <2>1. PICK by \in {"response", "error"}, size \in Sizes, bad \in BOOLEAN : SendStart(by, size, bad)
    BY <1>18 DEF RuntimePosts
  <2>2. size \in Nat
    BY DirectInvokeAssumption
  <2>3. MutexFree /\ UNCHANGED <<limit, mode, reserves>>
    BY <1>18 DEF RuntimePosts
  <2> QED
    BY <2>1, <2>2, <2>3, SendStartStep
<1>19. CASE RuntimeNext
  BY <1>2, <1>19 DEF RuntimeNext
<1>20. ASSUME UNCHANGED <<limit, mode, reply, ctx, reserves, send>>,
              copy' = IF copy.pc = "run" /\ FromRuntime THEN [copy EXCEPT !.broken = TRUE] ELSE copy
       PROVE StreamInv'
  <2>1. copy' = copy \/ copy' = [copy EXCEPT !.broken = TRUE]
    BY <1>20
  <2>2. copy' \in CopyRecs /\ copy'.pc = copy.pc /\ Progress(copy') = Progress(copy)
    BY <1>1, <2>1, CopyFields
  <2> QED
    BY <1>1, <1>20, <2>2, SenderStep
<1>21. CASE Crash
  BY <1>20, <1>21 DEF Crash
<1>22. ASSUME NEW k \in Resets, KillRuntime(k) PROVE StreamInv'
  BY <1>20, <1>22 DEF KillRuntime
<1>23. CASE SendDefaultError
  <2>1. MutexFree /\ UNCHANGED <<limit, mode, reserves>>
    BY <1>23 DEF SendDefaultError
  <2>2. UNCHANGED <<reply, ctx, send, copy>> \/ SendStart("default", 1, FALSE)
    BY <1>23 DEF SendDefaultError
  <2> QED
    BY <1>2, <2>1, <2>2, SendStartStep
<1>24. ASSUME NEW k \in Resets, ResetHandler(k) PROVE StreamInv'
  BY <1>2, <1>24 DEF ResetHandler
<1>25. ASSUME NEW k \in Resets, Interrupt(k) PROVE StreamInv'
  <2>1. UNCHANGED <<limit, mode, reply, ctx, reserves>>
    BY <1>25 DEF Interrupt
  <2>2. CASE send.pc = "select"
    <3>1. StopSender /\ send' = [send EXCEPT !.pc = "drain"]
      BY <1>25, <2>2 DEF Interrupt
    <3>2. PICK b \in BOOLEAN : copy' = [copy EXCEPT !.canceled = TRUE, !.broken = b]
      <4>1. (copy.broken \/ FromRuntime) \in BOOLEAN
        OBVIOUS
      <4> QED
        BY <3>1, <4>1 DEF StopSender
    <3>3. copy' \in CopyRecs /\ copy'.pc = copy.pc /\ Progress(copy') = Progress(copy)
      BY <1>1, <3>2, CopyFields
    <3>4. send' \in SendRecs /\ send'.pc # "none"
      BY <1>1, <3>1 DEF SendRecs
    <3> QED
      BY <2>1, <2>2, <3>3, <3>4, SenderStep
  <2>3. CASE send.pc # "select"
    BY <1>2, <1>25, <2>1, <2>3 DEF Interrupt
  <2> QED
    BY <2>2, <2>3
<1>26. ASSUME NEW k \in Resets, Acknowledge(k) PROVE StreamInv'
  <2>1. /\ send.pc = "ack" /\ UNCHANGED <<limit, mode, reply, ctx, reserves, copy>>
        /\ send' = [send EXCEPT !.pc = "metrics"]
    BY <1>26 DEF Acknowledge
  <2>2. send' \in SendRecs /\ send'.pc # "none"
    BY <1>1, <2>1 DEF SendRecs
  <2> QED
    BY <1>1, <2>1, <2>2, SenderStep
<1>27. ASSUME NEW r \in Requests, NEW h \in Headers,
              DirectInvokeHandler(r, h) \/ LateDirectInvokeHandler(r, h) PROVE StreamInv'
  <2>1. UNCHANGED <<ctx, reserves, send, copy>>
    BY <1>27 DEF DirectInvokeHandler, LateDirectInvokeHandler
  <2>2. \/ UNCHANGED <<limit, mode, reply>>
        \/ limit' = ParsedLimit(h) /\ mode' = ParsedMode(h) /\ Disturb(h)
    BY <1>27 DEF DirectInvokeHandler, LateDirectInvokeHandler
  <2> QED
    BY <1>2, <2>1, <2>2, DisturbStep
<1> QED
  BY <1>3, <1>4, <1>6, <1>7, <1>8, <1>9, <1>10, <1>11, <1>12, <1>13, <1>14, <1>15, <1>16, <1>17, <1>18,
     <1>19, <1>21, <1>22, <1>23, <1>24, <1>25, <1>26, <1>27
  DEF Next, Program, World, RuntimeBody

\* A reply that SendDirectInvokeResponse declares "Complete" is the whole body of the runtime's
\* response, within the limit of its request, whatever chunks it is read and written in, whether it
\* is buffered or streamed, and whatever a crash or a reset cuts short: unless the limit is
\* the largest integer, or a request that came meanwhile has changed limit or mode.
THEOREM CompleteRepliesAreWhole == Spec => []CompleteIsWhole
<1>1. Init => StreamInv
  BY StreamInit
<1>2. StreamInv /\ [Next]_vars => StreamInv'
  BY StreamNext
<1>3. StreamInv => CompleteIsWhole
  BY DEF StreamInv
<1> QED
  BY <1>1, <1>2, <1>3, PTL DEF Spec
=============================================================================
