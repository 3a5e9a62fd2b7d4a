------------------------ MODULE InvokeRouter_proofs ------------------------
(***************************************************************************)
(* Theorems about InvokeRouter, for any number of calls, workers, posts    *)
(* and reservations, and whatever the workers do.                          *)
(***************************************************************************)
EXTENDS InvokeRouter, FiniteSetTheorems, SequenceTheorems, TLAPS

\* What a call, and a post, has at each place of its goroutine.
CallOK == {r \in CallRecs :
    /\ r.answers = IF r.pc \in {"notifying", "unwinding", "done"} THEN 1 ELSE 0
    /\ r.run = None <=> r.pc \in {"new", "refused", "placed"}
    /\ r.pc # "new" => r.id \in Ids
    /\ r.pc \in {"body", "truncating"} => r.from \in Reqs}

ReqOK == {r \in ResponseRecs \cup ErrorRecs :
    /\ r.pc # "unborn" => r.id \in Ids
    /\ r.pc \in {"found", "swapped", "await"} => r.run \in Nexts
    /\ r.status # "none" => r.pc = "done"}

\* The event a worker has was sent by the invoke that was given its /next.
GotOK == \A n \in Nexts : next[n].got # None => call[next[n].got].run = n

ProcessOK ==
    /\ running \in [Ids -> Nexts \cup {Absent, Nil}]
    /\ aborting \in {"no", "waiting", "done"}
    /\ call \in [Calls -> CallOK] /\ next \in [Nexts -> NextRecs] /\ req \in [Reqs -> ReqOK]
    /\ GotOK

\* What is left out: that the cache of timed out IDs keeps its size (CacheType) rests on what
\* SelectSeq computes, and is left to TLC.
Typed == PoolType /\ ProcessOK

\* Numbers of processes are not None.
LEMMA Numbers == /\ None \notin Nexts /\ Nil \notin Nexts /\ Absent \notin Nexts
                 /\ None \notin Reqs /\ None \notin Calls /\ None \notin Timers
BY RouterAssumption DEF None, Nil, Absent, Nexts, Reqs, Calls, Timers

\* A call, a /next or a post takes a step.
LEMMA CallMoves ==
    ASSUME ProcessOK, NEW c \in Calls, NEW r \in CallOK, SetCall(c, r)
    PROVE  /\ call' \in [Calls -> CallOK] /\ call'[c] = r
           /\ \A d \in Calls : d # c => call'[d] = call[d]
BY DEF ProcessOK, SetCall

LEMMA NextMoves ==
    ASSUME ProcessOK, NEW n \in Nexts, NEW r \in NextRecs, SetNext(n, r)
    PROVE  /\ next' \in [Nexts -> NextRecs] /\ next'[n] = r
           /\ \A m \in Nexts : m # n => next'[m] = next[m]
BY DEF ProcessOK, SetNext

LEMMA ReqMoves ==
    ASSUME ProcessOK, NEW q \in Reqs, NEW r \in ReqOK, SetReq(q, r)
    PROVE  /\ req' \in [Reqs -> ReqOK] /\ req'[q] = r
           /\ \A p \in Reqs : p # q => req'[p] = req[p]
BY DEF ProcessOK, SetReq

\* The handler of /next may go on; nothing but its place changes.
LEMMA NextWaits ==
    ASSUME NEW r \in NextRecs
    PROVE  /\ RuntimeNextWait(r) \in NextRecs
           /\ RuntimeNextWait(r) = [r EXCEPT !.pc = RuntimeNextWait(r).pc]
           /\ RuntimeNextWait(r).pc \in {"unborn", "refused"} <=> r.pc \in {"unborn", "refused"}
BY DEF RuntimeNextWait, NextRecs

\* A /next that was let into the pool.
Admitted(n) == next[n].pc \notin {"unborn", "refused"}

\* A step that gives no /next to anybody.
PoolFrame == /\ UNCHANGED <<idle, reserved>>
             /\ \A c \in Calls : call'[c].run = call[c].run
             /\ \A n \in Nexts : Admitted(n)' <=> Admitted(n)

-----------------------------------------------------------------------------
(* Types. *)

LEMMA InitTyped == Init => Typed
<1> SUFFICES ASSUME Init PROVE Typed
  OBVIOUS
<1>1. NewCall \in CallOK /\ NewNext \in NextRecs /\ NewReq \in ReqOK
  BY DEF NewCall, NewNext, NewReq, CallOK, CallRecs, NextRecs, ReqOK, ResponseRecs, CallStates,
         Causes, Errors, Statuses, None
<1>2. NewNext.got = None
  BY DEF NewNext
<1> QED
  BY <1>1, <1>2 DEF Init, Typed, PoolType, ProcessOK, GotOK, NoReservation

\* Steps of the pool.
LEMMA RuntimeNextTyped ==
    ASSUME Typed, NEW n \in Nexts, RuntimeNext(n)
    PROVE  Typed'
<1>1. \A p \in {"parked", "refused"} : [NewNext EXCEPT !.pc = p] \in NextRecs
                                       /\ [NewNext EXCEPT !.pc = p].got = None
  BY DEF NewNext, NextRecs, None, Errors, Causes
<1>2. PICK p \in {"parked", "refused"} : SetNext(n, [NewNext EXCEPT !.pc = p])
  BY DEF RuntimeNext
<1>3. next' \in [Nexts -> NextRecs] /\ GotOK'
  BY <1>1, <1>2, NextMoves DEF RuntimeNext, Typed, ProcessOK, GotOK
<1>4. UNCHANGED poolVars \/ Add(n)
  BY DEF RuntimeNext
<1>5. PoolType'
  <2>1. CASE UNCHANGED poolVars
    BY <2>1 DEF poolVars, Typed, PoolType
  <2>2. CASE Add(n)
    BY <2>2, AppendProperties DEF Add, Typed, PoolType
  <2> QED
    BY <1>4, <2>1, <2>2
<1> QED
  BY <1>3, <1>5 DEF RuntimeNext, Typed, ProcessOK

LEMMA OnExpireTyped ==
    ASSUME Typed, NEW t \in Timers, OnExpire(t)
    PROVE  PoolType'
<1> DEFINE i == timer[t].id
<1>1. timer' \in [Timers -> [st : {"unused", "armed", "fired", "off"}, id : Ids \cup {None}]]
  BY DEF OnExpire, Typed, PoolType
<1>2. CASE i \in Reserved
  <2>1. reserved[i].run \in Nexts /\ i \in Ids
    BY <1>2 DEF Reserved, Typed, PoolType
  <2>2. idle' = Append(idle, reserved[i].run) /\ reserved' = [reserved EXCEPT ![i] = NoReservation]
    BY <1>2 DEF OnExpire, ExpireReservation
  <2>3. idle' \in Seq(Nexts)
    BY <2>1, <2>2, AppendProperties DEF Typed, PoolType
  <2> QED
    BY <1>1, <2>1, <2>2, <2>3 DEF OnExpire, Typed, PoolType, NoReservation
<1>3. CASE i \notin Reserved
  BY <1>1, <1>3 DEF OnExpire, ExpireReservation, Typed, PoolType
<1> QED
  BY <1>2, <1>3

LEMMA ReserveTyped ==
    ASSUME Typed, NEW i \in Ids, ReserveIdleRuntime(i)
    PROVE  PoolType'
<1>1. CASE i \in Reserved \/ idle = <<>>
  BY <1>1 DEF ReserveIdleRuntime, Typed, PoolType
<1>2. CASE ~(i \in Reserved \/ idle = <<>>)
  <2>1. PICK t \in Timers : Reserve(i, t)
    BY <1>2 DEF ReserveIdleRuntime
  <2>2. Head(idle) \in Nexts /\ Tail(idle) \in Seq(Nexts)
    BY <1>2 DEF Typed, PoolType
  <2> QED
    BY <2>1, <2>2 DEF ReserveIdleRuntime, Reserve, Typed, PoolType
<1> QED
  BY <1>1, <1>2

\* The calls move, and what they share with the workers; no /next gets another event.
LEMMA ProcessStep ==
    ASSUME ProcessOK, call' \in [Calls -> CallOK], next' \in [Nexts -> NextRecs],
           req' \in [Reqs -> ReqOK], running' \in [Ids -> Nexts \cup {Absent, Nil}],
           aborting' \in {"no", "waiting", "done"},
           \A c \in Calls : call[c].run # None => call'[c].run = call[c].run,
           \A n \in Nexts : next'[n].got \notin {None, next[n].got} => call[next'[n].got].run = n
    PROVE  ProcessOK'
<1>1. GotOK'
  <2> SUFFICES ASSUME NEW n \in Nexts, next'[n].got # None PROVE call'[next'[n].got].run = n
    BY DEF GotOK
  <2>1. next'[n].got \in Calls
    BY DEF NextRecs
  <2>2. call[next'[n].got].run = n
    BY DEF ProcessOK, GotOK
  <2> QED
    BY <2>1, <2>2, Numbers
<1> QED
  BY <1>1 DEF ProcessOK

\* Steps of a call that leave the workers and their posts alone.
LEMMA CallAlone ==
    ASSUME ProcessOK, NEW c \in Calls, NEW r \in CallOK, SetCall(c, r), r.run = call[c].run,
           running' \in [Ids -> Nexts \cup {Absent, Nil}], UNCHANGED <<idle, reserved, aborting, next, req>>
    PROVE  ProcessOK' /\ PoolFrame
<1>1. /\ call' \in [Calls -> CallOK]
      /\ \A d \in Calls : call'[d].run = call[d].run
  BY CallMoves
<1>2. ProcessOK'
  BY <1>1, ProcessStep DEF ProcessOK
<1> QED
  BY <1>1, <1>2 DEF PoolFrame, Admitted

LEMMA InvokeKeeps ==
    ASSUME ProcessOK, NEW c \in Calls, NEW i \in Ids, Invoke(c, i)
    PROVE  ProcessOK' /\ PoolFrame
<1>1. call[c].run = None
  BY DEF Invoke, Fresh, ProcessOK, CallOK, CallRecs, CallStates
<1>2. \A p \in {"refused", "placed"} : /\ [NewCall EXCEPT !.pc = p, !.id = i] \in CallOK
                                       /\ [NewCall EXCEPT !.pc = p, !.id = i].run = None
  <2>1. NewCall \in CallOK /\ NewCall.run = None /\ NewCall.answers = 0
    BY DEF NewCall, CallOK, CallRecs, CallStates, Causes, Errors, None
  <2> QED
    BY <2>1 DEF CallOK, CallRecs, CallStates
<1>3. PICK p \in {"refused", "placed"} : SetCall(c, [NewCall EXCEPT !.pc = p, !.id = i])
  BY DEF Invoke
<1>4. running' \in [Ids -> Nexts \cup {Absent, Nil}]
  BY DEF Invoke, ProcessOK
<1> QED
  BY <1>1, <1>2, <1>3, <1>4, CallAlone DEF Invoke, poolVars

LEMMA CtxEndsKeeps ==
    ASSUME ProcessOK, NEW c \in Calls, NEW w \in Causes, CtxEnds(c, w)
    PROVE  ProcessOK' /\ PoolFrame
<1>1. call[c] \in CallOK
  BY DEF ProcessOK
<1>2. /\ [call[c] EXCEPT !.ctx = w] \in CallOK
      /\ [call[c] EXCEPT !.ctx = w].run = call[c].run
  BY <1>1 DEF CallOK, CallRecs
<1> QED
  BY <1>2, CallAlone DEF CtxEnds, ProcessOK, poolVars

LEMMA StoreKeeps ==
    ASSUME ProcessOK, NEW c \in Calls, Store(c)
    PROVE  ProcessOK' /\ PoolFrame
<1>1. call[c] \in CallOK /\ call[c].pc = "acquired"
  BY DEF ProcessOK, Store
<1>2. /\ [call[c] EXCEPT !.pc = "stored"] \in CallOK
      /\ [call[c] EXCEPT !.pc = "stored"].run = call[c].run
      /\ call[c].run \in Nexts /\ call[c].id \in Ids
  BY <1>1 DEF CallOK, CallRecs, CallStates
<1>3. running' \in [Ids -> Nexts \cup {Absent, Nil}]
  BY <1>2 DEF Store, ProcessOK
<1> QED
  BY <1>2, <1>3, CallAlone DEF Store, poolVars

\* The record of a call that answers.
AnswerOf(r, p, e, q) == [r EXCEPT !.pc = p, !.err = e, !.from = q, !.answers = @ + 1]

LEMMA AnswerOK ==
    ASSUME NEW r \in CallOK, r.pc \in {"sending", "waiting", "body", "truncating"},
           NEW p \in {"notifying", "unwinding"}, NEW e \in Errors, NEW q \in Reqs \cup {None}
    PROVE  /\ AnswerOf(r, p, e, q) \in CallOK
           /\ AnswerOf(r, p, e, q).run = r.run /\ AnswerOf(r, p, e, q).id = r.id
           /\ AnswerOf(r, p, e, q).pc = p /\ AnswerOf(r, p, e, q).err = e
           /\ AnswerOf(r, p, e, q).from = q /\ AnswerOf(r, p, e, q).answers = 1
<1> DEFINE m == [r EXCEPT !.pc = p, !.err = e, !.from = q]
<1>1. r.answers = 0 /\ r.run # None /\ r.id \in Ids
  BY DEF CallOK, CallRecs
<1>2. /\ m \in CallRecs /\ m.run = r.run /\ m.id = r.id /\ m.pc = p /\ m.err = e /\ m.from = q
      /\ m.answers = 0
  BY <1>1 DEF CallOK, CallRecs, CallStates
<1>3. AnswerOf(r, p, e, q) = [m EXCEPT !.answers = @ + 1]
  BY DEF AnswerOf
<1> HIDE DEF m
<1> QED
  BY <1>1, <1>2, <1>3 DEF CallOK, CallRecs

LEMMA BodyEndsKeeps ==
    ASSUME ProcessOK, NEW c \in Calls, NEW e \in Errors, BodyEnds(c, e)
    PROVE  ProcessOK' /\ PoolFrame
<1>1. call[c] \in CallOK /\ call[c].pc = "body" /\ call[c].from \in Reqs \cup {None}
  BY DEF BodyEnds, ProcessOK, CallOK, CallRecs
<1>2. SetCall(c, AnswerOf(call[c], "notifying", e, call[c].from))
  BY DEF BodyEnds, Answered, AnswerOf
<1> QED
  BY <1>1, <1>2, AnswerOK, CallAlone DEF BodyEnds, ProcessOK, poolVars

LEMMA TruncatedBodyEndsKeeps ==
    ASSUME ProcessOK, NEW c \in Calls, TruncatedBodyEnds(c)
    PROVE  ProcessOK' /\ PoolFrame
<1>1. call[c] \in CallOK /\ call[c].pc = "truncating" /\ call[c].from \in Reqs \cup {None}
  BY DEF TruncatedBodyEnds, ProcessOK, CallOK, CallRecs
<1>2. SetCall(c, AnswerOf(call[c], "notifying", "function", call[c].from))
  BY DEF TruncatedBodyEnds, Answered, AnswerOf
<1>3. "function" \in Errors
  BY DEF Errors
<1> QED
  BY <1>1, <1>2, <1>3, AnswerOK, CallAlone DEF TruncatedBodyEnds, ProcessOK, poolVars

\* Steps of a call with its worker's RunningInvoke.
LEMMA CallWithNext ==
    ASSUME ProcessOK, NEW c \in Calls, NEW r \in CallOK, SetCall(c, r), r.run = call[c].run,
           NEW n \in Nexts, NEW m \in NextRecs, SetNext(n, m),
           m.got \in {None, next[n].got} \/ call[m.got].run = n,
           m.pc \in {"unborn", "refused"} <=> next[n].pc \in {"unborn", "refused"},
           running' \in [Ids -> Nexts \cup {Absent, Nil}], UNCHANGED <<idle, reserved, aborting, req>>
    PROVE  ProcessOK' /\ PoolFrame
<1>1. /\ call' \in [Calls -> CallOK]
      /\ \A d \in Calls : call'[d].run = call[d].run
  BY CallMoves
<1>2. /\ next' \in [Nexts -> NextRecs] /\ next'[n] = m
      /\ \A k \in Nexts : k # n => next'[k] = next[k]
  BY NextMoves
<1>3. \A k \in Nexts : next'[k].got \notin {None, next[k].got} => call[next'[k].got].run = k
  BY <1>2
<1>4. ProcessOK'
  BY <1>1, <1>2, <1>3, ProcessStep DEF ProcessOK
<1> QED
  BY <1>1, <1>2, <1>4 DEF PoolFrame, Admitted

\* The place of a call whose invoke is in the hands of its worker.
LEMMA CallGoesOn ==
    ASSUME NEW r \in CallOK,
           r.pc \in {"stored", "sending", "waiting", "body", "truncating", "notifying", "unwinding"},
           NEW p \in {"sending", "waiting", "body", "truncating", "unwinding", "done"},
           p \in {"body", "truncating"} => r.from \in Reqs,
           r.pc \in {"notifying", "unwinding"} <=> p \in {"unwinding", "done"}
    PROVE  [r EXCEPT !.pc = p] \in CallOK /\ [r EXCEPT !.pc = p].run = r.run /\ r.run \in Nexts /\ r.id \in Ids
BY DEF CallOK, CallRecs, CallStates

LEMMA RunInvokeKeeps ==
    ASSUME ProcessOK, NEW c \in Calls, RunInvoke(c)
    PROVE  ProcessOK' /\ PoolFrame
<1> DEFINE n == call[c].run
           m == [next[n] EXCEPT !.iid = c, !.got = IF next[n].pc = "parked" THEN c ELSE None]
<1>1. /\ [call[c] EXCEPT !.pc = "sending"] \in CallOK
      /\ [call[c] EXCEPT !.pc = "sending"].run = n /\ n \in Nexts
  BY CallGoesOn DEF RunInvoke, ProcessOK
<1>2. m \in NextRecs /\ m.pc = next[n].pc /\ (m.got = c \/ m.got = None)
  <2>1. next[n] \in NextRecs
    BY <1>1 DEF ProcessOK
  <2>2. \A g \in Calls \cup {None} : [next[n] EXCEPT !.iid = c, !.got = g] \in NextRecs
    BY <2>1 DEF NextRecs
  <2>3. PICK g \in {c, None} : m = [next[n] EXCEPT !.iid = c, !.got = g]
    OBVIOUS
  <2>4. m.pc = next[n].pc /\ m.got = g
    BY <2>1, <2>3 DEF NextRecs
  <2> QED
    BY <2>2, <2>3, <2>4
<1>3. SetCall(c, [call[c] EXCEPT !.pc = "sending"]) /\ SetNext(n, m)
  BY DEF RunInvoke
<1> HIDE DEF m
<1>4. m.got \in {None, next[n].got} \/ call[m.got].run = n
  BY <1>2
<1> QED
  BY <1>1, <1>2, <1>3, <1>4, CallWithNext DEF RunInvoke, ProcessOK, poolVars

LEMMA InvokeSentKeeps ==
    ASSUME ProcessOK, NEW c \in Calls, InvokeSent(c)
    PROVE  ProcessOK' /\ PoolFrame
<1> DEFINE n == call[c].run
           m == [next[n] EXCEPT !.sent = TRUE]
<1>1. /\ [call[c] EXCEPT !.pc = "waiting"] \in CallOK
      /\ [call[c] EXCEPT !.pc = "waiting"].run = n /\ n \in Nexts
  BY CallGoesOn DEF InvokeSent, ProcessOK
<1>2. m \in NextRecs /\ m.pc = next[n].pc /\ m.got = next[n].got
  <2>1. next[n] \in NextRecs
    BY <1>1 DEF ProcessOK
  <2>2. \A b \in BOOLEAN : [next[n] EXCEPT !.sent = b] \in NextRecs
    BY <2>1 DEF NextRecs
  <2> QED
    BY <2>1, <2>2 DEF NextRecs
<1>3. SetCall(c, [call[c] EXCEPT !.pc = "waiting"]) /\ SetNext(n, RuntimeNextWait(m))
  BY DEF InvokeSent
<1> HIDE DEF m
<1>4. /\ RuntimeNextWait(m) \in NextRecs /\ RuntimeNextWait(m).got = next[n].got
      /\ RuntimeNextWait(m).pc \in {"unborn", "refused"} <=> next[n].pc \in {"unborn", "refused"}
  BY <1>2, NextWaits DEF NextRecs
<1> QED
  BY <1>1, <1>3, <1>4, CallWithNext DEF InvokeSent, ProcessOK, poolVars

LEMMA InvokeNotSentKeeps ==
    ASSUME ProcessOK, NEW c \in Calls, NEW e \in Causes \cup {"unknown"}, InvokeNotSent(c, e)
    PROVE  ProcessOK' /\ PoolFrame
<1> DEFINE n == call[c].run
           m == [next[n] EXCEPT !.cancel = IF @ = "live" THEN e ELSE @]
<1>1. call[c] \in CallOK /\ call[c].pc = "sending" /\ n \in Nexts /\ e \in Errors
  BY DEF InvokeNotSent, ProcessOK, CallOK, CallRecs, Errors
<1>2. m \in NextRecs /\ m.pc = next[n].pc /\ m.got = next[n].got
  BY <1>1 DEF ProcessOK, NextRecs
<1>3. SetCall(c, AnswerOf(call[c], "unwinding", e, None)) /\ SetNext(n, RuntimeNextWait(m))
  BY DEF InvokeNotSent, Answered, AnswerOf
<1> HIDE DEF m
<1>4. /\ RuntimeNextWait(m) \in NextRecs /\ RuntimeNextWait(m).got = next[n].got
      /\ RuntimeNextWait(m).pc \in {"unborn", "refused"} <=> next[n].pc \in {"unborn", "refused"}
  BY <1>2, NextWaits DEF NextRecs
<1> QED
  BY <1>1, <1>3, <1>4, AnswerOK, CallWithNext DEF InvokeNotSent, ProcessOK, poolVars

LEMMA TakeResponseKeeps ==
    ASSUME ProcessOK, NEW c \in Calls, TakeResponse(c)
    PROVE  ProcessOK' /\ PoolFrame
<1> DEFINE n == call[c].run
           q == next[n].response
<1>1. call[c] \in CallOK /\ call[c].pc = "waiting" /\ n \in Nexts
  BY DEF TakeResponse, ProcessOK, CallOK, CallRecs
<1>2. next[n] \in NextRecs /\ q \in Reqs
  BY <1>1 DEF TakeResponse, ProcessOK, NextRecs
<1>3. CASE req[q].valid
  <2>1. /\ [call[c] EXCEPT !.pc = "body", !.from = q] \in CallOK
        /\ [call[c] EXCEPT !.pc = "body", !.from = q].run = n
    BY <1>1, <1>2 DEF CallOK, CallRecs, CallStates
  <2>2. /\ [next[n] EXCEPT !.response = None] \in NextRecs
        /\ [next[n] EXCEPT !.response = None].got = next[n].got
        /\ [next[n] EXCEPT !.response = None].pc = next[n].pc
    BY <1>2 DEF NextRecs
  <2> QED
    BY <1>1, <1>3, <2>1, <2>2, CallWithNext DEF TakeResponse, ProcessOK, poolVars
<1>4. CASE ~req[q].valid
  <2>1. SetCall(c, AnswerOf(call[c], "notifying", "parsing", q))
    BY <1>4 DEF TakeResponse, Answered, AnswerOf
  <2>2. /\ [next[n] EXCEPT !.response = None, !.state = "gotError"] \in NextRecs
        /\ [next[n] EXCEPT !.response = None, !.state = "gotError"].got = next[n].got
        /\ [next[n] EXCEPT !.response = None, !.state = "gotError"].pc = next[n].pc
    BY <1>2 DEF NextRecs
  <2>3. "parsing" \in Errors
    BY DEF Errors
  <2>4. /\ AnswerOf(call[c], "notifying", "parsing", q) \in CallOK
        /\ AnswerOf(call[c], "notifying", "parsing", q).run = n
    BY <1>1, <1>2, <2>3, AnswerOK
  <2> QED
    BY <1>1, <1>2, <1>4, <2>1, <2>2, <2>4, CallWithNext DEF TakeResponse, ProcessOK, poolVars
<1> QED
  BY <1>3, <1>4

LEMMA TakeErrorKeeps ==
    ASSUME ProcessOK, NEW c \in Calls, TakeError(c)
    PROVE  ProcessOK' /\ PoolFrame
<1> DEFINE n == call[c].run
<1>1. call[c] \in CallOK /\ call[c].pc = "waiting" /\ n \in Nexts
  BY DEF TakeError, ProcessOK, CallOK, CallRecs
<1>2. next[n] \in NextRecs /\ next[n].error \in Reqs
  BY <1>1 DEF TakeError, ProcessOK, NextRecs
<1>3. SetCall(c, AnswerOf(call[c], "notifying", "function", next[n].error)) /\ "function" \in Errors
  BY DEF TakeError, Answered, AnswerOf, Errors
<1>4. /\ [next[n] EXCEPT !.error = None] \in NextRecs
      /\ [next[n] EXCEPT !.error = None].got = next[n].got
      /\ [next[n] EXCEPT !.error = None].pc = next[n].pc
  BY <1>2 DEF NextRecs
<1>5. /\ AnswerOf(call[c], "notifying", "function", next[n].error) \in CallOK
      /\ AnswerOf(call[c], "notifying", "function", next[n].error).run = n
  BY <1>1, <1>2, <1>3, AnswerOK
<1> QED
  BY <1>1, <1>3, <1>4, <1>5, CallWithNext DEF TakeError, ProcessOK, poolVars

LEMMA CtxDoneKeeps ==
    ASSUME ProcessOK, NEW c \in Calls, CtxDone(c)
    PROVE  ProcessOK' /\ PoolFrame
<1> DEFINE n == call[c].run
<1>1. call[c] \in CallOK /\ call[c].pc = "waiting" /\ n \in Nexts /\ call[c].ctx \in Errors
  BY DEF CtxDone, ProcessOK, CallOK, CallRecs, Errors
<1>2. SetCall(c, AnswerOf(call[c], "notifying", call[c].ctx, None))
  BY DEF CtxDone, Answered, AnswerOf
<1>3. /\ [next[n] EXCEPT !.state = "gotError"] \in NextRecs
      /\ [next[n] EXCEPT !.state = "gotError"].got = next[n].got
      /\ [next[n] EXCEPT !.state = "gotError"].pc = next[n].pc
  BY <1>1 DEF ProcessOK, NextRecs
<1>4. /\ AnswerOf(call[c], "notifying", call[c].ctx, None) \in CallOK
      /\ AnswerOf(call[c], "notifying", call[c].ctx, None).run = n
  BY <1>1, AnswerOK
<1> QED
  BY <1>1, <1>2, <1>3, <1>4, CallWithNext DEF CtxDone, ProcessOK, poolVars

LEMMA ErrorInBodyKeeps ==
    ASSUME ProcessOK, NEW c \in Calls, ErrorInBody(c)
    PROVE  ProcessOK' /\ PoolFrame
<1> DEFINE n == call[c].run
<1>1. call[c] \in CallOK /\ call[c].pc = "body" /\ n \in Nexts
  BY DEF ErrorInBody, ProcessOK, CallOK, CallRecs
<1>2. next[n] \in NextRecs /\ next[n].error \in Reqs
  BY <1>1 DEF ErrorInBody, ProcessOK, NextRecs
<1>3. /\ [call[c] EXCEPT !.pc = "truncating", !.from = next[n].error] \in CallOK
      /\ [call[c] EXCEPT !.pc = "truncating", !.from = next[n].error].run = n
  BY <1>1, <1>2 DEF CallOK, CallRecs, CallStates
<1>4. /\ [next[n] EXCEPT !.error = None] \in NextRecs
      /\ [next[n] EXCEPT !.error = None].got = next[n].got
      /\ [next[n] EXCEPT !.error = None].pc = next[n].pc
  BY <1>2 DEF NextRecs
<1> QED
  BY <1>1, <1>3, <1>4, CallWithNext DEF ErrorInBody, ProcessOK, poolVars

LEMMA NotifyKeeps ==
    ASSUME ProcessOK, NEW c \in Calls, Notify(c)
    PROVE  ProcessOK' /\ PoolFrame
<1> DEFINE n == call[c].run
           m == [next[n] EXCEPT !.responseSent = call[c].err, !.errorSent = call[c].err]
<1>1. /\ [call[c] EXCEPT !.pc = "unwinding"] \in CallOK
      /\ [call[c] EXCEPT !.pc = "unwinding"].run = n /\ n \in Nexts
  BY CallGoesOn DEF Notify, ProcessOK
<1>2. call[c].err \in Errors
  BY DEF ProcessOK, CallOK, CallRecs
<1>3. m \in NextRecs /\ m.got = next[n].got /\ m.pc = next[n].pc
  <2>1. next[n] \in NextRecs
    BY <1>1 DEF ProcessOK
  <2> QED
    BY <1>2, <2>1 DEF NextRecs
<1> QED
  BY <1>1, <1>3, CallWithNext DEF Notify, ProcessOK, poolVars

LEMMA FinishKeeps ==
    ASSUME ProcessOK, NEW c \in Calls, Finish(c)
    PROVE  ProcessOK' /\ PoolFrame
<1> DEFINE n == call[c].run
           m == [next[n] EXCEPT !.cancel = IF @ = "live" THEN "ended" ELSE @]
<1>1. /\ [call[c] EXCEPT !.pc = "done"] \in CallOK
      /\ [call[c] EXCEPT !.pc = "done"].run = n /\ n \in Nexts
  BY CallGoesOn DEF Finish, ProcessOK
<1>2. m \in NextRecs /\ m.pc = next[n].pc /\ m.got = next[n].got
  BY <1>1 DEF ProcessOK, NextRecs
<1>3. SetCall(c, [call[c] EXCEPT !.pc = "done"]) /\ SetNext(n, RuntimeNextWait(m))
  BY DEF Finish
<1> HIDE DEF m
<1>4. /\ RuntimeNextWait(m) \in NextRecs /\ RuntimeNextWait(m).got = next[n].got
      /\ RuntimeNextWait(m).pc \in {"unborn", "refused"} <=> next[n].pc \in {"unborn", "refused"}
  BY <1>2, NextWaits DEF NextRecs
<1>5. running' \in [Ids -> Nexts \cup {Absent, Nil}]
  BY DEF Finish, ProcessOK
<1> QED
  BY <1>1, <1>3, <1>4, <1>5, CallWithNext DEF Finish, ProcessOK, poolVars

LEMMA AbortKeeps ==
    ASSUME ProcessOK, AbortRunningInvokes
    PROVE  ProcessOK' /\ PoolFrame
<1>1. ASSUME NEW n \in Nexts
      PROVE  /\ next'[n] \in NextRecs /\ next'[n].got = next[n].got
             /\ next'[n].pc \in {"unborn", "refused"} <=> next[n].pc \in {"unborn", "refused"}
  <2>1. next[n] \in NextRecs
    BY DEF ProcessOK
  <2>2. CASE next'[n] = next[n]
    BY <2>1, <2>2
  <2>3. CASE next'[n] = RuntimeNextWait([next[n] EXCEPT !.cancel = "aborted"])
    <3> DEFINE m == [next[n] EXCEPT !.cancel = "aborted"]
    <3>1. m \in NextRecs /\ m.got = next[n].got /\ m.pc = next[n].pc
      BY <2>1 DEF NextRecs, Causes
    <3> HIDE DEF m
    <3> QED
      BY <2>3, <3>1, NextWaits DEF NextRecs, m
  <2> QED
    BY <2>2, <2>3 DEF AbortRunningInvokes
<1>2. next' \in [Nexts -> NextRecs]
  <2>1. next' = [n \in Nexts |-> next'[n]]
    BY DEF AbortRunningInvokes
  <2> QED
    BY <1>1, <2>1
<1>3. ProcessOK'
  BY <1>1, <1>2, ProcessStep DEF AbortRunningInvokes, ProcessOK
<1> QED
  BY <1>1, <1>3 DEF AbortRunningInvokes, PoolFrame, Admitted, poolVars

LEMMA WorkerGoneKeeps ==
    ASSUME ProcessOK, NEW n \in Nexts, WorkerGone(n)
    PROVE  ProcessOK' /\ PoolFrame
<1> DEFINE m == [next[n] EXCEPT !.pc = "gone"]
<1>1. m \in NextRecs /\ m.got = next[n].got /\ m.pc = "gone" /\ next[n].pc = "parked"
  BY DEF WorkerGone, ProcessOK, NextRecs
<1>2. SetNext(n, m)
  BY DEF WorkerGone
<1> HIDE DEF m
<1>3. /\ next' \in [Nexts -> NextRecs] /\ next'[n] = m
      /\ \A k \in Nexts : k # n => next'[k] = next[k]
  BY <1>1, <1>2, NextMoves
<1>4. ProcessOK'
  BY <1>1, <1>3, ProcessStep DEF WorkerGone, ProcessOK
<1> QED
  BY <1>1, <1>3, <1>4 DEF WorkerGone, PoolFrame, Admitted, poolVars

\* Steps of a post with the RunningInvoke it has found, if any.
LEMMA ReqAlone ==
    ASSUME ProcessOK, NEW q \in Reqs, NEW r \in ReqOK, SetReq(q, r),
           UNCHANGED <<idle, reserved, running, aborting, call, next>>
    PROVE  ProcessOK' /\ PoolFrame
<1>1. req' \in [Reqs -> ReqOK]
  BY ReqMoves
<1>2. ProcessOK'
  BY <1>1, ProcessStep DEF ProcessOK
<1> QED
  BY <1>2 DEF PoolFrame, Admitted

LEMMA ReqWithNext ==
    ASSUME ProcessOK, NEW q \in Reqs, NEW r \in ReqOK, SetReq(q, r),
           NEW n \in Nexts, NEW m \in NextRecs, SetNext(n, m),
           m.got = next[n].got, m.pc = next[n].pc,
           UNCHANGED <<idle, reserved, running, aborting, call>>
    PROVE  ProcessOK' /\ PoolFrame
<1>1. req' \in [Reqs -> ReqOK]
  BY ReqMoves
<1>2. /\ next' \in [Nexts -> NextRecs]
      /\ \A k \in Nexts : next'[k].got = next[k].got /\ next'[k].pc = next[k].pc
  BY NextMoves
<1>3. ProcessOK'
  BY <1>1, <1>2, ProcessStep DEF ProcessOK
<1> QED
  BY <1>2, <1>3 DEF PoolFrame, Admitted

LEMMA PostKeeps ==
    ASSUME ProcessOK, NEW q \in Reqs, NEW n \in Nexts, NEW k \in {"response", "error"},
           NEW echoes \in BOOLEAN, NEW valid \in BOOLEAN, valid \/ k = "response",
           Post(q, n, k, echoes, valid)
    PROVE  ProcessOK' /\ PoolFrame
<1> DEFINE c == next[n].got
<1>1. c \in Calls /\ call[c] \in CallOK /\ call[c].run = n
  BY DEF Post, ProcessOK, GotOK, NextRecs
<1>2. call[c].id \in Ids
  BY <1>1, Numbers DEF CallOK, CallRecs
<1>3. PICK e \in Calls \cup {None} :
        SetReq(q, [NewReq EXCEPT !.pc = "lookup", !.kind = k, !.id = call[c].id, !.echo = e,
                                 !.valid = valid])
  BY <1>1 DEF Post
<1> DEFINE r == [NewReq EXCEPT !.pc = "lookup", !.kind = k, !.id = call[c].id, !.echo = e,
                               !.valid = valid]
           m == [NewReq EXCEPT !.pc = "lookup", !.kind = k, !.id = call[c].id]
           AnyRecs == [pc : {"unborn", "lookup"}, kind : {"response", "error"}, id : Ids \cup {None},
                       echo : Calls \cup {None}, valid : BOOLEAN, run : {None}, status : {"none"}]
<1>4. NewReq \in AnyRecs
  BY DEF NewReq
<1>5. m \in AnyRecs /\ m.pc = "lookup" /\ m.kind = k /\ m.id = call[c].id
  BY <1>2, <1>4
<1>6. r = [m EXCEPT !.echo = e, !.valid = valid]
  OBVIOUS
<1> HIDE DEF r, m
<1>7. r \in AnyRecs /\ r.pc = "lookup" /\ r.kind = k /\ r.id = call[c].id /\ r.valid = valid
  BY <1>5, <1>6
<1>8. r \in ReqOK
  BY <1>2, <1>7 DEF ReqOK, ResponseRecs, ErrorRecs, Statuses
<1> QED
  BY <1>3, <1>8, ReqAlone DEF Post, poolVars, r

\* The post is answered, or goes on.
LEMMA ReplyOK ==
    ASSUME NEW r \in ReqOK, r.pc # "unborn", NEW st \in Statuses
    PROVE  [r EXCEPT !.pc = "done", !.status = st] \in ReqOK
<1>1. CASE r \in ResponseRecs
  BY <1>1 DEF ReqOK, ResponseRecs
<1>2. CASE r \in ErrorRecs
  BY <1>2 DEF ReqOK, ErrorRecs
<1> QED
  BY <1>1, <1>2 DEF ReqOK

LEMMA ReqGoesOn ==
    ASSUME NEW r \in ReqOK
    PROVE  /\ r.pc = "lookup" => \A n \in Nexts : [r EXCEPT !.pc = "found", !.run = n] \in ReqOK
           /\ r.pc = "found" /\ r.kind = "response" => [r EXCEPT !.pc = "swapped"] \in ReqOK
           /\ r.pc \in {"found", "swapped"} => r.run \in Nexts /\ [r EXCEPT !.pc = "await"] \in ReqOK
           /\ r.pc = "await" => r.run \in Nexts
<1>1. CASE r \in ResponseRecs
  BY <1>1 DEF ReqOK, ResponseRecs
<1>2. CASE r \in ErrorRecs
  BY <1>2 DEF ReqOK, ErrorRecs
<1> QED
  BY <1>1, <1>2 DEF ReqOK

LEMMA LookupKeeps ==
    ASSUME ProcessOK, NEW q \in Reqs, Lookup(q)
    PROVE  ProcessOK' /\ PoolFrame
<1>1. req[q] \in ReqOK /\ req[q].pc = "lookup"
  BY DEF Lookup, ProcessOK
<1>2. /\ UNCHANGED <<idle, reserved, running, aborting, call, next>>
      /\ \/ \E st \in Statuses : Reply(q, st)
         \/ \E n \in Nexts : SetReq(q, [req[q] EXCEPT !.pc = "found", !.run = n])
  BY DEF Lookup, poolVars, Statuses
<1>3. CASE \E st \in Statuses : Reply(q, st)
  BY <1>1, <1>2, <1>3, ReplyOK, ReqAlone DEF Reply
<1>4. CASE \E n \in Nexts : SetReq(q, [req[q] EXCEPT !.pc = "found", !.run = n])
  BY <1>1, <1>2, <1>4, ReqGoesOn, ReqAlone
<1> QED
  BY <1>2, <1>3, <1>4

LEMMA ResponseSwapKeeps ==
    ASSUME ProcessOK, NEW q \in Reqs, ResponseSwap(q)
    PROVE  ProcessOK' /\ PoolFrame
<1> DEFINE n == req[q].run
           m == [next[n] EXCEPT !.state = "gotResponse"]
<1>1. req[q] \in ReqOK /\ req[q].pc = "found" /\ req[q].kind = "response"
  BY DEF ResponseSwap, ProcessOK
<1>2. n \in Nexts /\ [req[q] EXCEPT !.pc = "swapped"] \in ReqOK
  BY <1>1, ReqGoesOn
<1>3. next[n] \in NextRecs
  BY <1>2 DEF ProcessOK
<1>4. m \in NextRecs /\ m.got = next[n].got /\ m.pc = next[n].pc
  BY <1>3 DEF NextRecs
<1>5. /\ UNCHANGED <<idle, reserved, running, aborting, call>>
      /\ \/ SetNext(n, m) /\ SetReq(q, [req[q] EXCEPT !.pc = "swapped"])
         \/ Reply(q, "invalidRequestID") /\ UNCHANGED next
  BY DEF ResponseSwap, poolVars
<1> HIDE DEF m
<1>6. CASE SetNext(n, m) /\ SetReq(q, [req[q] EXCEPT !.pc = "swapped"])
  BY <1>2, <1>4, <1>5, <1>6, ReqWithNext
<1>7. CASE Reply(q, "invalidRequestID") /\ UNCHANGED next
  <2>1. [req[q] EXCEPT !.pc = "done", !.status = "invalidRequestID"] \in ReqOK
    BY <1>1, ReplyOK DEF Statuses
  <2> QED
    BY <1>5, <1>7, <2>1, ReqAlone DEF Reply
<1> QED
  BY <1>5, <1>6, <1>7

LEMMA ResponsePushKeeps ==
    ASSUME ProcessOK, NEW q \in Reqs, ResponsePush(q)
    PROVE  ProcessOK' /\ PoolFrame
<1> DEFINE n == req[q].run
           back == [next[n] EXCEPT !.state = IF @ = "gotResponse" THEN "noResponse" ELSE @]
           push == [next[n] EXCEPT !.response = q]
<1>1. req[q] \in ReqOK /\ req[q].pc = "swapped"
  BY DEF ResponsePush, ProcessOK
<1>2. n \in Nexts /\ [req[q] EXCEPT !.pc = "await"] \in ReqOK
  BY <1>1, ReqGoesOn
<1>3. next[n] \in NextRecs
  BY <1>2 DEF ProcessOK
<1>4. /\ back \in NextRecs /\ back.got = next[n].got /\ back.pc = next[n].pc
      /\ push \in NextRecs /\ push.got = next[n].got /\ push.pc = next[n].pc
  BY <1>3 DEF NextRecs
<1>5. [req[q] EXCEPT !.pc = "done", !.status = "timeout"] \in ReqOK
  BY <1>1, ReplyOK DEF Statuses
<1>6. /\ UNCHANGED <<idle, reserved, running, aborting, call>>
      /\ \/ SetNext(n, back) /\ Reply(q, "timeout")
         \/ SetNext(n, push) /\ SetReq(q, [req[q] EXCEPT !.pc = "await"])
  BY DEF ResponsePush, poolVars
<1> HIDE DEF back, push
<1>7. CASE SetNext(n, back) /\ Reply(q, "timeout")
  BY <1>2, <1>4, <1>5, <1>6, <1>7, ReqWithNext DEF Reply
<1>8. CASE SetNext(n, push) /\ SetReq(q, [req[q] EXCEPT !.pc = "await"])
  BY <1>2, <1>4, <1>6, <1>8, ReqWithNext
<1> QED
  BY <1>6, <1>7, <1>8

LEMMA ErrorPushKeeps ==
    ASSUME ProcessOK, NEW q \in Reqs, ErrorPush(q)
    PROVE  ProcessOK' /\ PoolFrame
<1> DEFINE n == req[q].run
           push == [next[n] EXCEPT !.state = "gotError", !.error = q]
<1>1. req[q] \in ReqOK /\ req[q].pc = "found"
  BY DEF ErrorPush, ProcessOK
<1>2. n \in Nexts /\ [req[q] EXCEPT !.pc = "await"] \in ReqOK
  BY <1>1, ReqGoesOn
<1>3. next[n] \in NextRecs
  BY <1>2 DEF ProcessOK
<1>4. push \in NextRecs /\ push.got = next[n].got /\ push.pc = next[n].pc
  BY <1>3, ZenonT(60) DEF NextRecs
<1>5. /\ UNCHANGED <<idle, reserved, running, aborting, call>>
      /\ \/ (\E st \in {"timeout", "invalidRequestID"} : Reply(q, st)) /\ UNCHANGED next
         \/ SetNext(n, push) /\ SetReq(q, [req[q] EXCEPT !.pc = "await"])
  BY DEF ErrorPush, poolVars
<1> HIDE DEF push
<1>6. ASSUME NEW st \in {"timeout", "invalidRequestID"}, Reply(q, st), UNCHANGED next
      PROVE  ProcessOK' /\ PoolFrame
  <2>1. [req[q] EXCEPT !.pc = "done", !.status = st] \in ReqOK
    BY <1>1, ReplyOK DEF Statuses
  <2> QED
    BY <1>5, <1>6, <2>1, ReqAlone DEF Reply
<1>7. CASE SetNext(n, push) /\ SetReq(q, [req[q] EXCEPT !.pc = "await"])
  BY <1>2, <1>4, <1>5, <1>7, ReqWithNext
<1> QED
  BY <1>5, <1>6, <1>7

LEMMA AwaitKeeps ==
    ASSUME ProcessOK, NEW q \in Reqs, Await(q)
    PROVE  ProcessOK' /\ PoolFrame
<1> DEFINE n == req[q].run
           response == [next[n] EXCEPT !.responseSent = "empty"]
           error == [next[n] EXCEPT !.errorSent = "empty"]
<1>1. req[q] \in ReqOK /\ req[q].pc = "await"
  BY DEF Await, ProcessOK
<1>2. n \in Nexts
  BY <1>1, ReqGoesOn
<1>3. next[n] \in NextRecs
  BY <1>2 DEF ProcessOK
<1>4. /\ response \in NextRecs /\ response.got = next[n].got /\ response.pc = next[n].pc
      /\ error \in NextRecs /\ error.got = next[n].got /\ error.pc = next[n].pc
  BY <1>3 DEF NextRecs
<1>5. \A e : ResponseStatus(e) \subseteq Statuses /\ ErrorStatus(e) \subseteq Statuses
  BY DEF ResponseStatus, ErrorStatus, RuntimesChoice, Statuses
<1>6. /\ UNCHANGED <<idle, reserved, running, aborting, call>>
      /\ SetNext(n, response) \/ SetNext(n, error)
      /\ \E st \in Statuses : Reply(q, st)
  BY <1>5 DEF Await, poolVars
<1> HIDE DEF response, error
<1>7. PICK st \in Statuses : Reply(q, st)
  BY <1>6
<1>8. [req[q] EXCEPT !.pc = "done", !.status = st] \in ReqOK
  BY <1>1, ReplyOK
<1>9. PICK m \in {response, error} : SetNext(n, m)
  BY <1>6
<1> QED
  BY <1>2, <1>4, <1>6, <1>7, <1>8, <1>9, ReqWithNext DEF Reply

\* Acquire takes the reserved runtime of the ID or the oldest idle one, or refuses the invoke.
LEMMA AcquireTyped ==
    ASSUME Typed, NEW c \in Calls, Acquire(c)
    PROVE  Typed'
<1> DEFINE i == call[c].id
<1>1. call[c] \in CallOK /\ call[c].pc = "placed" /\ i \in Ids
  BY DEF Acquire, Typed, ProcessOK, CallOK
<1>2. \A n \in Nexts : [call[c] EXCEPT !.pc = "acquired", !.run = n] \in CallOK
  BY <1>1, Numbers DEF CallOK, CallRecs, CallStates
<1>3. [call[c] EXCEPT !.pc = "refused"] \in CallOK
  BY <1>1 DEF CallOK, CallRecs, CallStates
<1>4. call[c].run = None
  BY <1>1 DEF CallOK
<1>5. UNCHANGED <<asking, aborting, next, req>>
  BY DEF Acquire
<1>6. ASSUME NEW r \in CallOK, SetCall(c, r), running' \in [Ids -> Nexts \cup {Absent, Nil}]
      PROVE  ProcessOK'
  <2>1. call' \in [Calls -> CallOK] /\ \A d \in Calls : d # c => call'[d] = call[d]
    BY <1>6, CallMoves DEF Typed
  <2> QED
    BY <1>4, <1>5, <1>6, <2>1, ProcessStep DEF Typed, ProcessOK
<1>7. CASE i \in Reserved
  <2>1. reserved[i].run \in Nexts
    BY <1>7 DEF Reserved, Typed, PoolType
  <2>2. timer' \in [Timers -> [st : {"unused", "armed", "fired", "off"}, id : Ids \cup {None}]]
    <3>1. reserved[i].timer \in Timers \cup {None}
      BY <1>1 DEF Typed, PoolType
    <3>2. Stop(reserved[i].timer)
      BY <1>7 DEF Acquire
    <3>3. timer \in [Timers -> [st : {"unused", "armed", "fired", "off"}, id : Ids \cup {None}]]
      BY DEF Typed, PoolType
    <3> QED
      BY <3>1, <3>2, <3>3 DEF Stop
  <2>3. reserved' \in [Ids -> [run : Nexts \cup {None}, timer : Timers \cup {None}]]
    BY <1>7 DEF Acquire, Typed, PoolType, NoReservation
  <2>4. UNCHANGED <<idle, running>> /\ SetCall(c, [call[c] EXCEPT !.pc = "acquired", !.run = reserved[i].run])
    BY <1>7 DEF Acquire
  <2>5. ProcessOK'
    BY <1>2, <1>6, <2>1, <2>4 DEF Typed, ProcessOK
  <2> QED
    BY <1>5, <2>2, <2>3, <2>4, <2>5 DEF Typed, PoolType
<1>8. CASE i \notin Reserved /\ idle # <<>>
  <2>1. Head(idle) \in Nexts /\ Tail(idle) \in Seq(Nexts)
    BY <1>8 DEF Typed, PoolType
  <2>2. /\ idle' = Tail(idle) /\ UNCHANGED <<reserved, timer, running>>
        /\ SetCall(c, [call[c] EXCEPT !.pc = "acquired", !.run = Head(idle)])
    BY <1>8 DEF Acquire
  <2>3. ProcessOK'
    BY <1>2, <1>6, <2>1, <2>2 DEF Typed, ProcessOK
  <2> QED
    BY <1>5, <2>1, <2>2, <2>3 DEF Typed, PoolType
<1>9. CASE i \notin Reserved /\ idle = <<>>
  <2>1. /\ UNCHANGED <<idle, reserved, timer>> /\ running' = [running EXCEPT ![i] = Absent]
        /\ SetCall(c, [call[c] EXCEPT !.pc = "refused"])
    BY <1>9 DEF Acquire
  <2>2. ProcessOK'
    BY <1>3, <1>6, <2>1 DEF Typed, ProcessOK
  <2> QED
    BY <1>5, <2>1, <2>2 DEF Typed, PoolType
<1> QED
  BY <1>7, <1>8, <1>9

\* The steps that give no /next to anybody.
CallQuiet(c) ==
    \/ Store(c) \/ RunInvoke(c) \/ InvokeSent(c) \/ TakeResponse(c) \/ TakeError(c) \/ CtxDone(c)
    \/ ErrorInBody(c) \/ TruncatedBodyEnds(c) \/ Notify(c) \/ Finish(c)
    \/ \E i \in Ids : Invoke(c, i)
    \/ \E w \in Causes \ {"live"} : CtxEnds(c, w)
    \/ \E e \in Causes \cup {"unknown"} : InvokeNotSent(c, e)
    \/ \E e \in Errors : BodyEnds(c, e)

ReqQuiet(q) ==
    \/ Lookup(q) \/ ResponseSwap(q) \/ ResponsePush(q) \/ ErrorPush(q) \/ Await(q)
    \/ \E n \in Nexts, k \in {"response", "error"}, echoes \in BOOLEAN, valid \in BOOLEAN :
           (valid \/ k = "response") /\ Post(q, n, k, echoes, valid)

LEMMA NextIs ==
    ASSUME Next
    PROVE  \/ \E c \in Calls : CallQuiet(c)
           \/ \E q \in Reqs : ReqQuiet(q)
           \/ \E n \in Nexts : WorkerGone(n)
           \/ AbortRunningInvokes \/ InvokesAborted
           \/ \E t \in Timers : TimerFires(t)
           \/ \E i \in Ids : ReserveCheck(i)
           \/ \E n \in Nexts : RuntimeNext(n)
           \/ \E c \in Calls : Acquire(c)
           \/ \E i \in Ids : ReserveIdleRuntime(i)
           \/ \E t \in Timers : OnExpire(t)
<1>1. CASE Program
  BY <1>1, Zenon DEF Program, CallStep, ReqStep, Deadline, Canceled, CallQuiet, ReqQuiet, Causes
<1>2. CASE World
  BY <1>2 DEF World, CallQuiet, ReqQuiet, Errors
<1>3. CASE Fault
  BY <1>3 DEF Fault, ClientGone, CallQuiet, ReqQuiet, Errors, Causes
<1> QED
  BY <1>1, <1>2, <1>3 DEF Next

LEMMA CallQuietKeeps ==
    ASSUME ProcessOK, NEW c \in Calls, CallQuiet(c)
    PROVE  ProcessOK' /\ PoolFrame
BY StoreKeeps, RunInvokeKeeps, InvokeSentKeeps, TakeResponseKeeps, TakeErrorKeeps, CtxDoneKeeps,
   ErrorInBodyKeeps, TruncatedBodyEndsKeeps, NotifyKeeps, FinishKeeps, InvokeKeeps, CtxEndsKeeps,
   InvokeNotSentKeeps, BodyEndsKeeps DEF CallQuiet

LEMMA ReqQuietKeeps ==
    ASSUME ProcessOK, NEW q \in Reqs, ReqQuiet(q)
    PROVE  ProcessOK' /\ PoolFrame
BY LookupKeeps, ResponseSwapKeeps, ResponsePushKeeps, ErrorPushKeeps, AwaitKeeps, PostKeeps
   DEF ReqQuiet

LEMMA QuietPool ==
    ASSUME \/ \E c \in Calls : CallQuiet(c)
           \/ \E q \in Reqs : ReqQuiet(q)
           \/ \E n \in Nexts : WorkerGone(n)
           \/ AbortRunningInvokes \/ InvokesAborted
    PROVE  UNCHANGED poolVars
<1>1. ASSUME NEW c \in Calls, CallQuiet(c) PROVE UNCHANGED poolVars
  BY <1>1 DEF CallQuiet, Store, RunInvoke, InvokeSent, TakeResponse, TakeError, CtxDone, ErrorInBody,
      TruncatedBodyEnds, Notify, Finish, Invoke, CtxEnds, InvokeNotSent, BodyEnds
<1>2. ASSUME NEW q \in Reqs, ReqQuiet(q) PROVE UNCHANGED poolVars
  BY <1>2 DEF ReqQuiet, Lookup, ResponseSwap, ResponsePush, ErrorPush, Await, Post
<1> QED
  BY <1>1, <1>2 DEF WorkerGone, AbortRunningInvokes, InvokesAborted

\* Every step keeps the types; it gives no /next to anybody unless it is a step of the pool.
LEMMA StepTyped ==
    ASSUME Typed, [Next]_vars
    PROVE  /\ Typed'
           /\ \/ PoolFrame
              \/ \E n \in Nexts : RuntimeNext(n)
              \/ \E c \in Calls : Acquire(c)
              \/ \E i \in Ids : ReserveIdleRuntime(i)
              \/ \E t \in Timers : OnExpire(t)
<1>1. CASE \/ \E c \in Calls : CallQuiet(c)
           \/ \E q \in Reqs : ReqQuiet(q)
           \/ \E n \in Nexts : WorkerGone(n)
           \/ AbortRunningInvokes \/ InvokesAborted
  <2>1. PoolType'
    BY <1>1, QuietPool DEF poolVars, Typed, PoolType
  <2>2. CASE InvokesAborted
    BY <2>1, <2>2, ProcessStep DEF InvokesAborted, Typed, ProcessOK, PoolFrame, Admitted, poolVars
  <2>3. CASE ~ InvokesAborted
    BY <1>1, <2>1, <2>3, CallQuietKeeps, ReqQuietKeeps, WorkerGoneKeeps, AbortKeeps DEF Typed
  <2> QED
    BY <2>2, <2>3
<1>2. CASE \E t \in Timers : TimerFires(t)
  <2>1. UNCHANGED <<idle, reserved, asking, running, aborting, call, next, req>>
    BY <1>2 DEF TimerFires
  <2>2. timer' \in [Timers -> [st : {"unused", "armed", "fired", "off"}, id : Ids \cup {None}]]
    BY <1>2 DEF TimerFires, Typed, PoolType
  <2> QED
    BY <1>2, <2>1, <2>2 DEF TimerFires, Typed, PoolType, ProcessOK, GotOK, PoolFrame, Admitted
<1>3. CASE \E i \in Ids : ReserveCheck(i)
  BY <1>3 DEF ReserveCheck, Typed, PoolType, ProcessOK, GotOK, PoolFrame, Admitted
<1>4. CASE \E n \in Nexts : RuntimeNext(n)
  BY <1>4, RuntimeNextTyped
<1>5. CASE \E c \in Calls : Acquire(c)
  BY <1>5, AcquireTyped
<1>6. CASE \E i \in Ids : ReserveIdleRuntime(i)
  BY <1>6, ReserveTyped DEF ReserveIdleRuntime, Typed, ProcessOK, GotOK
<1>7. CASE \E t \in Timers : OnExpire(t)
  BY <1>7, OnExpireTyped DEF OnExpire, Typed, ProcessOK, GotOK
<1>8. CASE UNCHANGED vars
  BY <1>8 DEF vars, Typed, PoolType, ProcessOK, GotOK, PoolFrame, Admitted
<1> QED
  BY <1>1, <1>2, <1>3, <1>4, <1>5, <1>6, <1>7, <1>8, NextIs

-----------------------------------------------------------------------------
(* The pool. *)

\* Where a /next can be: parked, reserved for an ID, or given to an invoke.
Holds(s, n)  == \E k \in DOMAIN s : s[k] = n
NoRepeat(s)  == \A j, k \in DOMAIN s : s[j] = s[k] => j = k
Kept(n)      == \E i \in Ids : reserved[i].run = n
Given(n)     == \E c \in Calls : call[c].run = n

\* Each /next that was admitted is in exactly one place, once.
PoolInv ==
    /\ NoRepeat(idle)
    /\ \A i, j \in Ids : reserved[i].run # None /\ reserved[i].run = reserved[j].run => i = j
    /\ \A c, d \in Calls : call[c].run # None /\ call[c].run = call[d].run => c = d
    /\ \A n \in Nexts : /\ Admitted(n) <=> Holds(idle, n) \/ Kept(n) \/ Given(n)
                        /\ ~(Holds(idle, n) /\ Kept(n))
                        /\ ~(Holds(idle, n) /\ Given(n))
                        /\ ~(Kept(n) /\ Given(n))

\* The pool does not outgrow its maximum: a reservation keeps its share.
PoolBound == IsFiniteSet(Reserved) /\ Len(idle) + Cardinality(Reserved) <= MaxSize

\* A queue at its two ends.
LEMMA HoldsAppend ==
    ASSUME NEW S, NEW s \in Seq(S), NEW n \in S, NoRepeat(s), ~ Holds(s, n)
    PROVE  /\ NoRepeat(Append(s, n)) /\ Len(Append(s, n)) = Len(s) + 1
           /\ \A m : Holds(Append(s, n), m) <=> Holds(s, m) \/ m = n
<1> DEFINE a == Append(s, n)
<1>1. /\ a \in Seq(S) /\ Len(a) = Len(s) + 1 /\ DOMAIN a = 1 .. Len(s) + 1 /\ DOMAIN s = 1 .. Len(s)
      /\ a[Len(s) + 1] = n /\ Len(s) \in Nat
      /\ \A k \in 1 .. Len(s) : a[k] = s[k]
  BY AppendProperties
<1> HIDE DEF a
<1>2. NoRepeat(a)
  BY <1>1 DEF NoRepeat, Holds
<1>3. ASSUME NEW m PROVE Holds(a, m) <=> Holds(s, m) \/ m = n
  BY <1>1 DEF Holds
<1> QED
  BY <1>1, <1>2, <1>3 DEF a

LEMMA HoldsTail ==
    ASSUME NEW S, NEW s \in Seq(S), s # <<>>, NoRepeat(s)
    PROVE  /\ NoRepeat(Tail(s)) /\ Len(Tail(s)) = Len(s) - 1
           /\ Head(s) \in S /\ Tail(s) \in Seq(S) /\ Holds(s, Head(s))
           /\ \A m : Holds(Tail(s), m) <=> Holds(s, m) /\ m # Head(s)
<1> DEFINE t == Tail(s)
<1>1. /\ t \in Seq(S) /\ Len(t) = Len(s) - 1 /\ DOMAIN t = 1 .. Len(s) - 1 /\ DOMAIN s = 1 .. Len(s)
      /\ Head(s) = s[1] /\ Len(s) \in Nat \ {0} /\ Head(s) \in S
      /\ \A k \in 1 .. Len(s) - 1 : t[k] = s[k + 1]
  BY HeadTailProperties, EmptySeq, LenProperties
<1> HIDE DEF t
<1>2. NoRepeat(t)
  <2> SUFFICES ASSUME NEW j \in DOMAIN t, NEW k \in DOMAIN t, t[j] = t[k] PROVE j = k
    BY DEF NoRepeat
  <2>1. s[j + 1] = s[k + 1] /\ j + 1 \in DOMAIN s /\ k + 1 \in DOMAIN s /\ j \in Nat /\ k \in Nat
    BY <1>1
  <2>2. j + 1 = k + 1
    BY <2>1 DEF NoRepeat
  <2> QED
    BY <2>1, <2>2
<1>3. ASSUME NEW m PROVE Holds(t, m) <=> Holds(s, m) /\ m # Head(s)
  <2>1. ASSUME Holds(t, m) PROVE Holds(s, m) /\ m # Head(s)
    <3>1. PICK k \in DOMAIN t : t[k] = m
      BY <2>1 DEF Holds
    <3>2. k \in Nat /\ k + 1 \in DOMAIN s /\ s[k + 1] = m /\ 1 \in DOMAIN s /\ k + 1 # 1
      BY <1>1, <3>1
    <3> QED
      BY <1>1, <3>2 DEF Holds, NoRepeat
  <2>2. ASSUME Holds(s, m), m # Head(s) PROVE Holds(t, m)
    <3>1. PICK k \in DOMAIN s : s[k] = m
      BY <2>2 DEF Holds
    <3>2. k - 1 \in DOMAIN t /\ t[k - 1] = m
      BY <1>1, <2>2, <3>1
    <3> QED
      BY <3>2 DEF Holds
  <2> QED
    BY <2>1, <2>2
<1>4. Holds(s, Head(s))
  BY <1>1 DEF Holds
<1> QED
  BY <1>1, <1>2, <1>3, <1>4 DEF t

\* A step that gives no /next to anybody.
LEMMA FrameKeepsPool ==
    ASSUME Typed, PoolInv, PoolBound, PoolFrame
    PROVE  PoolInv' /\ PoolBound'
<1>1. \A n \in Nexts : Kept(n)' = Kept(n) /\ Given(n)' = Given(n)
  BY DEF PoolFrame, Kept, Given
<1>2. PoolInv'
  BY <1>1 DEF PoolInv, PoolFrame
<1>3. Reserved' = Reserved
  BY DEF PoolFrame, Reserved
<1> QED
  BY <1>2, <1>3 DEF PoolBound, PoolFrame

\* A worker parks a /next, which was nowhere before.
LEMMA RuntimeNextKeepsPool ==
    ASSUME Typed, PoolInv, PoolBound, NEW n \in Nexts, RuntimeNext(n)
    PROVE  PoolInv' /\ PoolBound'
<1>1. ~ Admitted(n) /\ ~ Holds(idle, n) /\ ~ Kept(n) /\ ~ Given(n)
  <2>1. ~ Admitted(n)
    BY DEF RuntimeNext, Fresh, Typed, ProcessOK, NextRecs, Admitted
  <2> QED
    BY <2>1 DEF PoolInv
<1>2. UNCHANGED <<reserved, call>>
  BY DEF RuntimeNext, Add, poolVars
<1>3. /\ Reserved' = Reserved
      /\ \A m \in Nexts : Kept(m)' = Kept(m) /\ Given(m)' = Given(m)
  BY <1>2 DEF Reserved, Kept, Given
<1>4. \A m \in Nexts : m # n => Admitted(m)' = Admitted(m)
  BY DEF RuntimeNext, SetNext, Typed, ProcessOK, Admitted
<1>5. CASE Full
  <2>1. idle' = idle /\ ~ Admitted(n)'
    <3>1. next'[n] = [NewNext EXCEPT !.pc = "refused"]
      BY <1>5 DEF RuntimeNext, SetNext, Typed, ProcessOK
    <3> QED
      BY <1>5, <3>1 DEF RuntimeNext, poolVars, Admitted, NewNext
  <2> QED
    BY <1>1, <1>2, <1>3, <1>4, <2>1 DEF PoolInv, PoolBound
<1>6. CASE ~ Full
  <2>1. idle' = Append(idle, n)
    BY <1>6 DEF RuntimeNext, Add
  <2>2. Admitted(n)'
    <3>1. next'[n] = [NewNext EXCEPT !.pc = "parked"]
      BY <1>6 DEF RuntimeNext, SetNext, Typed, ProcessOK
    <3> QED
      BY <3>1 DEF Admitted, NewNext
  <2>3. /\ NoRepeat(idle') /\ Len(idle') = Len(idle) + 1
        /\ \A m : Holds(idle', m) <=> Holds(idle, m) \/ m = n
    BY <1>1, <2>1, HoldsAppend DEF Typed, PoolType, PoolInv
  <2>4. PoolInv'
    BY <1>1, <1>2, <1>3, <1>4, <2>2, <2>3 DEF PoolInv
  <2>5. Len(idle) \in Nat /\ Cardinality(Reserved) \in Nat
    BY FS_CardinalityType, LenProperties DEF PoolBound, Typed, PoolType
  <2>6. PoolBound'
    BY <1>3, <1>6, <2>3, <2>5, RouterAssumption DEF PoolBound, Full
  <2> QED
    BY <2>4, <2>6
<1> QED
  BY <1>5, <1>6

\* The oldest idle /next is reserved, if there is one and the ID has none.
LEMMA ReserveKeepsPool ==
    ASSUME Typed, PoolInv, PoolBound, NEW i \in Ids, ReserveIdleRuntime(i)
    PROVE  PoolInv' /\ PoolBound'
<1>1. UNCHANGED <<call, next>>
  BY DEF ReserveIdleRuntime
<1>2. CASE i \in Reserved \/ idle = <<>>
  BY <1>1, <1>2, FrameKeepsPool DEF ReserveIdleRuntime, PoolFrame, Admitted
<1>3. CASE ~(i \in Reserved \/ idle = <<>>)
  <2> DEFINE n == Head(idle)
  <2>1. PICK t \in Timers : reserved' = [reserved EXCEPT ![i] = [run |-> n, timer |-> t]]
    BY <1>3 DEF ReserveIdleRuntime, Reserve
  <2>2. idle' = Tail(idle)
    BY <1>3 DEF ReserveIdleRuntime, Reserve
  <2>3. /\ NoRepeat(idle') /\ Len(idle') = Len(idle) - 1 /\ n \in Nexts /\ Holds(idle, n)
        /\ \A m : Holds(idle', m) <=> Holds(idle, m) /\ m # n
    BY <1>3, <2>2, HoldsTail DEF Typed, PoolType, PoolInv
  <2> HIDE DEF n
  <2>4. /\ reserved[i].run = None /\ reserved'[i].run = n
        /\ \A j \in Ids : j # i => reserved'[j] = reserved[j]
    BY <1>3, <2>1 DEF Typed, PoolType, Reserved
  <2>5. \A m \in Nexts : /\ Kept(m)' <=> Kept(m) \/ m = n
                         /\ Given(m)' = Given(m) /\ Admitted(m)' = Admitted(m)
    BY <1>1, <2>4, Numbers DEF Kept, Given, Admitted
  <2>6. \A j \in Ids : reserved[j].run # n
    BY <2>3 DEF PoolInv, Kept
  <2>7. PoolInv'
    BY <1>1, <2>3, <2>4, <2>5, <2>6 DEF PoolInv
  <2>8. Reserved' = Reserved \cup {i}
    BY <2>3, <2>4, Numbers DEF Reserved
  <2>9. /\ Len(idle) \in Nat /\ Cardinality(Reserved) \in Nat
        /\ IsFiniteSet(Reserved \cup {i}) /\ Cardinality(Reserved \cup {i}) = Cardinality(Reserved) + 1
    BY <1>3, FS_CardinalityType, FS_AddElement, LenProperties DEF PoolBound, Typed, PoolType
  <2>10. PoolBound'
    BY <2>3, <2>8, <2>9, RouterAssumption DEF PoolBound
  <2> QED
    BY <2>7, <2>10
<1> QED
  BY <1>2, <1>3

\* A reservation ends: its /next goes elsewhere.
LEMMA Unreserved ==
    ASSUME Typed, PoolInv, PoolBound, NEW i \in Reserved,
           reserved' = [reserved EXCEPT ![i] = NoReservation]
    PROVE  /\ reserved[i].run \in Nexts
           /\ ~ Holds(idle, reserved[i].run) /\ ~ Given(reserved[i].run) /\ Admitted(reserved[i].run)
           /\ \A m \in Nexts : Kept(m)' <=> Kept(m) /\ m # reserved[i].run
           /\ \A j, k \in Ids : reserved'[j].run # None /\ reserved'[j].run = reserved'[k].run => j = k
           /\ Len(idle) \in Nat /\ Cardinality(Reserved) \in Nat
           /\ IsFiniteSet(Reserved') /\ Cardinality(Reserved') = Cardinality(Reserved) - 1
<1> DEFINE n == reserved[i].run
<1>1. i \in Ids /\ n \in Nexts /\ Kept(n) /\ n # None
  BY DEF Reserved, Typed, PoolType, Kept
<1>2. ~ Holds(idle, n) /\ ~ Given(n) /\ Admitted(n)
  BY <1>1 DEF PoolInv
<1>3. reserved'[i].run = None /\ \A j \in Ids : j # i => reserved'[j] = reserved[j]
  BY <1>1 DEF Typed, PoolType, NoReservation
<1>4. \A m \in Nexts : Kept(m)' <=> Kept(m) /\ m # n
  <2> SUFFICES ASSUME NEW m \in Nexts PROVE Kept(m)' <=> Kept(m) /\ m # n
    OBVIOUS
  <2>1. \A j \in Ids : reserved'[j].run = m <=> j # i /\ reserved[j].run = m
    BY <1>3, Numbers
  <2>2. \A j \in Ids : reserved[j].run = n => j = i
    BY <1>1 DEF PoolInv
  <2> QED
    BY <1>1, <2>1, <2>2 DEF Kept
<1>5. \A j, k \in Ids : reserved'[j].run # None /\ reserved'[j].run = reserved'[k].run => j = k
  BY <1>3 DEF PoolInv
<1>6. Reserved' = Reserved \ {i}
  BY <1>3 DEF Reserved
<1> QED
  BY <1>1, <1>2, <1>4, <1>5, <1>6, FS_CardinalityType, FS_RemoveElement, LenProperties
     DEF PoolBound, Typed, PoolType

\* A timer, of whatever reservation, gives the reserved /next of its ID back.
LEMMA OnExpireKeepsPool ==
    ASSUME Typed, PoolInv, PoolBound, NEW t \in Timers, OnExpire(t)
    PROVE  PoolInv' /\ PoolBound'
<1> DEFINE i == timer[t].id
           n == reserved[i].run
<1>1. UNCHANGED <<call, next>>
  BY DEF OnExpire
<1>2. CASE i \notin Reserved
  BY <1>1, <1>2, FrameKeepsPool DEF OnExpire, ExpireReservation, PoolFrame, Admitted
<1>3. CASE i \in Reserved
  <2>1. idle' = Append(idle, n) /\ reserved' = [reserved EXCEPT ![i] = NoReservation]
    BY <1>3 DEF OnExpire, ExpireReservation
  <2>2. /\ n \in Nexts /\ ~ Holds(idle, n) /\ ~ Given(n) /\ Admitted(n)
        /\ \A m \in Nexts : Kept(m)' <=> Kept(m) /\ m # n
        /\ \A j, k \in Ids : reserved'[j].run # None /\ reserved'[j].run = reserved'[k].run => j = k
        /\ Len(idle) \in Nat /\ Cardinality(Reserved) \in Nat
        /\ IsFiniteSet(Reserved') /\ Cardinality(Reserved') = Cardinality(Reserved) - 1
    BY <1>3, <2>1, Unreserved
  <2>3. /\ NoRepeat(idle') /\ Len(idle') = Len(idle) + 1
        /\ \A m : Holds(idle', m) <=> Holds(idle, m) \/ m = n
    BY <2>1, <2>2, HoldsAppend DEF Typed, PoolType, PoolInv
  <2> HIDE DEF n
  <2>4. \A m \in Nexts : Given(m)' = Given(m) /\ Admitted(m)' = Admitted(m)
    BY <1>1 DEF Given, Admitted
  <2>5. PoolInv'
    BY <1>1, <2>2, <2>3, <2>4 DEF PoolInv
  <2>6. PoolBound'
    BY <2>2, <2>3, RouterAssumption DEF PoolBound
  <2> QED
    BY <2>5, <2>6
<1> QED
  BY <1>2, <1>3

\* An invoke is given the /next reserved for its ID, or the oldest idle one, or none.
LEMMA AcquireKeepsPool ==
    ASSUME Typed, PoolInv, PoolBound, NEW c \in Calls, Acquire(c)
    PROVE  PoolInv' /\ PoolBound'
<1> DEFINE i == call[c].id
<1>1. call[c] \in CallOK /\ call[c].run = None /\ UNCHANGED next
  BY DEF Acquire, Typed, ProcessOK, CallOK
<1>2. ASSUME NEW n \in Nexts, SetCall(c, [call[c] EXCEPT !.pc = "acquired", !.run = n]), ~ Given(n)
      PROVE  /\ \A m \in Nexts : /\ Given(m)' <=> Given(m) \/ m = n
                                 /\ Admitted(m)' = Admitted(m)
             /\ \A d, e \in Calls : call'[d].run # None /\ call'[d].run = call'[e].run => d = e
  <2>1. call'[c].run = n /\ \A d \in Calls : d # c => call'[d] = call[d]
    BY <1>1, <1>2 DEF SetCall, Typed, ProcessOK, CallOK, CallRecs
  <2>2. \A d \in Calls : call[d].run # n
    BY <1>2 DEF Given
  <2> QED
    BY <1>1, <2>1, <2>2, Numbers DEF Given, Admitted, PoolInv
<1>3. CASE i \in Reserved
  <2> DEFINE n == reserved[i].run
  <2>1. /\ reserved' = [reserved EXCEPT ![i] = NoReservation] /\ UNCHANGED idle
        /\ SetCall(c, [call[c] EXCEPT !.pc = "acquired", !.run = n])
    BY <1>3 DEF Acquire
  <2>2. /\ n \in Nexts /\ ~ Holds(idle, n) /\ ~ Given(n) /\ Admitted(n)
        /\ \A m \in Nexts : Kept(m)' <=> Kept(m) /\ m # n
        /\ \A j, k \in Ids : reserved'[j].run # None /\ reserved'[j].run = reserved'[k].run => j = k
        /\ Len(idle) \in Nat /\ Cardinality(Reserved) \in Nat
        /\ IsFiniteSet(Reserved') /\ Cardinality(Reserved') = Cardinality(Reserved) - 1
    BY <1>3, <2>1, Unreserved
  <2>3. /\ \A m \in Nexts : /\ Given(m)' <=> Given(m) \/ m = n
                            /\ Admitted(m)' = Admitted(m)
        /\ \A d, e \in Calls : call'[d].run # None /\ call'[d].run = call'[e].run => d = e
    BY <1>2, <2>1, <2>2
  <2> HIDE DEF n
  <2>4. PoolInv'
    BY <2>1, <2>2, <2>3 DEF PoolInv
  <2>5. PoolBound'
    BY <2>1, <2>2, RouterAssumption DEF PoolBound
  <2> QED
    BY <2>4, <2>5
<1>4. CASE i \notin Reserved /\ idle # <<>>
  <2> DEFINE n == Head(idle)
  <2>1. /\ idle' = Tail(idle) /\ UNCHANGED reserved
        /\ SetCall(c, [call[c] EXCEPT !.pc = "acquired", !.run = n])
    BY <1>4 DEF Acquire
  <2>2. /\ NoRepeat(idle') /\ Len(idle') = Len(idle) - 1 /\ n \in Nexts /\ Holds(idle, n)
        /\ \A m : Holds(idle', m) <=> Holds(idle, m) /\ m # n
    BY <1>4, <2>1, HoldsTail DEF Typed, PoolType, PoolInv
  <2>3. ~ Kept(n) /\ ~ Given(n) /\ Admitted(n)
    BY <2>2 DEF PoolInv
  <2>4. /\ \A m \in Nexts : /\ Given(m)' <=> Given(m) \/ m = n
                            /\ Admitted(m)' = Admitted(m)
        /\ \A d, e \in Calls : call'[d].run # None /\ call'[d].run = call'[e].run => d = e
    BY <1>2, <2>1, <2>2, <2>3
  <2> HIDE DEF n
  <2>5. Reserved' = Reserved /\ \A m \in Nexts : Kept(m)' = Kept(m)
    BY <2>1 DEF Reserved, Kept
  <2>6. PoolInv'
    BY <2>1, <2>2, <2>3, <2>4, <2>5 DEF PoolInv
  <2>7. Len(idle) \in Nat /\ Cardinality(Reserved) \in Nat
    BY FS_CardinalityType, LenProperties DEF PoolBound, Typed, PoolType
  <2>8. PoolBound'
    BY <2>2, <2>5, <2>7, RouterAssumption DEF PoolBound
  <2> QED
    BY <2>6, <2>8
<1>5. CASE i \notin Reserved /\ idle = <<>>
  <2>1. UNCHANGED <<idle, reserved>> /\ SetCall(c, [call[c] EXCEPT !.pc = "refused"])
    BY <1>5 DEF Acquire
  <2>2. \A d \in Calls : call'[d].run = call[d].run
    BY <1>1, <2>1 DEF SetCall, Typed, ProcessOK, CallOK, CallRecs
  <2> QED
    BY <1>1, <2>1, <2>2, FrameKeepsPool DEF PoolFrame, Admitted
<1> QED
  BY <1>3, <1>4, <1>5

RouterInv == Typed /\ PoolInv /\ PoolBound

LEMMA InitRouterInv == Init => RouterInv
<1> SUFFICES ASSUME Init PROVE RouterInv
  OBVIOUS
<1>1. Typed
  BY InitTyped
<1>2. /\ idle = <<>> /\ \A i \in Ids : reserved[i].run = None
      /\ \A c \in Calls : call[c].run = None
      /\ \A n \in Nexts : ~ Admitted(n)
  BY DEF Init, NoReservation, NewCall, NewNext, Admitted
<1>3. DOMAIN idle = {} /\ Len(idle) = 0
  BY <1>2
<1>4. Reserved = {}
  BY <1>2 DEF Reserved
<1>5. PoolInv
  BY <1>2, <1>3, Numbers DEF PoolInv, NoRepeat, Holds, Kept, Given
<1>6. PoolBound
  BY <1>3, <1>4, FS_EmptySet, RouterAssumption DEF PoolBound
<1> QED
  BY <1>1, <1>5, <1>6 DEF RouterInv

LEMMA StepRouterInv ==
    ASSUME RouterInv, [Next]_vars
    PROVE  RouterInv'
<1>1. Typed'
  BY StepTyped DEF RouterInv
<1>2. PoolInv' /\ PoolBound'
  BY StepTyped, FrameKeepsPool, RuntimeNextKeepsPool, AcquireKeepsPool, ReserveKeepsPool,
     OnExpireKeepsPool DEF RouterInv
<1> QED
  BY <1>1, <1>2 DEF RouterInv

LEMMA RouterInvariant == Spec => []RouterInv
<1>1. RouterInv /\ [Next]_vars => RouterInv'
  BY StepRouterInv
<1> QED
  BY <1>1, InitRouterInv, PTL DEF Spec

\* Type correctness of the pool and of the processes (RuntimePool, InvokeRouter and
\* runningInvokeImpl); the cache of timed out IDs is left to TLC.
THEOREM TypeCorrect == Spec => [](PoolType /\ ProcessType)
<1>1. faults \in 0 .. MaxFaults /\ [Next]_vars => (faults \in 0 .. MaxFaults)'
  BY RouterAssumption DEF Next, vars
<1>2. Init => faults \in 0 .. MaxFaults
  BY RouterAssumption DEF Init
<1>3. RouterInv /\ faults \in 0 .. MaxFaults => PoolType /\ ProcessType
  BY DEF RouterInv, Typed, ProcessOK, ProcessType, CallOK, ReqOK
<1> QED
  BY <1>1, <1>2, <1>3, RouterInvariant, PTL DEF Spec

\* Reservations, expiries of stale timers and acquisitions never lose or duplicate a /next, and
\* the pool is never larger than its maximum.
THEOREM NextsConserved == Spec => []PoolConserved
<1>1. RouterInv => PoolConserved
  <2> SUFFICES ASSUME RouterInv, NEW n \in Nexts
               PROVE  Cardinality(Places(n)) = IF next[n].pc \in {"unborn", "refused"} THEN 0 ELSE 1
    BY DEF RouterInv, PoolBound, PoolConserved
  <2>1. /\ Admitted(n) <=> Holds(idle, n) \/ Kept(n) \/ Given(n)
        /\ ~(Holds(idle, n) /\ Kept(n)) /\ ~(Holds(idle, n) /\ Given(n)) /\ ~(Kept(n) /\ Given(n))
    BY DEF RouterInv, PoolInv
  <2> DEFINE Parked == {<<"idle", k>> : k \in {j \in DOMAIN idle : idle[j] = n}}
             Spared == {<<"reserved", i>> : i \in {i \in Ids : reserved[i].run = n}}
             Taken  == {<<"given", c>> : c \in {c \in Calls : call[c].run = n}}
  <2>2. Places(n) = Parked \cup Spared \cup Taken
    BY DEF Places
  <2>3. /\ ~ Holds(idle, n) => Parked = {}
        /\ Holds(idle, n) => \E x : Parked = {x}
    <3>1. ASSUME Holds(idle, n) PROVE \E x : Parked = {x}
      <4>1. PICK k \in DOMAIN idle : idle[k] = n
        BY <3>1 DEF Holds
      <4>2. {j \in DOMAIN idle : idle[j] = n} = {k}
        BY <4>1 DEF RouterInv, PoolInv, NoRepeat
      <4>3. Parked = {<<"idle", k>>}
        BY <4>2
      <4> QED
        BY <4>3
    <3>2. ASSUME ~ Holds(idle, n) PROVE Parked = {}
      BY <3>2 DEF Holds
    <3> QED
      BY <3>1, <3>2
  <2>4. /\ ~ Kept(n) => Spared = {}
        /\ Kept(n) => \E x : Spared = {x}
    <3>1. ASSUME Kept(n) PROVE \E x : Spared = {x}
      <4>1. PICK i \in Ids : reserved[i].run = n
        BY <3>1 DEF Kept
      <4>2. {j \in Ids : reserved[j].run = n} = {i}
        BY <4>1, Numbers DEF RouterInv, PoolInv
      <4>3. Spared = {<<"reserved", i>>}
        BY <4>2
      <4> QED
        BY <4>3
    <3>2. ASSUME ~ Kept(n) PROVE Spared = {}
      BY <3>2 DEF Kept
    <3> QED
      BY <3>1, <3>2
  <2>5. /\ ~ Given(n) => Taken = {}
        /\ Given(n) => \E x : Taken = {x}
    <3>1. ASSUME Given(n) PROVE \E x : Taken = {x}
      <4>1. PICK c \in Calls : call[c].run = n
        BY <3>1 DEF Given
      <4>2. {d \in Calls : call[d].run = n} = {c}
        BY <4>1, Numbers DEF RouterInv, PoolInv
      <4>3. Taken = {<<"given", c>>}
        BY <4>2
      <4> QED
        BY <4>3
    <3>2. ASSUME ~ Given(n) PROVE Taken = {}
      BY <3>2 DEF Given
    <3> QED
      BY <3>1, <3>2
  <2> HIDE DEF Parked, Spared, Taken
  <2>6. CASE Admitted(n)
    <3>1. \E x : Places(n) = {x}
      BY <2>1, <2>2, <2>3, <2>4, <2>5, <2>6
    <3> QED
      BY <2>6, <3>1, FS_Singleton DEF Admitted
  <2>7. CASE ~ Admitted(n)
    <3>1. Places(n) = {}
      BY <2>1, <2>2, <2>3, <2>4, <2>5, <2>7
    <3> QED
      BY <2>7, <3>1, FS_EmptySet DEF Admitted
  <2> QED
    BY <2>6, <2>7
<1> QED
  BY <1>1, RouterInvariant, PTL

-----------------------------------------------------------------------------
(* The router implements Dispatch. *)

\* A step of a call that is given nothing: it arrives, is refused, is answered, ends, or stays
\* in its phase.
LEMMA CallQuietPhase ==
    ASSUME ProcessOK, NEW c \in Calls, CallQuiet(c)
    PROVE  /\ \A d \in Calls : d # c => call'[d] = call[d]
           /\ \/ Phase(c)' = Phase(c)
              \/ Phase(c) = "new" /\ Phase(c)' = "admitted"
              \/ Phase(c) = "new" /\ Phase(c)' = "refused"
              \/ Phase(c) = "running" /\ Phase(c)' = "answered"
              \/ Phase(c) = "answered" /\ Phase(c)' = "done"
<1>1. call[c] \in CallOK /\ DOMAIN call = Calls
  BY DEF ProcessOK
<1>2. CASE Store(c) \/ RunInvoke(c) \/ InvokeSent(c)
  BY <1>1, <1>2 DEF Store, RunInvoke, InvokeSent, SetCall, Phase, CallOK, CallRecs
<1>3. ASSUME NEW p \in {"notifying", "unwinding"}, NEW e, NEW q, Answered(c, p, e, q),
             call[c].pc \in {"sending", "waiting", "body", "truncating"}
      PROVE  /\ \A d \in Calls : d # c => call'[d] = call[d]
             /\ Phase(c) = "running" /\ Phase(c)' = "answered"
  BY <1>1, <1>3 DEF Answered, SetCall, Phase, CallOK, CallRecs
<1>4. CASE TakeResponse(c)
  <2>1. call[c].pc = "waiting"
    BY <1>4 DEF TakeResponse
  <2>2. CASE Answered(c, "notifying", "parsing", next[call[c].run].response)
    BY <1>3, <2>1, <2>2
  <2>3. CASE SetCall(c, [call[c] EXCEPT !.pc = "body", !.from = next[call[c].run].response])
    BY <1>1, <2>1, <2>3 DEF SetCall, Phase, CallOK, CallRecs
  <2> QED
    BY <1>4, <2>2, <2>3 DEF TakeResponse
<1>5. CASE \/ TakeError(c) \/ CtxDone(c) \/ TruncatedBodyEnds(c)
           \/ \E e \in Errors : BodyEnds(c, e)
           \/ \E e \in Causes \cup {"unknown"} : InvokeNotSent(c, e)
  <2>1. /\ call[c].pc \in {"sending", "waiting", "body", "truncating"}
        /\ \E p \in {"notifying", "unwinding"} : \E e, q : Answered(c, p, e, q)
    BY <1>5 DEF TakeError, CtxDone, TruncatedBodyEnds, BodyEnds, InvokeNotSent
  <2> QED
    BY <1>3, <2>1
<1>6. CASE ErrorInBody(c)
  BY <1>1, <1>6 DEF ErrorInBody, SetCall, Phase, CallOK, CallRecs
<1>7. CASE Notify(c) \/ Finish(c)
  BY <1>1, <1>7 DEF Notify, Finish, SetCall, Phase, CallOK, CallRecs
<1>8. CASE \E i \in Ids : Invoke(c, i)
  <2>1. call[c].pc = "new"
    BY <1>1, <1>8 DEF Invoke, Fresh, CallOK, CallRecs, CallStates
  <2>2. PICK i \in Ids, p \in {"refused", "placed"} :
          call' = [call EXCEPT ![c] = [NewCall EXCEPT !.pc = p, !.id = i]]
    BY <1>8 DEF Invoke, SetCall
  <2>3. call'[c].pc = p /\ \A d \in Calls : d # c => call'[d] = call[d]
    BY <1>1, <2>2 DEF NewCall
  <2> QED
    BY <2>1, <2>3 DEF Phase
<1>9. CASE \E w \in Causes \ {"live"} : CtxEnds(c, w)
  BY <1>1, <1>9 DEF CtxEnds, SetCall, Phase, CallOK, CallRecs
<1> QED
  BY <1>2, <1>4, <1>5, <1>6, <1>7, <1>8, <1>9 DEF CallQuiet

\* One call changes its phase, and none is given a /next.
LEMMA PhaseMoves ==
    ASSUME NEW c \in Calls, \A d \in Calls : d # c => call'[d] = call[d],
           \A d \in Calls : call'[d].run = call[d].run,
           \/ Phase(c)' = Phase(c)
           \/ Phase(c) = "new" /\ Phase(c)' = "admitted"
           \/ Phase(c) = "new" /\ Phase(c)' = "refused"
           \/ Phase(c) = "running" /\ Phase(c)' = "answered"
           \/ Phase(c) = "answered" /\ Phase(c)' = "done"
           \/ Phase(c) = "admitted" /\ Phase(c)' = "refused"
    PROVE  [D!DispatchNext]_(D!dispatchVars)
<1> DEFINE phases == [d \in Calls |-> Phase(d)]
           givens == [d \in Calls |-> call[d].run]
<1>1. givens' = givens
  OBVIOUS
<1>2. \A d \in Calls : d # c => Phase(d)' = Phase(d)
  BY DEF Phase
<1>3. phases' = [phases EXCEPT ![c] = Phase(c)'] /\ phases[c] = Phase(c)
  BY <1>2
<1>4. CASE Phase(c)' = Phase(c)
  <2>1. phases' = phases
    BY <1>2, <1>4
  <2> QED
    BY <1>1, <2>1 DEF D!dispatchVars
<1>5. CASE Phase(c)' # Phase(c)
  <2>1. D!Arrive(c) \/ D!Refuse(c) \/ D!Answer(c) \/ D!Forget(c)
    BY <1>1, <1>3, <1>5 DEF D!Arrive, D!Refuse, D!Answer, D!Forget, D!Move
  <2> QED
    BY <2>1 DEF D!DispatchNext
<1> QED
  BY <1>4, <1>5

LEMMA StepImplementsDispatch ==
    ASSUME RouterInv, [Next]_vars
    PROVE  [D!DispatchNext]_(D!dispatchVars)
<1> DEFINE phases == [d \in Calls |-> Phase(d)]
           givens == [d \in Calls |-> call[d].run]
<1>1. CASE \E c \in Calls : CallQuiet(c)
  BY <1>1, CallQuietPhase, CallQuietKeeps, PhaseMoves DEF RouterInv, Typed, PoolFrame
<1>2. CASE UNCHANGED call
  <2>1. phases' = phases /\ givens' = givens
    BY <1>2 DEF Phase
  <2> QED
    BY <2>1 DEF D!dispatchVars
<1>3. CASE \E c \in Calls : Acquire(c)
  <2>1. PICK c \in Calls : Acquire(c)
    BY <1>3
  <2>2. call[c] \in CallOK /\ call[c].pc = "placed" /\ DOMAIN call = Calls
    BY <2>1 DEF Acquire, RouterInv, Typed, ProcessOK
  <2>3. CASE SetCall(c, [call[c] EXCEPT !.pc = "refused"])
    <3>1. /\ \A d \in Calls : d # c => call'[d] = call[d]
          /\ \A d \in Calls : call'[d].run = call[d].run
          /\ Phase(c) = "admitted" /\ Phase(c)' = "refused"
      BY <2>2, <2>3 DEF SetCall, Phase, CallOK, CallRecs
    <3> QED
      BY <3>1, PhaseMoves
  <2>4. ASSUME NEW n \in Nexts, ~ Given(n),
               SetCall(c, [call[c] EXCEPT !.pc = "acquired", !.run = n])
        PROVE  [D!DispatchNext]_(D!dispatchVars)
    <3>1. /\ \A d \in Calls : d # c => call'[d] = call[d]
          /\ call'[c].run = n /\ Phase(c) = "admitted" /\ Phase(c)' = "running"
      BY <2>2, <2>4 DEF SetCall, Phase, CallOK, CallRecs
    <3>2. \A d \in Calls : d # c => Phase(d)' = Phase(d)
      BY <3>1 DEF Phase
    <3>3. /\ phases[c] = "admitted" /\ phases' = [phases EXCEPT ![c] = "running"]
          /\ givens' = [givens EXCEPT ![c] = n]
          /\ \A d \in Calls : givens[d] # n
      BY <2>4, <3>1, <3>2 DEF Given
    <3>4. D!Give(c, n)
      BY <3>3 DEF D!Give, D!Move
    <3> QED
      BY <3>4 DEF D!DispatchNext
  <2>5. CASE call[c].id \in Reserved
    <3>1. reserved[call[c].id].run \in Nexts /\ Kept(reserved[call[c].id].run)
      BY <2>5 DEF Reserved, Kept, RouterInv, Typed, PoolType
    <3>2. ~ Given(reserved[call[c].id].run)
      BY <3>1 DEF RouterInv, PoolInv
    <3> QED
      BY <2>1, <2>4, <2>5, <3>1, <3>2 DEF Acquire
  <2>6. CASE call[c].id \notin Reserved /\ idle # <<>>
    <3>1. Head(idle) \in Nexts /\ Holds(idle, Head(idle))
      BY <2>6, HoldsTail DEF RouterInv, Typed, PoolType, PoolInv
    <3>2. ~ Given(Head(idle))
      BY <3>1 DEF RouterInv, PoolInv
    <3> QED
      BY <2>1, <2>4, <2>6, <3>1, <3>2 DEF Acquire
  <2> QED
    BY <2>1, <2>3, <2>5, <2>6 DEF Acquire
<1>4. CASE \/ \E q \in Reqs : ReqQuiet(q)
           \/ \E n \in Nexts : WorkerGone(n) \/ RuntimeNext(n)
           \/ AbortRunningInvokes \/ InvokesAborted
           \/ \E t \in Timers : TimerFires(t) \/ OnExpire(t)
           \/ \E i \in Ids : ReserveCheck(i) \/ ReserveIdleRuntime(i)
  <2>1. ASSUME NEW q \in Reqs, ReqQuiet(q) PROVE UNCHANGED call
    BY <2>1 DEF ReqQuiet, Lookup, ResponseSwap, ResponsePush, ErrorPush, Await, Post
  <2>2. UNCHANGED call
    BY <1>4, <2>1 DEF WorkerGone, RuntimeNext, AbortRunningInvokes, InvokesAborted, TimerFires, OnExpire,
                      ReserveCheck, ReserveIdleRuntime
  <2> QED
    BY <1>2, <2>2
<1>5. CASE UNCHANGED vars
  BY <1>2, <1>5 DEF vars
<1> QED
  BY <1>1, <1>3, <1>4, <1>5, NextIs

\* The router implements Dispatch: a /next is given to at most one invoke, and an invoke that is
\* given one is answered exactly once before it ends, whatever worker, client and timers do.
THEOREM DispatchImplemented == Spec => ImplementsDispatch
<1>1. Init => D!DispatchInit
  <2> SUFFICES ASSUME Init PROVE D!DispatchInit
    OBVIOUS
  <2>1. \A c \in Calls : Phase(c) = "new" /\ call[c].run = 0
    BY DEF Init, NewCall, Phase, None
  <2> QED
    BY <2>1 DEF D!DispatchInit, D!NoNext
<1>2. RouterInv /\ [Next]_vars => [D!DispatchNext]_(D!dispatchVars)
  BY StepImplementsDispatch
<1> QED
  BY <1>1, <1>2, RouterInvariant, PTL DEF Spec, ImplementsDispatch, D!DispatchSpec

-----------------------------------------------------------------------------
(* Answers. *)

\* A /next nobody has parked has been touched by nobody, and what runningInvokes or a post
\* refers to was parked.
Untouched(n) == /\ next[n].state = "noResponse" /\ next[n].response = None
                /\ next[n].responseSent = "empty" /\ next[n].errorSent = "empty"
TouchInv ==
    /\ \A n \in Nexts : Admitted(n) \/ Untouched(n)
    /\ \A i \in Ids : running[i] \in Nexts => Admitted(running[i])
    /\ \A q \in Reqs : req[q].run \in Nexts => Admitted(req[q].run)

\* A /response that has the right to answer; one whose handler waits for the outcome; an invoke
\* that was answered on a worker; one that has told the worker.
Live(q)      == req[q].kind = "response" /\ req[q].pc \in {"swapped", "await"}
Awaits(q, n) == q \in Reqs /\ req[q].kind = "response" /\ req[q].pc = "await" /\ req[q].run = n
Settled(n)   == \E c \in Calls : call[c].run = n /\ call[c].answers = 1
Told(c, n)   == call[c].run = n /\ call[c].pc \in {"unwinding", "done"}

\* The right to answer is held by one /response at a time ...
RightInv ==
    /\ \A q \in Reqs : Live(q) => next[req[q].run].state # "noResponse"
    /\ \A p, q \in Reqs : Live(p) /\ Live(q) /\ req[p].run = req[q].run => p = q

\* ... and what is sent to a waiting handler is what its invoker was answered with.
SentInv ==
    /\ \A n \in Nexts : next[n].response # None =>
           /\ req[next[n].response].kind = "response" /\ req[next[n].response].run = n
           /\ \/ req[next[n].response].pc = "await"
              \/ req[next[n].response].pc = "done" /\ Settled(n)
    /\ \A c \in Calls : call[c].pc = "body" \/ (call[c].pc = "notifying" /\ call[c].err = "nil")
                            => Awaits(call[c].from, call[c].run)
    /\ \A n \in Nexts : next[n].responseSent # "empty" =>
           \E c \in Calls : /\ Told(c, n) /\ call[c].err = next[n].responseSent
                            /\ call[c].err = "nil" => Awaits(call[c].from, n)
    /\ \A n \in Nexts : next[n].errorSent # "empty" =>
           \E c \in Calls : Told(c, n) /\ call[c].err = next[n].errorSent

AnswerInv == RightInv /\ SentInv /\ AcceptedIsAnswer

\* What a step of a call, or of a post, can reach.
LEMMA CallReach ==
    ASSUME ProcessOK, NEW c \in Calls, CallQuiet(c)
    PROVE  /\ \A n \in Nexts : n # call[c].run => next'[n] = next[n]
           /\ \A i \in Ids : running'[i] \in {running[i], Absent, Nil, call[c].run}
           /\ req' = req
<1>1. DOMAIN next = Nexts /\ DOMAIN running = Ids
  BY DEF ProcessOK
<1>2. CASE Store(c) \/ RunInvoke(c) \/ InvokeSent(c) \/ Notify(c) \/ Finish(c)
  BY <1>1, <1>2 DEF Store, RunInvoke, InvokeSent, Notify, Finish, SetNext
<1>3. CASE TakeResponse(c) \/ TakeError(c) \/ CtxDone(c) \/ ErrorInBody(c) \/ TruncatedBodyEnds(c)
  BY <1>1, <1>3 DEF TakeResponse, TakeError, CtxDone, ErrorInBody, TruncatedBodyEnds, SetNext
<1>4. CASE \/ \E i \in Ids : Invoke(c, i)
           \/ \E w \in Causes \ {"live"} : CtxEnds(c, w)
           \/ \E e \in Causes \cup {"unknown"} : InvokeNotSent(c, e)
           \/ \E e \in Errors : BodyEnds(c, e)
  BY <1>1, <1>4 DEF Invoke, CtxEnds, InvokeNotSent, BodyEnds, SetNext
<1> QED
  BY <1>2, <1>3, <1>4 DEF CallQuiet

\* Fields of a post that goes on, is answered, or finds a RunningInvoke.
Replied(r, st) == [r EXCEPT !.pc = "done", !.status = st]
Goes(r, p)     == [r EXCEPT !.pc = p]
Finds(r, n)    == [r EXCEPT !.pc = "found", !.run = n]

LEMMA ReqFields ==
    ASSUME NEW r \in ReqOK
    PROVE  /\ \A p : /\ Goes(r, p).pc = p /\ Goes(r, p).run = r.run
                     /\ Goes(r, p).kind = r.kind /\ Goes(r, p).status = r.status
           /\ \A st : /\ Replied(r, st).pc = "done" /\ Replied(r, st).status = st
                      /\ Replied(r, st).run = r.run /\ Replied(r, st).kind = r.kind
           /\ \A n : /\ Finds(r, n).pc = "found" /\ Finds(r, n).status = r.status
                     /\ Finds(r, n).run = n /\ Finds(r, n).kind = r.kind
<1>1. CASE r \in ResponseRecs
  BY <1>1 DEF ResponseRecs, Goes, Replied, Finds
<1>2. CASE r \in ErrorRecs
  BY <1>2 DEF ErrorRecs, Goes, Replied, Finds
<1> QED
  BY <1>1, <1>2 DEF ReqOK

LEMMA ReqReach ==
    ASSUME ProcessOK, NEW q \in Reqs, ReqQuiet(q)
    PROVE  /\ \A n \in Nexts : n # req[q].run => next'[n] = next[n]
           /\ \A p \in Reqs : p # q => req'[p] = req[p]
           /\ req'[q].run \in {req[q].run, None} \cup {running[i] : i \in Ids}
           /\ UNCHANGED <<running, call>>
<1>1. DOMAIN next = Nexts /\ DOMAIN req = Reqs /\ req[q] \in ReqOK
  BY DEF ProcessOK
<1>2. CASE ResponseSwap(q) \/ ResponsePush(q) \/ ErrorPush(q) \/ Await(q)
  <2>1. /\ UNCHANGED <<running, call>>
        /\ next' = next \/ \E m : SetNext(req[q].run, m)
        /\ \/ \E st : Reply(q, st)
           \/ \E p : SetReq(q, Goes(req[q], p))
    BY <1>2 DEF ResponseSwap, ResponsePush, ErrorPush, Await, Goes
  <2>2. \A n \in Nexts : n # req[q].run => next'[n] = next[n]
    BY <1>1, <2>1 DEF SetNext
  <2>3. /\ \A p \in Reqs : p # q => req'[p] = req[p]
        /\ \/ \E st : req'[q] = Replied(req[q], st)
           \/ \E p : req'[q] = Goes(req[q], p)
    BY <1>1, <2>1, Zenon DEF Reply, SetReq, Replied
  <2>4. req'[q].run = req[q].run
    BY <1>1, <2>3, ReqFields
  <2> QED
    BY <2>1, <2>2, <2>3, <2>4
<1>3. CASE Lookup(q)
  <2>1. req[q].id \in Ids /\ UNCHANGED <<running, call, next>>
    BY <1>1, <1>3 DEF Lookup, ReqOK
  <2>2. \/ \E st : Reply(q, st)
        \/ SetReq(q, Finds(req[q], running[req[q].id]))
    BY <1>3 DEF Lookup, Finds
  <2>3. /\ \A p \in Reqs : p # q => req'[p] = req[p]
        /\ \/ \E st : req'[q] = Replied(req[q], st)
           \/ req'[q] = Finds(req[q], running[req[q].id])
    BY <1>1, <2>2, Zenon DEF Reply, SetReq, Replied
  <2>4. req'[q].run \in {req[q].run, running[req[q].id]}
    BY <1>1, <2>3, ReqFields
  <2> QED
    BY <2>1, <2>3, <2>4
<1>4. CASE \E n \in Nexts, k \in {"response", "error"}, echoes \in BOOLEAN, valid \in BOOLEAN :
               Post(q, n, k, echoes, valid)
  BY <1>1, <1>4 DEF Post, SetReq, NewReq
<1> QED
  BY <1>2, <1>3, <1>4 DEF ReqQuiet

LEMMA TouchStep ==
    ASSUME TouchInv, PoolFrame,
           \A n \in Nexts : ~ Admitted(n) => next'[n] = next[n],
           \A i \in Ids : running'[i] \in Nexts => running'[i] = running[i] \/ Admitted(running'[i]),
           \A q \in Reqs : req'[q].run \in Nexts => req'[q].run = req[q].run \/ Admitted(req'[q].run)
    PROVE  TouchInv'
<1>1. \A n \in Nexts : Admitted(n)' \/ Untouched(n)'
  BY DEF TouchInv, PoolFrame, Untouched
<1>2. \A i \in Ids : running'[i] \in Nexts => Admitted(running'[i])
  BY DEF TouchInv
<1>3. \A q \in Reqs : req'[q].run \in Nexts => Admitted(req'[q].run)
  BY DEF TouchInv
<1>4. \A n \in Nexts : Admitted(n) => Admitted(n)'
  BY DEF PoolFrame
<1> QED
  BY <1>1, <1>2, <1>3, <1>4 DEF TouchInv, Admitted

LEMMA StepTouchInv ==
    ASSUME RouterInv, TouchInv, [Next]_vars
    PROVE  TouchInv'
<1>1. \A c \in Calls : call[c].run \in Nexts => Admitted(call[c].run)
  BY DEF RouterInv, PoolInv, Given
<1>2. CASE \E c \in Calls : CallQuiet(c)
  <2>1. PICK c \in Calls : CallQuiet(c)
    BY <1>2
  <2>2. /\ \A n \in Nexts : n # call[c].run => next'[n] = next[n]
        /\ \A i \in Ids : running'[i] \in {running[i], Absent, Nil, call[c].run}
        /\ req' = req /\ PoolFrame
    BY <2>1, CallReach, CallQuietKeeps DEF RouterInv, Typed
  <2> QED
    BY <1>1, <2>2, TouchStep, Numbers
<1>3. CASE \E q \in Reqs : ReqQuiet(q)
  <2>1. PICK q \in Reqs : ReqQuiet(q)
    BY <1>3
  <2>2. /\ \A n \in Nexts : n # req[q].run => next'[n] = next[n]
        /\ \A p \in Reqs : p # q => req'[p] = req[p]
        /\ req'[q].run \in {req[q].run, None} \cup {running[i] : i \in Ids}
        /\ running' = running /\ PoolFrame
    BY <2>1, ReqReach, ReqQuietKeeps DEF RouterInv, Typed
  <2>3. req'[q].run \in Nexts => req'[q].run = req[q].run \/ Admitted(req'[q].run)
    BY <2>2, Numbers DEF TouchInv
  <2> QED
    BY <2>2, <2>3, TouchStep DEF TouchInv
<1>4. CASE \E n \in Nexts : WorkerGone(n)
  <2>1. PICK n \in Nexts : WorkerGone(n)
    BY <1>4
  <2>2. Admitted(n) /\ PoolFrame
    BY <2>1, WorkerGoneKeeps DEF WorkerGone, Admitted, RouterInv, Typed
  <2>3. /\ \A m \in Nexts : m # n => next'[m] = next[m]
        /\ running' = running /\ req' = req
    BY <2>1 DEF WorkerGone, SetNext, RouterInv, Typed, ProcessOK
  <2> QED
    BY <2>2, <2>3, TouchStep
<1>5. CASE AbortRunningInvokes
  <2>1. PoolFrame
    BY <1>5, AbortKeeps DEF RouterInv, Typed
  <2>2. /\ \A n \in Nexts : ~ Admitted(n) => next'[n] = next[n]
        /\ running' = running /\ req' = req
    BY <1>5 DEF AbortRunningInvokes, TouchInv
  <2> QED
    BY <2>1, <2>2, TouchStep
<1>6. CASE \E n \in Nexts : RuntimeNext(n)
  <2>1. PICK n \in Nexts : RuntimeNext(n)
    BY <1>6
  <2>2. ~ Admitted(n)
    BY <2>1 DEF RuntimeNext, Fresh, RouterInv, Typed, ProcessOK, NextRecs, Admitted
  <2>3. PICK p \in {"parked", "refused"} : next' = [next EXCEPT ![n] = [NewNext EXCEPT !.pc = p]]
    BY <2>1 DEF RuntimeNext, SetNext
  <2>4. /\ next'[n] = [NewNext EXCEPT !.pc = p]
        /\ \A m \in Nexts : m # n => next'[m] = next[m]
    BY <2>3 DEF RouterInv, Typed, ProcessOK
  <2>5. Untouched(n)'
    BY <2>4 DEF Untouched, NewNext
  <2>6. \A m \in Nexts : m # n => Admitted(m)' = Admitted(m) /\ Untouched(m)' = Untouched(m)
    BY <2>4 DEF Admitted, Untouched
  <2>7. running' = running /\ req' = req
    BY <2>1 DEF RuntimeNext
  <2> QED
    BY <2>2, <2>5, <2>6, <2>7 DEF TouchInv
<1>7. CASE \/ InvokesAborted
           \/ \E t \in Timers : TimerFires(t) \/ OnExpire(t)
           \/ \E i \in Ids : ReserveCheck(i) \/ ReserveIdleRuntime(i)
           \/ UNCHANGED vars
  <2>1. UNCHANGED <<next, running, req>>
    BY <1>7 DEF InvokesAborted, TimerFires, OnExpire, ReserveCheck, ReserveIdleRuntime, vars
  <2> QED
    BY <2>1 DEF TouchInv, Admitted, Untouched
<1>8. CASE \E c \in Calls : Acquire(c)
  <2>1. UNCHANGED <<next, req>> /\ \A i \in Ids : running'[i] \in {running[i], Absent}
    BY <1>8 DEF Acquire, RouterInv, Typed, ProcessOK
  <2> QED
    BY <2>1, Numbers DEF TouchInv, Admitted, Untouched
<1> QED
  BY <1>2, <1>3, <1>4, <1>5, <1>6, <1>7, <1>8, NextIs

\* A call that was answered stays so; one that reads a /response, or has read it to its end, has
\* its handler waiting.
CallAdvances(d) ==
    /\ call[d].answers = 1 =>
           /\ call'[d].run = call[d].run /\ call'[d].err = call[d].err
           /\ call'[d].from = call[d].from /\ call'[d].answers = 1
           /\ call[d].pc \in {"unwinding", "done"} => call'[d].pc \in {"unwinding", "done"}
    /\ call'[d].pc = "body" \/ (call'[d].pc = "notifying" /\ call'[d].err = "nil")
           => Awaits(call'[d].from, call'[d].run)

LEMMA LiveRuns ==
    ASSUME ProcessOK, NEW q \in Reqs, Live(q) \/ req[q].pc = "await"
    PROVE  req[q].run \in Nexts
BY DEF ProcessOK, ReqOK, Live

LEMMA ToldAnswers ==
    ASSUME ProcessOK, NEW c \in Calls, NEW n, Told(c, n)
    PROVE  call[c].answers = 1
BY DEF ProcessOK, CallOK, Told

\* Steps of the calls that tell no worker anything.
LEMMA CallsKeepAnswers ==
    ASSUME ProcessOK, AnswerInv, req' = req,
           \A d \in Calls : CallAdvances(d),
           \A n \in Nexts : /\ next'[n].state = next[n].state \/ next'[n].state # "noResponse"
                            /\ next'[n].response \in {next[n].response, None}
                            /\ next'[n].responseSent = next[n].responseSent
                            /\ next'[n].errorSent = next[n].errorSent
    PROVE  AnswerInv'
<1>1. /\ \A q \in Reqs : Live(q)' = Live(q)
      /\ \A q, n : Awaits(q, n)' = Awaits(q, n)
      /\ \A n : Settled(n) => Settled(n)'
  BY DEF Live, Awaits, Settled, CallAdvances
<1>2. RightInv'
  BY <1>1, LiveRuns DEF AnswerInv, RightInv
<1>3. \A c \in Calls, n \in Nexts : Told(c, n) =>
          /\ Told(c, n)' /\ call'[c].err = call[c].err /\ call'[c].from = call[c].from
  BY ToldAnswers DEF CallAdvances, Told
<1>4. SentInv'
  <2>1. \A n \in Nexts : next'[n].response # None =>
           /\ req[next'[n].response].kind = "response" /\ req[next'[n].response].run = n
           /\ \/ req[next'[n].response].pc = "await"
              \/ req[next'[n].response].pc = "done" /\ Settled(n)'
    BY <1>1 DEF AnswerInv, SentInv
  <2>2. \A n \in Nexts : next'[n].responseSent # "empty" =>
           \E c \in Calls : /\ Told(c, n)' /\ call'[c].err = next'[n].responseSent
                            /\ call'[c].err = "nil" => Awaits(call'[c].from, n)
    BY <1>3 DEF AnswerInv, SentInv
  <2>3. \A n \in Nexts : next'[n].errorSent # "empty" =>
           \E c \in Calls : Told(c, n)' /\ call'[c].err = next'[n].errorSent
    BY <1>3 DEF AnswerInv, SentInv
  <2> QED
    BY <1>1, <2>1, <2>2, <2>3 DEF SentInv, CallAdvances
<1>5. AcceptedIsAnswer'
  BY DEF AnswerInv, AcceptedIsAnswer, CallAdvances
<1> QED
  BY <1>2, <1>4, <1>5 DEF AnswerInv

\* Steps of a post whose handler does not wait yet.
LEMMA PostKeepsAnswers ==
    ASSUME ProcessOK, AnswerInv, NEW q \in Reqs, call' = call,
           req[q].pc \notin {"await", "done"}, req'[q].status # "accepted",
           \A p \in Reqs : p # q => req'[p] = req[p],
           \A n \in Nexts : /\ next'[n].response = next[n].response
                                 \/ (next'[n].response = q /\ Awaits(q, n)')
                            /\ next'[n].responseSent = next[n].responseSent
                            /\ next'[n].errorSent = next[n].errorSent,
           RightInv', next \in [Nexts -> NextRecs]
    PROVE  AnswerInv'
<1>1. /\ \A p, n : Awaits(p, n) => Awaits(p, n)'
      /\ \A n : Settled(n)' = Settled(n)
      /\ \A c, n : Told(c, n)' = Told(c, n)
  BY DEF Awaits, Settled, Told
<1>2. SentInv'
  <2>1. ASSUME NEW n \in Nexts, next'[n].response # None
        PROVE  /\ req'[next'[n].response].kind = "response" /\ req'[next'[n].response].run = n
               /\ \/ req'[next'[n].response].pc = "await"
                  \/ req'[next'[n].response].pc = "done" /\ Settled(n)'
    <3>1. CASE next'[n].response = q /\ Awaits(q, n)'
      BY <3>1 DEF Awaits
    <3>2. CASE next'[n].response = next[n].response
      <4>1. next[n].response \in Reqs
        BY <2>1, <3>2 DEF NextRecs
      <4>2. next[n].response # q
        BY <2>1, <3>2 DEF AnswerInv, SentInv
      <4> QED
        BY <1>1, <2>1, <3>2, <4>1, <4>2 DEF AnswerInv, SentInv
    <3> QED
      BY <3>1, <3>2
  <2>2. \A c \in Calls : call'[c].pc = "body" \/ (call'[c].pc = "notifying" /\ call'[c].err = "nil")
                            => Awaits(call[c].from, call[c].run)'
    BY <1>1 DEF AnswerInv, SentInv
  <2>3. \A n \in Nexts : next'[n].responseSent # "empty" =>
           \E c \in Calls : /\ Told(c, n)' /\ call'[c].err = next'[n].responseSent
                            /\ call'[c].err = "nil" => Awaits(call[c].from, n)'
    BY <1>1 DEF AnswerInv, SentInv
  <2>4. \A n \in Nexts : next'[n].errorSent # "empty" =>
           \E c \in Calls : Told(c, n)' /\ call'[c].err = next'[n].errorSent
    BY <1>1 DEF AnswerInv, SentInv
  <2> QED
    BY <2>1, <2>2, <2>3, <2>4 DEF SentInv
<1>3. AcceptedIsAnswer'
  BY DEF AnswerInv, AcceptedIsAnswer
<1> QED
  BY <1>2, <1>3 DEF AnswerInv

\* A RunningInvoke whose channels to the handlers are left as they are.
SameSent(r, s) == r.responseSent = s.responseSent /\ r.errorSent = s.errorSent
SameChannels(r, s) == r.state = s.state /\ r.response = s.response /\ SameSent(r, s)

LEMMA WaitChannels ==
    ASSUME NEW r \in NextRecs
    PROVE  SameChannels(RuntimeNextWait(r), r)
BY DEF RuntimeNextWait, NextRecs, SameChannels, SameSent

LEMMA OneCall ==
    ASSUME ProcessOK, AnswerInv, NEW c \in Calls, req' = req,
           \A d \in Calls : d # c => call'[d] = call[d], CallAdvances(c),
           \A n \in Nexts : n # call[c].run => next'[n] = next[n],
           call[c].run \in Nexts =>
               /\ \/ next'[call[c].run].state = next[call[c].run].state
                  \/ next'[call[c].run].state # "noResponse"
               /\ next'[call[c].run].response \in {next[call[c].run].response, None}
               /\ SameSent(next'[call[c].run], next[call[c].run])
    PROVE  AnswerInv'
<1>1. \A d \in Calls : CallAdvances(d)
  <2> SUFFICES ASSUME NEW d \in Calls, d # c PROVE CallAdvances(d)
    OBVIOUS
  <2>1. call'[d] = call[d]
    OBVIOUS
  <2> QED
    BY <2>1 DEF CallAdvances, AnswerInv, SentInv
<1> QED
  BY <1>1, CallsKeepAnswers DEF SameSent

\* The invoke is not answered yet, and goes on.
LEMMA EarlySteps ==
    ASSUME RouterInv, AnswerInv, NEW c \in Calls,
           \/ Store(c) \/ RunInvoke(c) \/ InvokeSent(c) \/ ErrorInBody(c)
           \/ \E i \in Ids : Invoke(c, i)
           \/ \E w \in Causes \ {"live"} : CtxEnds(c, w)
    PROVE  AnswerInv'
<1> DEFINE n == call[c].run
<1>1. ProcessOK /\ call[c] \in CallOK /\ DOMAIN call = Calls /\ CallQuiet(c)
  BY DEF RouterInv, Typed, ProcessOK, CallQuiet
<1>2. call[c].answers = 0
  BY <1>1 DEF CallOK, CallRecs, CallStates, Store, RunInvoke, InvokeSent, ErrorInBody, Invoke, CtxEnds, Fresh
<1>3. /\ \A d \in Calls : d # c => call'[d] = call[d]
      /\ call'[c].pc \notin {"body", "notifying"}
  <2>1. CASE Store(c) \/ RunInvoke(c) \/ InvokeSent(c) \/ ErrorInBody(c)
    BY <1>1, <2>1, ZenonT(60) DEF Store, RunInvoke, InvokeSent, ErrorInBody, SetCall, CallOK, CallRecs
  <2>2. CASE \E i \in Ids : Invoke(c, i)
    BY <1>1, <2>2, ZenonT(60) DEF Invoke, SetCall, NewCall
  <2>3. CASE \E w \in Causes \ {"live"} : CtxEnds(c, w)
    BY <1>1, <2>3 DEF CtxEnds, SetCall, CallOK, CallRecs
  <2> QED
    BY <2>1, <2>2, <2>3
<1>4. CallAdvances(c)
  BY <1>2, <1>3 DEF CallAdvances
<1>5. ASSUME n \in Nexts PROVE SameChannels(next'[n], next[n])
  <2>1. next[n] \in NextRecs /\ DOMAIN next = Nexts
    BY <1>1, <1>5 DEF ProcessOK
  <2>2. CASE UNCHANGED next
    BY <2>2 DEF SameChannels, SameSent
  <2>3. CASE RunInvoke(c)
    <3>1. PICK g : next'[n] = [next[n] EXCEPT !.iid = c, !.got = g]
      BY <1>5, <2>1, <2>3 DEF RunInvoke, SetNext
    <3> QED
      BY <2>1, <3>1 DEF NextRecs, SameChannels, SameSent
  <2>4. CASE ErrorInBody(c)
    BY <1>5, <2>1, <2>4 DEF ErrorInBody, SetNext, NextRecs, SameChannels, SameSent
  <2>5. CASE InvokeSent(c)
    <3> DEFINE m == [next[n] EXCEPT !.sent = TRUE]
    <3>1. \A b \in BOOLEAN : /\ [next[n] EXCEPT !.sent = b] \in NextRecs
                             /\ SameChannels([next[n] EXCEPT !.sent = b], next[n])
      BY <2>1 DEF NextRecs, SameChannels, SameSent
    <3>2. m \in NextRecs /\ SameChannels(m, next[n])
      BY <3>1
    <3>3. next'[n] = RuntimeNextWait(m)
      BY <1>5, <2>1, <2>5 DEF InvokeSent, SetNext
    <3> HIDE DEF m
    <3> QED
      BY <3>2, <3>3, WaitChannels DEF SameChannels, SameSent
  <2> QED
    BY <2>2, <2>3, <2>4, <2>5 DEF Store, Invoke, CtxEnds
<1> QED
  BY <1>1, <1>3, <1>4, <1>5, CallReach, OneCall DEF SameChannels

\* The invoker is answered.
LEMMA AnswerSteps ==
    ASSUME RouterInv, AnswerInv, NEW c \in Calls,
           \/ TakeError(c) \/ CtxDone(c) \/ TruncatedBodyEnds(c)
           \/ \E e \in Errors : BodyEnds(c, e)
           \/ \E e \in Causes \cup {"unknown"} : InvokeNotSent(c, e)
           \/ TakeResponse(c) /\ ~ req[next[call[c].run].response].valid
    PROVE  AnswerInv'
<1> DEFINE n == call[c].run
<1>1. ProcessOK /\ call[c] \in CallOK /\ DOMAIN call = Calls /\ CallQuiet(c)
  BY DEF RouterInv, Typed, ProcessOK, CallQuiet
<1>2. call[c].pc \in {"sending", "waiting", "body", "truncating"} /\ n \in Nexts
  BY <1>1 DEF TakeError, CtxDone, TruncatedBodyEnds, BodyEnds, InvokeNotSent, TakeResponse, CallOK, CallRecs
<1>3. next[n] \in NextRecs /\ DOMAIN next = Nexts
  BY <1>1, <1>2 DEF ProcessOK
<1>4. PICK p \in {"notifying", "unwinding"}, e \in Errors, q \in Reqs \cup {None} :
        /\ Answered(c, p, e, q)
        /\ p = "notifying" /\ e = "nil" => Awaits(q, n)
  <2>1. CASE TakeError(c)
    BY <1>3, <2>1 DEF TakeError, NextRecs, Errors
  <2>2. CASE CtxDone(c)
    BY <1>1, <2>2 DEF CtxDone, Errors, CallOK, CallRecs, Causes
  <2>3. CASE TruncatedBodyEnds(c)
    BY <1>1, <2>3 DEF TruncatedBodyEnds, Errors, CallOK, CallRecs
  <2>4. CASE \E e \in Errors : BodyEnds(c, e)
    BY <1>1, <2>4 DEF BodyEnds, CallOK, CallRecs, AnswerInv, SentInv
  <2>5. CASE \E e \in Causes \cup {"unknown"} : InvokeNotSent(c, e)
    BY <2>5 DEF InvokeNotSent, Errors
  <2>6. CASE TakeResponse(c) /\ ~ req[next[n].response].valid
    BY <1>3, <2>6 DEF TakeResponse, Errors, NextRecs
  <2> QED
    BY <2>1, <2>2, <2>3, <2>4, <2>5, <2>6
<1>5. call' = [call EXCEPT ![c] = AnswerOf(call[c], p, e, q)]
  BY <1>4 DEF Answered, SetCall, AnswerOf
<1>6. /\ AnswerOf(call[c], p, e, q).run = n /\ AnswerOf(call[c], p, e, q).pc = p
      /\ AnswerOf(call[c], p, e, q).err = e /\ AnswerOf(call[c], p, e, q).from = q
  BY <1>1, <1>2, AnswerOK
<1>7. /\ \A d \in Calls : d # c => call'[d] = call[d]
      /\ call'[c].run = n /\ call'[c].pc = p /\ call'[c].err = e /\ call'[c].from = q
  BY <1>1, <1>5, <1>6
<1>8. call[c].answers = 0
  BY <1>1, <1>2 DEF CallOK
<1>9. CallAdvances(c)
  BY <1>4, <1>7, <1>8 DEF CallAdvances
<1>10. /\ next'[n].state = next[n].state \/ next'[n].state # "noResponse"
       /\ next'[n].response \in {next[n].response, None}
       /\ SameSent(next'[n], next[n])
  <2>1. CASE TakeError(c) \/ CtxDone(c)
    BY <1>2, <1>3, <2>1 DEF TakeError, CtxDone, SetNext, NextRecs, SameSent
  <2>2. CASE TruncatedBodyEnds(c) \/ \E f \in Errors : BodyEnds(c, f)
    BY <2>2 DEF TruncatedBodyEnds, BodyEnds, SameSent
  <2>3. CASE \E f \in Causes \cup {"unknown"} : InvokeNotSent(c, f)
    <3>1. PICK f \in Causes \cup {"unknown"} : InvokeNotSent(c, f)
      BY <2>3
    <3> DEFINE m == [next[n] EXCEPT !.cancel = IF @ = "live" THEN f ELSE @]
    <3>2. m \in NextRecs /\ SameChannels(m, next[n])
      BY <1>3 DEF NextRecs, SameChannels, SameSent
    <3>3. next'[n] = RuntimeNextWait(m)
      BY <1>2, <1>3, <3>1 DEF InvokeNotSent, SetNext
    <3> HIDE DEF m
    <3> QED
      BY <3>2, <3>3, WaitChannels DEF SameChannels, SameSent
  <2>4. CASE TakeResponse(c) /\ ~ req[next[n].response].valid
    <3>1. next' = [next EXCEPT ![n] = [next[n] EXCEPT !.response = None, !.state = "gotError"]]
      BY <2>4, Zenon DEF TakeResponse, SetNext
    <3> QED
      BY <1>2, <1>3, <3>1 DEF NextRecs, SameSent
  <2> QED
    BY <2>1, <2>2, <2>3, <2>4
<1> QED
  BY <1>1, <1>7, <1>9, <1>10, CallReach, OneCall

\* The invoke begins to read the /response: its handler waits, since no other invoke was given
\* this worker.
LEMMA TakeResponseKeepsAnswers ==
    ASSUME RouterInv, AnswerInv, NEW c \in Calls, TakeResponse(c), req[next[call[c].run].response].valid
    PROVE  AnswerInv'
<1> DEFINE n == call[c].run
           q == next[n].response
<1>1. ProcessOK /\ call[c] \in CallOK /\ DOMAIN call = Calls /\ CallQuiet(c)
  BY DEF RouterInv, Typed, ProcessOK, CallQuiet
<1>2. call[c].pc = "waiting" /\ q # None
  BY DEF TakeResponse
<1>3. n \in Nexts /\ call[c].answers = 0
  BY <1>1, <1>2 DEF CallOK, CallRecs
<1>4. next[n] \in NextRecs /\ DOMAIN next = Nexts
  BY <1>1, <1>3 DEF ProcessOK
<1>5. q \in Reqs
  BY <1>2, <1>4 DEF NextRecs
<1>6. ~ Settled(n)
  BY <1>3, Numbers DEF Settled, RouterInv, PoolInv
<1>7. Awaits(q, n)
  BY <1>2, <1>3, <1>5, <1>6 DEF AnswerInv, SentInv, Awaits
<1>8. /\ call' = [call EXCEPT ![c] = [call[c] EXCEPT !.pc = "body", !.from = q]]
      /\ next' = [next EXCEPT ![n] = [next[n] EXCEPT !.response = None]]
  BY Zenon DEF TakeResponse, SetCall, SetNext
<1>9. /\ \A d \in Calls : d # c => call'[d] = call[d]
      /\ call'[c].run = n /\ call'[c].from = q
  BY <1>1, <1>8 DEF CallOK, CallRecs
<1>10. CallAdvances(c)
  BY <1>3, <1>7, <1>9 DEF CallAdvances
<1>11. /\ next'[n].state = next[n].state
       /\ next'[n].response = None
       /\ SameSent(next'[n], next[n])
  BY <1>3, <1>4, <1>8 DEF NextRecs, SameSent
<1> QED
  BY <1>1, <1>9, <1>10, <1>11, CallReach, OneCall

LEMMA FinishKeepsAnswers ==
    ASSUME RouterInv, AnswerInv, NEW c \in Calls, Finish(c)
    PROVE  AnswerInv'
<1> DEFINE n == call[c].run
           m == [next[n] EXCEPT !.cancel = IF @ = "live" THEN "ended" ELSE @]
<1>1. ProcessOK /\ call[c] \in CallOK /\ DOMAIN call = Calls /\ CallQuiet(c)
  BY DEF RouterInv, Typed, ProcessOK, CallQuiet
<1>2. n \in Nexts /\ call[c].answers = 1
  BY <1>1 DEF CallOK, CallRecs, Finish
<1>3. next[n] \in NextRecs /\ DOMAIN next = Nexts
  BY <1>1, <1>2 DEF ProcessOK
<1>4. call' = [call EXCEPT ![c] = [call[c] EXCEPT !.pc = "done"]]
  BY DEF Finish, SetCall
<1>5. /\ \A d \in Calls : d # c => call'[d] = call[d]
      /\ call'[c].run = n /\ call'[c].from = call[c].from /\ call'[c].err = call[c].err
      /\ call'[c].answers = 1 /\ call'[c].pc = "done"
  BY <1>1, <1>2, <1>4 DEF CallOK, CallRecs
<1>6. CallAdvances(c)
  BY <1>2, <1>5 DEF CallAdvances
<1>7. m \in NextRecs /\ SameChannels(m, next[n])
  BY <1>3 DEF NextRecs, SameChannels, SameSent
<1>8. next'[n] = RuntimeNextWait(m)
  BY <1>2, <1>3 DEF Finish, SetNext
<1> HIDE DEF m
<1>9. SameChannels(next'[n], next[n])
  BY <1>7, <1>8, WaitChannels DEF SameChannels, SameSent
<1> QED
  BY <1>1, <1>5, <1>6, <1>9, CallReach, OneCall DEF SameChannels

\* The handlers of the worker are told what the invoker was answered with.
LEMMA NotifyKeepsAnswers ==
    ASSUME RouterInv, AnswerInv, NEW c \in Calls, Notify(c)
    PROVE  AnswerInv'
<1>1. ProcessOK /\ call[c] \in CallOK /\ DOMAIN call = Calls /\ CallQuiet(c)
  BY DEF RouterInv, Typed, ProcessOK, CallQuiet
<1> PICK n \in Nexts : n = call[c].run
  BY <1>1 DEF CallOK, CallRecs, Notify
<1>2. n \in Nexts /\ call[c].answers = 1 /\ call[c].pc = "notifying"
  BY <1>1 DEF CallOK, CallRecs, Notify
<1>3. next[n] \in NextRecs /\ DOMAIN next = Nexts
  BY <1>1, <1>2 DEF ProcessOK
<1>4. /\ call' = [call EXCEPT ![c] = [call[c] EXCEPT !.pc = "unwinding"]]
      /\ next' = [next EXCEPT ![n] = [next[n] EXCEPT !.responseSent = call[c].err, !.errorSent = call[c].err]]
      /\ req' = req
  BY DEF Notify, SetCall, SetNext
<1>5. /\ \A d \in Calls : d # c => call'[d] = call[d]
      /\ call'[c].run = n /\ call'[c].from = call[c].from /\ call'[c].err = call[c].err
      /\ call'[c].answers = 1 /\ call'[c].pc = "unwinding"
  BY <1>1, <1>2, <1>4 DEF CallOK, CallRecs
<1>6. /\ \A m \in Nexts : m # n => next'[m] = next[m]
      /\ next'[n].state = next[n].state /\ next'[n].response = next[n].response
      /\ next'[n].responseSent = call[c].err /\ next'[n].errorSent = call[c].err
  BY <1>2, <1>3, <1>4 DEF NextRecs
<1>7. /\ \A q \in Reqs : Live(q)' = Live(q)
      /\ \A q, m : Awaits(q, m)' = Awaits(q, m)
      /\ \A m : Settled(m) => Settled(m)'
      /\ \A d \in Calls : \A m : Told(d, m) => Told(d, m)' /\ call'[d] = call[d]
  BY <1>2, <1>4, <1>5 DEF Live, Awaits, Settled, Told
<1>8. RightInv'
  BY <1>1, <1>4, <1>6, <1>7, LiveRuns DEF AnswerInv, RightInv
<1>9. SentInv'
  <2>1. \A m \in Nexts : next'[m].response # None =>
           /\ req[next'[m].response].kind = "response" /\ req[next'[m].response].run = m
           /\ \/ req[next'[m].response].pc = "await"
              \/ req[next'[m].response].pc = "done" /\ Settled(m)'
    BY <1>6, <1>7 DEF AnswerInv, SentInv
  <2>2. \A d \in Calls : call'[d].pc = "body" \/ (call'[d].pc = "notifying" /\ call'[d].err = "nil")
                            => Awaits(call'[d].from, call'[d].run)
    BY <1>5 DEF AnswerInv, SentInv
  <2>3. /\ Told(c, n)' /\ call'[c].err = next'[n].responseSent /\ call'[c].err = next'[n].errorSent
        /\ call'[c].err = "nil" => Awaits(call'[c].from, n)
    BY <1>2, <1>5, <1>6 DEF Told, AnswerInv, SentInv
  <2>4. \A m \in Nexts : (next[m].responseSent # "empty" =>
           \E d \in Calls : /\ Told(d, m) /\ call[d].err = next[m].responseSent
                            /\ call[d].err = "nil" => Awaits(call[d].from, m))'
    <3> SUFFICES ASSUME NEW m \in Nexts, next'[m].responseSent # "empty"
                 PROVE  \E d \in Calls : /\ Told(d, m)' /\ call'[d].err = next'[m].responseSent
                                         /\ call'[d].err = "nil" => Awaits(call[d].from, m)'
      OBVIOUS
    <3>1. CASE m = n
      <4>1. /\ Told(c, m)' /\ call'[c].err = next'[m].responseSent
            /\ call'[c].err = "nil" => Awaits(call[c].from, m)'
        BY <1>4, <2>3, <3>1 DEF Awaits
      <4> QED
        BY <4>1
    <3>2. CASE m # n
      <4>1. next'[m] = next[m]
        BY <1>6, <3>2
      <4>2. PICK d \in Calls : /\ Told(d, m) /\ call[d].err = next[m].responseSent
                               /\ call[d].err = "nil" => Awaits(call[d].from, m)
        BY <4>1 DEF AnswerInv, SentInv
      <4>3. /\ Told(d, m)' /\ call'[d].err = next'[m].responseSent
            /\ call'[d].err = "nil" => Awaits(call[d].from, m)'
        BY <1>7, <4>1, <4>2
      <4> QED
        BY <4>3
    <3> QED
      BY <3>1, <3>2
  <2>5. \A m \in Nexts : (next[m].errorSent # "empty" =>
           \E d \in Calls : Told(d, m) /\ call[d].err = next[m].errorSent)'
    <3> SUFFICES ASSUME NEW m \in Nexts, next'[m].errorSent # "empty"
                 PROVE  \E d \in Calls : Told(d, m)' /\ call'[d].err = next'[m].errorSent
      OBVIOUS
    <3>1. CASE m = n
      BY <2>3, <3>1
    <3>2. CASE m # n
      <4>1. next'[m] = next[m]
        BY <1>6, <3>2
      <4>2. PICK d \in Calls : Told(d, m) /\ call[d].err = next[m].errorSent
        BY <4>1 DEF AnswerInv, SentInv
      <4> QED
        BY <1>7, <4>1, <4>2
    <3> QED
      BY <3>1, <3>2
  <2>6. req' = req
    BY <1>4
  <2>7. \A d \in Calls : (call[d].pc = "body" \/ (call[d].pc = "notifying" /\ call[d].err = "nil")
                            => Awaits(call[d].from, call[d].run))'
    BY <2>2, <2>6 DEF Awaits
  <2> QED
    BY <2>1, <2>4, <2>5, <2>6, <2>7 DEF SentInv
<1>10. AcceptedIsAnswer'
  BY <1>4, <1>5 DEF AnswerInv, AcceptedIsAnswer
<1> QED
  BY <1>8, <1>9, <1>10 DEF AnswerInv

\* A post that does not have the right to answer, before its handler waits.
LEMMA ReqEarlySteps ==
    ASSUME RouterInv, AnswerInv, NEW q \in Reqs, ReqQuiet(q), ~ Live(q), req[q].pc # "await", ~ Live(q)',
           req'[q].status # "accepted", req[q].pc # "done",
           \A n \in Nexts : /\ next'[n].state = next[n].state \/ next'[n].state # "noResponse"
                            /\ next'[n].response = next[n].response /\ SameSent(next'[n], next[n])
    PROVE  AnswerInv'
<1>1. ProcessOK /\ \A p \in Reqs : p # q => req'[p] = req[p]
  BY ReqReach DEF RouterInv, Typed
<1>2. \A p \in Reqs : p # q => Live(p)' = Live(p)
  BY <1>1 DEF Live
<1>3. RightInv'
  <2>1. \A p \in Reqs : Live(p)' => Live(p) /\ req'[p] = req[p] /\ req[p].run \in Nexts
    BY <1>1, <1>2, LiveRuns
  <2> QED
    BY <2>1 DEF AnswerInv, RightInv
<1>4. call' = call /\ next \in [Nexts -> NextRecs]
  BY <1>1, ReqReach DEF ProcessOK
<1> QED
  BY <1>1, <1>3, <1>4, PostKeepsAnswers DEF SameSent

LEMMA LookupAndPostKeepAnswers ==
    ASSUME RouterInv, AnswerInv, NEW q \in Reqs,
           \/ Lookup(q)
           \/ \E n \in Nexts, k \in {"response", "error"}, echoes \in BOOLEAN, valid \in BOOLEAN :
                  (valid \/ k = "response") /\ Post(q, n, k, echoes, valid)
    PROVE  AnswerInv'
<1>1. ProcessOK /\ req[q] \in ReqOK /\ DOMAIN req = Reqs /\ ReqQuiet(q)
  BY DEF RouterInv, Typed, ProcessOK, ReqQuiet
<1>2. UNCHANGED next
  BY DEF Lookup, Post
<1>3. CASE Lookup(q)
  <2>1. /\ req[q].pc = "lookup"
        /\ \/ \E st \in {"timeout", "invalidRequestID", "panic"} : req' = [req EXCEPT ![q] = Replied(req[q], st)]
           \/ req' = [req EXCEPT ![q] = Finds(req[q], running[req[q].id])]
    BY <1>3 DEF Lookup, Reply, SetReq, Replied, Finds
  <2>2. req'[q].pc \in {"done", "found"} /\ (req'[q].status = req[q].status \/ req'[q].status # "accepted")
    BY <1>1, <2>1, ReqFields
  <2>3. req[q].status = "none"
    BY <1>1, <2>1 DEF ReqOK
  <2> QED
    BY <1>1, <1>2, <2>1, <2>2, <2>3, ReqEarlySteps DEF Live, SameSent
<1>4. CASE \E n \in Nexts, k \in {"response", "error"}, echoes \in BOOLEAN, valid \in BOOLEAN :
               Post(q, n, k, echoes, valid)
  <2>1. req[q].pc = "unborn" /\ req'[q].pc = "lookup" /\ req'[q].status = "none"
    <3>1. req[q].pc = "unborn"
      BY <1>1, <1>4 DEF Post, Fresh, ReqOK, ResponseRecs, ErrorRecs
    <3>2. PICK n \in Nexts, k \in {"response", "error"}, echoes \in BOOLEAN, valid \in BOOLEAN :
            Post(q, n, k, echoes, valid)
      BY <1>4
    <3>3. req'[q] = [NewReq EXCEPT !.pc = "lookup", !.kind = k, !.id = call[next[n].got].id,
                                   !.echo = IF echoes THEN next[n].got ELSE None, !.valid = valid]
      BY <1>1, <3>2 DEF Post, SetReq
    <3> QED
      BY <3>1, <3>3 DEF NewReq
  <2> QED
    BY <1>1, <1>2, <2>1, ReqEarlySteps DEF Live, SameSent
<1> QED
  BY <1>3, <1>4

\* The right to answer is taken when nobody has it ...
LEMMA ResponseSwapKeepsAnswers ==
    ASSUME RouterInv, AnswerInv, NEW q \in Reqs, ResponseSwap(q)
    PROVE  AnswerInv'
<1> DEFINE n == req[q].run
<1>1. ProcessOK /\ req[q] \in ReqOK /\ DOMAIN req = Reqs /\ ReqQuiet(q) /\ req[q].pc = "found"
      /\ req[q].status = "none"
  BY DEF RouterInv, Typed, ProcessOK, ReqQuiet, ResponseSwap, ReqOK
<1>2. n \in Nexts
  BY <1>1 DEF ReqOK
<1>3. next[n] \in NextRecs /\ DOMAIN next = Nexts /\ next \in [Nexts -> NextRecs]
  BY <1>1, <1>2 DEF ProcessOK
<1>4. CASE next[n].state # "noResponse"
  <2>1. req' = [req EXCEPT ![q] = Replied(req[q], "invalidRequestID")] /\ UNCHANGED next
    BY <1>4 DEF ResponseSwap, Reply, SetReq, Replied
  <2>2. req'[q].pc = "done" /\ req'[q].status = "invalidRequestID"
    BY <1>1, <2>1, ReqFields
  <2> QED
    BY <1>1, <2>1, <2>2, ReqEarlySteps DEF Live, SameSent
<1>5. CASE next[n].state = "noResponse"
  <2>1. /\ next' = [next EXCEPT ![n] = [next[n] EXCEPT !.state = "gotResponse"]]
        /\ req' = [req EXCEPT ![q] = Goes(req[q], "swapped")] /\ call' = call
    BY <1>5 DEF ResponseSwap, SetReq, SetNext, Goes
  <2>2. /\ req'[q].run = n /\ req'[q].status = "none"
        /\ \A p \in Reqs : p # q => req'[p] = req[p]
    BY <1>1, <2>1, ReqFields
  <2>3. /\ \A m \in Nexts : next'[m].response = next[m].response /\ SameSent(next'[m], next[m])
        /\ next'[n].state = "gotResponse" /\ \A m \in Nexts : m # n => next'[m] = next[m]
    BY <1>2, <1>3, <2>1 DEF NextRecs, SameSent
  <2>4. \A p \in Reqs : p # q => Live(p)' = Live(p)
    BY <2>2 DEF Live
  <2>5. \A p \in Reqs : Live(p) => req[p].run \in Nexts /\ req[p].run # n
    BY <1>1, <1>5, LiveRuns DEF AnswerInv, RightInv
  <2>6. RightInv'
    BY <2>2, <2>3, <2>4, <2>5 DEF AnswerInv, RightInv
  <2> QED
    BY <1>1, <1>3, <2>1, <2>2, <2>3, <2>6, PostKeepsAnswers DEF SameSent
<1> QED
  BY <1>4, <1>5

\* ... and given back by its holder, or used.
LEMMA ResponsePushKeepsAnswers ==
    ASSUME RouterInv, AnswerInv, NEW q \in Reqs, ResponsePush(q)
    PROVE  AnswerInv'
<1> DEFINE n == req[q].run
<1>1. ProcessOK /\ req[q] \in ReqOK /\ DOMAIN req = Reqs /\ ReqQuiet(q) /\ req[q].pc = "swapped"
      /\ req[q].status = "none" /\ req[q].kind = "response"
  BY DEF RouterInv, Typed, ProcessOK, ReqQuiet, ResponsePush, ReqOK, ResponseRecs, ErrorRecs
<1>2. n \in Nexts /\ Live(q)
  BY <1>1 DEF ReqOK, Live
<1>3. next[n] \in NextRecs /\ DOMAIN next = Nexts /\ next \in [Nexts -> NextRecs]
  BY <1>1, <1>2 DEF ProcessOK
<1>4. \A p \in Reqs : p # q => /\ req'[p] = req[p] /\ Live(p)' = Live(p)
                               /\ Live(p) => req[p].run \in Nexts /\ req[p].run # n
  BY <1>1, <1>2, ReqReach, LiveRuns DEF AnswerInv, RightInv, Live
<1>5. CASE Mismatch(q)
  <2>1. /\ req' = [req EXCEPT ![q] = Replied(req[q], "timeout")] /\ call' = call
        /\ \E st : next' = [next EXCEPT ![n] = [next[n] EXCEPT !.state = st]]
    BY <1>5 DEF ResponsePush, Reply, SetReq, SetNext, Replied
  <2>2. req'[q].pc = "done" /\ req'[q].status = "timeout"
    BY <1>1, <2>1, ReqFields
  <2>3. /\ \A m \in Nexts : next'[m].response = next[m].response /\ SameSent(next'[m], next[m])
        /\ \A m \in Nexts : m # n => next'[m] = next[m]
    BY <1>2, <1>3, <2>1 DEF NextRecs, SameSent
  <2>4. RightInv'
    <3>1. ~ Live(q)'
      BY <2>2 DEF Live
    <3> QED
      BY <1>4, <2>3, <3>1 DEF AnswerInv, RightInv
  <2> QED
    BY <1>1, <1>3, <1>4, <2>1, <2>2, <2>3, <2>4, PostKeepsAnswers DEF SameSent
<1>6. CASE ~ Mismatch(q)
  <2>1. /\ next' = [next EXCEPT ![n] = [next[n] EXCEPT !.response = q]]
        /\ req' = [req EXCEPT ![q] = Goes(req[q], "await")] /\ call' = call
    BY <1>6 DEF ResponsePush, SetReq, SetNext, Goes
  <2>2. req'[q].run = n /\ req'[q].status = "none" /\ req'[q].pc = "await" /\ req'[q].kind = "response"
    BY <1>1, <2>1, ReqFields
  <2>3. /\ \A m \in Nexts : next'[m].state = next[m].state /\ SameSent(next'[m], next[m])
        /\ \A m \in Nexts : m # n => next'[m] = next[m]
        /\ next'[n].response = q
    BY <1>2, <1>3, <2>1 DEF NextRecs, SameSent
  <2>4. RightInv'
    BY <1>2, <1>4, <2>2, <2>3 DEF AnswerInv, RightInv
  <2>5. Awaits(q, n)'
    BY <2>2 DEF Awaits
  <2> QED
    BY <1>1, <1>3, <1>4, <2>1, <2>2, <2>3, <2>4, <2>5, PostKeepsAnswers DEF SameSent
<1> QED
  BY <1>5, <1>6

LEMMA ErrorPushKeepsAnswers ==
    ASSUME RouterInv, AnswerInv, NEW q \in Reqs, ErrorPush(q)
    PROVE  AnswerInv'
<1> DEFINE n == req[q].run
<1>1. ProcessOK /\ req[q] \in ReqOK /\ DOMAIN req = Reqs /\ ReqQuiet(q) /\ req[q].pc = "found"
      /\ req[q].status = "none" /\ req[q].kind = "error"
  BY DEF RouterInv, Typed, ProcessOK, ReqQuiet, ErrorPush, ReqOK
<1>2. n \in Nexts
  BY <1>1 DEF ReqOK
<1>3. next[n] \in NextRecs /\ DOMAIN next = Nexts
  BY <1>1, <1>2 DEF ProcessOK
<1>4. /\ \/ \E st \in {"timeout", "invalidRequestID"} : req' = [req EXCEPT ![q] = Replied(req[q], st)]
         \/ req' = [req EXCEPT ![q] = Goes(req[q], "await")]
      /\ \/ UNCHANGED next
         \/ next' = [next EXCEPT ![n] = [next[n] EXCEPT !.state = "gotError", !.error = q]]
  BY DEF ErrorPush, Reply, SetReq, SetNext, Replied, Goes
<1>5. req'[q].kind = "error" /\ req'[q].status # "accepted"
  BY <1>1, <1>4, ReqFields
<1>6. \A m \in Nexts : /\ next'[m].state = next[m].state \/ next'[m].state # "noResponse"
                       /\ next'[m].response = next[m].response /\ SameSent(next'[m], next[m])
  <2>1. \A m \in Nexts : m # n => next'[m] = next[m]
    BY <1>3, <1>4
  <2>2. next'[n] = next[n] \/ next'[n] = [next[n] EXCEPT !.state = "gotError", !.error = q]
    BY <1>2, <1>3, <1>4
  <2>3. /\ next'[n].state = next[n].state \/ next'[n].state # "noResponse"
        /\ next'[n].response = next[n].response /\ SameSent(next'[n], next[n])
    BY <1>3, <2>2 DEF NextRecs, SameSent
  <2> QED
    BY <2>1, <2>3 DEF SameSent
<1> QED
  BY <1>1, <1>5, <1>6, ReqEarlySteps DEF Live

\* The handler takes the outcome off its channel and renders it.
LEMMA AwaitKeepsAnswers ==
    ASSUME RouterInv, AnswerInv, NEW q \in Reqs, Await(q)
    PROVE  AnswerInv'
<1>1. ProcessOK /\ req[q] \in ReqOK /\ DOMAIN req = Reqs /\ ReqQuiet(q) /\ req[q].pc = "await"
  BY DEF RouterInv, Typed, ProcessOK, ReqQuiet, Await
<1> PICK n \in Nexts : n = req[q].run
  BY <1>1 DEF ReqOK
<1>2. next[n] \in NextRecs /\ DOMAIN next = Nexts /\ next \in [Nexts -> NextRecs] /\ call' = call
  BY <1>1 DEF ProcessOK, Await
<1>3. \/ /\ req[q].kind = "response" /\ next[n].responseSent # "empty"
         /\ \E st \in ResponseStatus(next[n].responseSent) : req' = [req EXCEPT ![q] = Replied(req[q], st)]
         /\ next' = [next EXCEPT ![n] = [next[n] EXCEPT !.responseSent = "empty"]]
      \/ /\ req[q].kind = "error" /\ next[n].errorSent # "empty"
         /\ \E st \in ErrorStatus(next[n].errorSent) : req' = [req EXCEPT ![q] = Replied(req[q], st)]
         /\ next' = [next EXCEPT ![n] = [next[n] EXCEPT !.errorSent = "empty"]]
  BY DEF Await, Reply, SetReq, SetNext, Replied
<1>4. /\ \A p \in Reqs : p # q => req'[p] = req[p]
      /\ req'[q].pc = "done" /\ req'[q].kind = req[q].kind /\ req'[q].run = n
      /\ \/ req[q].kind = "response" /\ req'[q].status \in ResponseStatus(next[n].responseSent)
         \/ req[q].kind = "error" /\ req'[q].status \in ErrorStatus(next[n].errorSent)
  <2>1. PICK st : /\ req' = [req EXCEPT ![q] = Replied(req[q], st)]
                  /\ \/ req[q].kind = "response" /\ st \in ResponseStatus(next[n].responseSent)
                     \/ req[q].kind = "error" /\ st \in ErrorStatus(next[n].errorSent)
    BY <1>3, Zenon
  <2>2. req'[q] = Replied(req[q], st) /\ \A p \in Reqs : p # q => req'[p] = req[p]
    BY <1>1, <2>1
  <2> QED
    BY <1>1, <2>1, <2>2, ReqFields
<1>5. /\ \A m \in Nexts : /\ next'[m].state = next[m].state /\ next'[m].response = next[m].response
                          /\ next'[m].responseSent \in {next[m].responseSent, "empty"}
                          /\ next'[m].errorSent \in {next[m].errorSent, "empty"}
      /\ req[q].kind = "response" => next'[n].responseSent = "empty"
  BY <1>2, <1>3 DEF NextRecs
<1>6. PICK c \in Calls :
        /\ Told(c, n)
        /\ req[q].kind = "response" => /\ call[c].err = next[n].responseSent
                                       /\ call[c].err = "nil" => Awaits(call[c].from, n)
        /\ req[q].kind = "error" => call[c].err = next[n].errorSent
  <2>1. CASE req[q].kind = "response"
    BY <1>3, <2>1 DEF AnswerInv, SentInv
  <2>2. CASE req[q].kind = "error"
    BY <1>3, <2>2 DEF AnswerInv, SentInv
  <2> QED
    BY <1>3, <2>1, <2>2
<1>7. Settled(n)' /\ call[c].answers = 1
  BY <1>1, <1>2, <1>6, ToldAnswers DEF Settled, Told
<1>8. RightInv'
  <2>1. ~ Live(q)' /\ \A p \in Reqs : p # q => Live(p)' = Live(p)
    BY <1>4 DEF Live
  <2> QED
    BY <1>1, <1>4, <1>5, <2>1, LiveRuns DEF AnswerInv, RightInv
<1>9. SentInv'
  <2>1. ASSUME NEW m \in Nexts, next'[m].response # None
        PROVE  /\ req'[next'[m].response].kind = "response" /\ req'[next'[m].response].run = m
               /\ \/ req'[next'[m].response].pc = "await"
                  \/ req'[next'[m].response].pc = "done" /\ Settled(m)'
    <3>1. next[m].response \in Reqs /\ next'[m].response = next[m].response
      BY <1>2, <1>5, <2>1 DEF NextRecs
    <3>2. /\ req[next[m].response].kind = "response" /\ req[next[m].response].run = m
          /\ \/ req[next[m].response].pc = "await"
             \/ req[next[m].response].pc = "done" /\ Settled(m)
      BY <2>1, <3>1 DEF AnswerInv, SentInv
    <3>3. Settled(m) => Settled(m)'
      BY <1>2 DEF Settled
    <3> QED
      BY <1>4, <1>7, <3>1, <3>2, <3>3
  <2>2. \A p, m : Awaits(p, m) /\ p # q => Awaits(p, m)'
    BY <1>4 DEF Awaits
  <2>3. \A d \in Calls : (call[d].pc = "body" \/ (call[d].pc = "notifying" /\ call[d].err = "nil")
                            => Awaits(call[d].from, call[d].run))'
    <3> SUFFICES ASSUME NEW d \in Calls,
                        call[d].pc = "body" \/ (call[d].pc = "notifying" /\ call[d].err = "nil")
                 PROVE  Awaits(call[d].from, call[d].run)'
      BY <1>2
    <3>1. Awaits(call[d].from, call[d].run)
      BY DEF AnswerInv, SentInv
    <3>2. call[d].run # n
      BY <1>6, Numbers DEF Told, RouterInv, PoolInv
    <3>3. call[d].from # q
      BY <3>1, <3>2 DEF Awaits
    <3> QED
      BY <1>2, <2>2, <3>1, <3>3
  <2>4. \A m \in Nexts : (next[m].responseSent # "empty" =>
           \E d \in Calls : /\ Told(d, m) /\ call[d].err = next[m].responseSent
                            /\ call[d].err = "nil" => Awaits(call[d].from, m))'
    <3> SUFFICES ASSUME NEW m \in Nexts, next'[m].responseSent # "empty"
                 PROVE  \E d \in Calls : /\ Told(d, m)' /\ call'[d].err = next'[m].responseSent
                                         /\ call'[d].err = "nil" => Awaits(call[d].from, m)'
      OBVIOUS
    <3>1. next'[m].responseSent = next[m].responseSent /\ (req[q].kind = "response" => m # n)
      BY <1>5
    <3>2. PICK d \in Calls : /\ Told(d, m) /\ call[d].err = next[m].responseSent
                             /\ call[d].err = "nil" => Awaits(call[d].from, m)
      BY <3>1 DEF AnswerInv, SentInv
    <3>3. call[d].err = "nil" => call[d].from # q
      BY <3>1, <3>2 DEF Awaits
    <3>4. /\ Told(d, m)' /\ call'[d].err = next'[m].responseSent
          /\ call'[d].err = "nil" => Awaits(call[d].from, m)'
      BY <1>2, <2>2, <3>1, <3>2, <3>3 DEF Told
    <3> QED
      BY <3>4
  <2>5. \A m \in Nexts : (next[m].errorSent # "empty" =>
           \E d \in Calls : Told(d, m) /\ call[d].err = next[m].errorSent)'
    <3> SUFFICES ASSUME NEW m \in Nexts, next'[m].errorSent # "empty"
                 PROVE  \E d \in Calls : Told(d, m)' /\ call'[d].err = next'[m].errorSent
      OBVIOUS
    <3>1. next'[m].errorSent = next[m].errorSent
      BY <1>5
    <3>2. PICK d \in Calls : Told(d, m) /\ call[d].err = next[m].errorSent
      BY <3>1 DEF AnswerInv, SentInv
    <3> QED
      BY <1>2, <3>1, <3>2 DEF Told
  <2> QED
    BY <2>1, <2>3, <2>4, <2>5 DEF SentInv
<1>10. AcceptedIsAnswer'
  <2>1. ASSUME req'[q].status = "accepted"
        PROVE  \/ call[c].from = q
               \/ call[c].err \in {"function", "trailer"}
               \/ req[q].kind = "error" /\ call[c].err \in Complaints
    <3>1. CASE req[q].kind = "error"
      <4>1. call[c].err \in {"function", "trailer"} \cup Complaints
        BY <1>4, <1>6, <2>1, <3>1 DEF ErrorStatus
      <4> QED
        BY <3>1, <4>1
    <3>2. CASE req[q].kind = "response"
      <4>1. call[c].err \in {"nil", "function", "trailer"}
        BY <1>4, <1>6, <2>1, <3>2 DEF ResponseStatus
      <4>2. ASSUME call[c].err = "nil" PROVE call[c].from = q
        <5>1. Awaits(call[c].from, n)
          BY <1>6, <3>2, <4>2
        <5>2. call[c].from \in Reqs /\ Live(call[c].from) /\ Live(q) /\ req[call[c].from].run = req[q].run
          BY <1>1, <3>2, <5>1 DEF Awaits, Live
        <5> QED
          BY <5>2 DEF AnswerInv, RightInv
      <4> QED
        BY <4>1, <4>2
    <3> QED
      BY <1>3, <3>1, <3>2
  <2>2. call[c].run = n
    BY <1>6 DEF Told
  <2> QED
    BY <1>2, <1>4, <1>7, <2>1, <2>2 DEF AnswerInv, AcceptedIsAnswer
<1> QED
  BY <1>8, <1>9, <1>10 DEF AnswerInv

\* The pool, the workers and a shutdown leave the channels alone.
LEMMA PoolKeepsAnswers ==
    ASSUME RouterInv, TouchInv, AnswerInv, req' = req,
           \A d \in Calls : call'[d] = call[d] \/ CallAdvances(d),
           \A n \in Nexts : SameChannels(next'[n], next[n])
    PROVE  AnswerInv'
<1>1. \A d \in Calls : CallAdvances(d)
  <2> SUFFICES ASSUME NEW d \in Calls, call'[d] = call[d] PROVE CallAdvances(d)
    OBVIOUS
  <2> QED
    BY DEF CallAdvances, AnswerInv, SentInv
<1> QED
  BY <1>1, CallsKeepAnswers DEF SameChannels, SameSent, RouterInv, Typed

LEMMA StepAnswerInv ==
    ASSUME RouterInv, TouchInv, AnswerInv, [Next]_vars
    PROVE  AnswerInv'
<1>1. ProcessOK /\ DOMAIN call = Calls /\ DOMAIN next = Nexts
  BY DEF RouterInv, Typed, ProcessOK
<1>2. ASSUME NEW c \in Calls, CallQuiet(c) PROVE AnswerInv'
  <2>1. CASE TakeResponse(c)
    BY <2>1, TakeResponseKeepsAnswers, AnswerSteps
  <2>2. CASE ~ TakeResponse(c)
    BY <1>2, <2>2, EarlySteps, AnswerSteps, NotifyKeepsAnswers, FinishKeepsAnswers DEF CallQuiet
  <2> QED
    BY <2>1, <2>2
<1>3. ASSUME NEW q \in Reqs, ReqQuiet(q) PROVE AnswerInv'
  BY <1>3, LookupAndPostKeepAnswers, ResponseSwapKeepsAnswers, ResponsePushKeepsAnswers,
     ErrorPushKeepsAnswers, AwaitKeepsAnswers DEF ReqQuiet
<1>4. CASE \E n \in Nexts : WorkerGone(n)
  <2>1. UNCHANGED <<call, req>>
    BY <1>4 DEF WorkerGone
  <2>2. \A m \in Nexts : SameChannels(next'[m], next[m])
    BY <1>1, <1>4 DEF WorkerGone, SetNext, SameChannels, SameSent, ProcessOK, NextRecs
  <2> QED
    BY <2>1, <2>2, PoolKeepsAnswers
<1>5. CASE AbortRunningInvokes
  <2>1. UNCHANGED <<call, req>>
    BY <1>5 DEF AbortRunningInvokes
  <2>2. ASSUME NEW m \in Nexts PROVE SameChannels(next'[m], next[m])
    <3> DEFINE r == [next[m] EXCEPT !.cancel = "aborted"]
    <3>1. next'[m] = next[m] \/ next'[m] = RuntimeNextWait(r)
      BY <1>5 DEF AbortRunningInvokes
    <3>2. next[m] \in NextRecs
      BY <1>1 DEF ProcessOK
    <3>3. r \in NextRecs /\ SameChannels(r, next[m])
      BY <3>2 DEF NextRecs, Causes, SameChannels, SameSent
    <3> HIDE DEF r
    <3> QED
      BY <3>1, <3>3, WaitChannels DEF SameChannels, SameSent
  <2> QED
    BY <2>1, <2>2, PoolKeepsAnswers
<1>6. CASE \E n \in Nexts : RuntimeNext(n)
  <2>1. UNCHANGED <<call, req>>
    BY <1>6 DEF RuntimeNext
  <2>2. PICK n \in Nexts : RuntimeNext(n)
    BY <1>6
  <2>3. PICK p \in {"parked", "refused"} : next' = [next EXCEPT ![n] = [NewNext EXCEPT !.pc = p]]
    BY <2>2 DEF RuntimeNext, SetNext
  <2>4. ~ Admitted(n)
    BY <1>1, <2>2 DEF RuntimeNext, Fresh, ProcessOK, NextRecs, Admitted
  <2>5. Untouched(n)
    BY <2>4 DEF TouchInv
  <2>6. \A m \in Nexts : SameChannels(next'[m], next[m])
    BY <1>1, <2>3, <2>5 DEF Untouched, NewNext, SameChannels, SameSent
  <2> QED
    BY <2>1, <2>6, PoolKeepsAnswers
<1>7. CASE \/ InvokesAborted
           \/ \E t \in Timers : TimerFires(t) \/ OnExpire(t)
           \/ \E i \in Ids : ReserveCheck(i) \/ ReserveIdleRuntime(i)
           \/ UNCHANGED vars
  <2>1. UNCHANGED <<call, next, req>>
    BY <1>7 DEF InvokesAborted, TimerFires, OnExpire, ReserveCheck, ReserveIdleRuntime, vars
  <2> QED
    BY <2>1, PoolKeepsAnswers DEF SameChannels, SameSent
<1>8. CASE \E c \in Calls : Acquire(c)
  <2>1. PICK c \in Calls : Acquire(c)
    BY <1>8
  <2>2. UNCHANGED <<next, req>> /\ call[c] \in CallOK /\ call[c].pc = "placed"
    BY <1>1, <2>1 DEF Acquire, ProcessOK
  <2>3. call[c].answers = 0
    BY <2>2 DEF CallOK
  <2>4. \/ call' = [call EXCEPT ![c] = [call[c] EXCEPT !.pc = "refused"]]
        \/ \E n : call' = [call EXCEPT ![c] = [call[c] EXCEPT !.pc = "acquired", !.run = n]]
    BY <2>1 DEF Acquire, SetCall
  <2>5. call'[c].pc \in {"refused", "acquired"} /\ \A d \in Calls : d # c => call'[d] = call[d]
    BY <1>1, <2>2, <2>4 DEF CallOK, CallRecs
  <2>6. CallAdvances(c)
    BY <2>3, <2>5 DEF CallAdvances
  <2> QED
    BY <2>2, <2>5, <2>6, PoolKeepsAnswers DEF SameChannels, SameSent
<1> QED
  BY <1>2, <1>3, <1>4, <1>5, <1>6, <1>7, <1>8, NextIs

\* A runtime is told that its /response or /error was accepted only when the invoker was answered
\* with it, or with an error the same runtime reported for that invoke, however timeouts, aborts,
\* lost connections and second posts interleave.
THEOREM AcceptedAreAnswers == Spec => []AcceptedIsAnswer
<1>1. Init => TouchInv /\ AnswerInv
  <2> SUFFICES ASSUME Init PROVE TouchInv /\ AnswerInv
    OBVIOUS
  <2>1. /\ \A n \in Nexts : Untouched(n)
        /\ \A i \in Ids : running[i] = Absent
        /\ \A q \in Reqs : req[q].run = None /\ req[q].pc = "unborn" /\ req[q].status = "none"
        /\ \A c \in Calls : call[c].pc = "new"
    BY DEF Init, NewNext, NewReq, NewCall, Untouched
  <2>2. TouchInv
    BY <2>1, Numbers DEF TouchInv
  <2>3. RightInv
    BY <2>1 DEF RightInv, Live
  <2>4. SentInv
    BY <2>1 DEF SentInv, Untouched
  <2>5. AcceptedIsAnswer
    BY <2>1 DEF AcceptedIsAnswer
  <2> QED
    BY <2>2, <2>3, <2>4, <2>5 DEF AnswerInv
<1>2. RouterInv /\ TouchInv /\ AnswerInv /\ [Next]_vars => TouchInv' /\ AnswerInv'
  BY StepTouchInv, StepAnswerInv
<1>3. AnswerInv => AcceptedIsAnswer
  BY DEF AnswerInv
<1> QED
  BY <1>1, <1>2, <1>3, RouterInvariant, PTL DEF Spec
=============================================================================
