------------------------ MODULE InteropServer_proofs ------------------------
(***************************************************************************)
(* Theorems about InteropServer, for any number of calls, reloads and      *)
(* crashes: first with overlapping calls and any scheduler, then for the   *)
(* use that LocalStack makes of the server.                                *)
(***************************************************************************)
EXTENDS InteropServer, TLAPS

Core == Reserved /\ Streams /\ Unwritten /\ OneReply

\* A step of goroutines other than FastInvoke's; nobody gets back to Reserve.
CallFrame ==
    \A d \in Calls :
        /\ call'[d].fast = call[d].fast /\ call'[d].fastCtx = call[d].fastCtx
        /\ call'[d].main = "new" => call[d].main = "new" /\ call'[d].rel = "none"
        /\ call'[d].rel = "reserve" => call[d].rel = "reserve" \/ call[d].main = "new"

\* A goroutine of one call goes on.
LEMMA CallMove ==
    ASSUME CallType, NEW c \in Calls, NEW new \in CallRec, call' = [call EXCEPT ![c] = new]
    PROVE  CallType'
BY DEF CallType

\* Invoke returns to its caller.
LEMMA ReturnsType ==
    ASSUME CallType, NEW c \in Calls, NEW r \in {"ok", "failed", "timeout"}, Returns(c, r)
    PROVE  CallType'
<1>1. call[c] \in CallRec
  BY DEF CallType
<1>2. Stopped(call[c].timer) \in {"off", "armed", "fired"}
  BY <1>1 DEF CallRec, Stopped
<1>3. ASSUME NEW t \in {"off", "armed", "fired"}
      PROVE  [call[c] EXCEPT !.main = "returned", !.rel = "done", !.ret = r, !.timer = t] \in CallRec
  <2> DEFINE m == [call[c] EXCEPT !.main = "returned", !.rel = "done"]
  <2>1. m \in CallRec
    BY <1>1, ZenonT(60) DEF CallRec
  <2>2. [call[c] EXCEPT !.main = "returned", !.rel = "done", !.ret = r, !.timer = t]
           = [m EXCEPT !.ret = r, !.timer = t]
    BY <1>1 DEF CallRec
  <2> HIDE DEF m
  <2>3. [m EXCEPT !.ret = r] \in CallRec
    BY <2>1 DEF CallRec
  <2>4. \A n \in CallRec : [n EXCEPT !.timer = t] \in CallRec
    BY DEF CallRec
  <2>5. [m EXCEPT !.ret = r, !.timer = t] = [[m EXCEPT !.ret = r] EXCEPT !.timer = t]
    BY <2>1 DEF CallRec
  <2> QED
    BY <2>2, <2>3, <2>4, <2>5
<1>4. call' = [call EXCEPT ![c] = [call[c] EXCEPT !.main = "returned", !.rel = "done", !.ret = r,
                                                  !.timer = Stopped(call[c].timer)]]
  BY DEF Returns
<1> QED
  BY <1>2, <1>3, <1>4, CallMove

\* A step that touches no reservation, stream or reply keeps the invariant.
LEMMA Calm ==
    ASSUME TypeOK, Core, CallFrame, UNCHANGED <<mutexVars, sender, replies>>
    PROVE  Core'
BY DEF Core, Reserved, Streams, Unwritten, OneReply, CallFrame, mutexVars, TypeOK, MutexType,
       NoCtx

\* Server.Release keeps it: the released call is the one that was reserved.
LEMMA ReleaseKeeps ==
    ASSUME TypeOK, Core, CallFrame, Release, UNCHANGED <<sender, replies>>
    PROVE  Core' /\ MutexType'
BY DEF Core, Reserved, Streams, Unwritten, OneReply, CallFrame, Release, MutexFree, TypeOK,
       MutexType, NoCtx

\* sendResponseUnsafe writes to a stream that has nothing yet.
LEMMA WriteKeeps ==
    ASSUME TypeOK, Core, CallFrame, UNCHANGED mutexVars, MutexFree,
           NEW id \in Calls, NEW by \in {"runtime", "default"}, Write(id, by),
           ctx.stream # 0, ~ctx.sent
    PROVE  Core' /\ replies' \in [Calls -> Seq(Calls)]
<1> DEFINE s == ctx.stream
<1>1. s \in Calls /\ replies[s] = <<>>
  BY DEF TypeOK, MutexType, Core, Unwritten, MutexFree
<1>2. replies' = [replies EXCEPT ![s] = <<id>>]
  BY <1>1 DEF Write
<1>3. replies' \in [Calls -> Seq(Calls)] /\ OneReply'
  BY <1>1, <1>2 DEF TypeOK, EnvType, Core, OneReply
<1>4. Reserved' /\ Streams'
  BY DEF Core, Reserved, Streams, CallFrame, mutexVars, Write, TypeOK, MutexType, NoCtx
<1>5. Unwritten'
  <2>1. call[s].fast \notin {"none", "init", "shutdown", "stream"} /\ sender' # "none"
    BY <1>1 DEF Core, Streams, Write
  <2>2. \A d \in Calls : d # s => replies'[d] = replies[d]
    BY <1>1, <1>2 DEF TypeOK, EnvType
  <2> QED
    BY <2>1, <2>2 DEF Core, Unwritten, CallFrame
<1> QED
  BY <1>3, <1>4, <1>5 DEF Core

\* FastInvoke receives: whoever it is, the reply of the current reservation is sent.
LEMMA ReceivedKeeps ==
    ASSUME TypeOK, Core, NEW c \in Calls, Received(c), call[c].fast \in {"peek", "wait"}
    PROVE  Core' /\ TypeOK'
<1>1. ASSUME NEW d \in Calls
      PROVE  /\ call'[d].fast = (IF d = c THEN "done" ELSE call[d].fast)
             /\ call'[d].main = call[d].main /\ call'[d].rel = call[d].rel
             /\ call'[d].fastCtx = call[d].fastCtx
             /\ call'[d] \in CallRec
  <2>1. call[d] \in CallRec
    BY DEF TypeOK, CallType
  <2>2. call'[d] = [call[d] EXCEPT !.fast = IF d = c THEN "done" ELSE @,
                                   !.req = IF @ = "sending" THEN "doneFail" ELSE @]
    BY DEF Received
  <2> QED
    BY <2>1, <2>2, ZenonT(60) DEF CallRec
<1>2. CallType'
  <2>1. DOMAIN call' = Calls /\ call' = [d \in Calls |-> call'[d]]
    BY DEF Received
  <2> QED
    BY <1>1, <2>1 DEF CallType
<1>3. /\ ctx' = [ctx EXCEPT !.sent = TRUE] /\ ctx.stream # 0 /\ sender' = "none"
      /\ UNCHANGED <<resv, released, replies>>
  BY DEF Received, Core, Streams
<1>4. /\ ctx'.id = ctx.id /\ ctx'.stream = ctx.stream /\ ctx'.sent = TRUE
      /\ MutexType' /\ ctx # NoCtx
  <2>1. ctx \in [id : Calls \cup {0}, stream : Calls \cup {0}, sent : BOOLEAN]
    BY DEF TypeOK, MutexType
  <2>2. ctx'.id = ctx.id /\ ctx'.stream = ctx.stream /\ ctx'.sent = TRUE
    BY <1>3, <2>1
  <2>3. MutexType'
    BY <1>3, <2>1 DEF TypeOK, MutexType
  <2>4. ctx # NoCtx
    BY <1>3 DEF NoCtx
  <2> QED
    BY <2>2, <2>3, <2>4
<1>5. Core'
  <2>1. Reserved'
    BY <1>1, <1>3, <1>4 DEF Core, Reserved
  <2>2. Streams'
    BY <1>1, <1>3, <1>4 DEF Core, Streams, TypeOK, MutexType
  <2>3. Unwritten' /\ OneReply'
    BY <1>1, <1>3, <1>4 DEF Core, Unwritten, OneReply
  <2> QED
    BY <2>1, <2>2, <2>3 DEF Core
<1>6. EnvType'
  BY <1>3 DEF TypeOK, EnvType, Received
<1>7. SandboxType' /\ ChanType' /\ ResetType'
  BY DEF TypeOK, SandboxType, ChanType, ResetType, Received, sandboxVars
<1> QED
  BY <1>2, <1>4, <1>5, <1>6, <1>7 DEF TypeOK

\* The initial state.
LEMMA ServerInit == Init => TypeOK /\ Core
<1> SUFFICES ASSUME Init PROVE TypeOK /\ Core
  OBVIOUS
<1>1. CallType /\ ResetType
  BY DEF Init, CallType, ResetType, CallRec, ResetRec
<1>2. SandboxType /\ MutexType /\ ChanType
  BY DEF Init, SandboxType, MutexType, ChanType, NoCtx, Handlers, Causes, Outcomes
<1>e. EnvType
  BY DEF Init, EnvType
<1>3. ctx = NoCtx /\ ctx.stream = 0 /\ resv = 0 /\ released = {} /\ 0 \notin Calls
  BY ServerAssumption DEF Init, NoCtx
<1>4. \A c \in Calls : call[c].rel = "none" /\ call[c].fast = "none" /\ replies[c] = <<>>
  BY DEF Init
<1>5. sender = "none"
  BY DEF Init
<1>6. Core
  BY <1>3, <1>4, <1>5 DEF Core, Reserved, Streams, Unwritten, OneReply
<1> QED
  BY <1>1, <1>2, <1>e, <1>6 DEF TypeOK

\* The two goroutines of Server.Reset.
LEMMA ResetStep ==
    ASSUME TypeOK, Core, NEW r \in Resets, ResetGoroutine(r) \/ ResetReturns(r)
    PROVE  TypeOK' /\ Core'
<1> USE DEF TypeOK, sandboxVars, mutexVars, chanVars, envVars
<1>1. CASE ResetCancel(r)
  <2>1. ResetType'
    BY <1>1 DEF ResetCancel, Step, ResetRec, ResetType
  <2>2. SandboxType'
    BY <1>1 DEF ResetCancel, Step, Cancel, Causes, SandboxType
  <2>3. MutexType' /\ ChanType' /\ CallType' /\ EnvType'
    BY <1>1 DEF ResetCancel, Step, MutexType, ChanType, CallType, EnvType
  <2>4. CallFrame /\ UNCHANGED <<mutexVars, sender, replies>>
    BY <1>1 DEF ResetCancel, Step, CallFrame, CallType, CallRec, Core, Reserved
  <2> QED
    BY <2>1, <2>2, <2>3, <2>4, Calm
<1>2. CASE ResetLock(r)
  <2>1. ResetType'
    BY <1>2 DEF ResetLock, Step, ResetRec, ResetType
  <2>2. SandboxType'
    BY <1>2 DEF ResetLock, Step, Lock, SandboxType
  <2>3. EnvType'
    BY <1>2 DEF ResetLock, Step, EnvType
  <2>4. MutexType' /\ ChanType' /\ CallType'
    BY <1>2 DEF ResetLock, Step, MutexType, ChanType, CallType
  <2>5. CallFrame /\ UNCHANGED <<mutexVars, sender, replies>>
    BY <1>2 DEF ResetLock, Step, CallFrame, CallType, CallRec, Core, Reserved
  <2> QED
    BY <2>1, <2>2, <2>3, <2>4, <2>5, Calm
<1>3. CASE ResetUnlock(r)
  <2>1. ResetType'
    BY <1>3 DEF ResetUnlock, Step, ResetRec, ResetType
  <2>2. SandboxType'
    BY <1>3 DEF ResetUnlock, Step, Unlock, SandboxType
  <2>3. MutexType' /\ ChanType' /\ CallType' /\ EnvType'
    BY <1>3 DEF ResetUnlock, Step, MutexType, ChanType, CallType, EnvType
  <2>4. CallFrame /\ UNCHANGED <<mutexVars, sender, replies>>
    BY <1>3 DEF ResetUnlock, Step, CallFrame, CallType, CallRec, Core, Reserved
  <2> QED
    BY <2>1, <2>2, <2>3, <2>4, Calm
<1>4. CASE ResetRearm(r)
  <2>1. ResetType'
    BY <1>4 DEF ResetRearm, Step, ResetRec, ResetType
  <2>2. SandboxType'
    BY <1>4 DEF ResetRearm, Step, SandboxType
  <2>3. MutexType' /\ ChanType' /\ CallType' /\ EnvType'
    BY <1>4 DEF ResetRearm, Step, MutexType, ChanType, CallType, EnvType
  <2>4. CallFrame /\ UNCHANGED <<mutexVars, sender, replies>>
    BY <1>4 DEF ResetRearm, Step, CallFrame, CallType, CallRec, Core, Reserved
  <2> QED
    BY <2>1, <2>2, <2>3, <2>4, Calm
<1>5. CASE ResetDrain(r)
  <2>1. ResetType'
    BY <1>5 DEF ResetDrain, Drained, Step, ResetRec, ResetType
  <2>2. ChanType'
    BY <1>5 DEF ResetDrain, Drained, Step, ChanType
  <2>3. SandboxType' /\ MutexType' /\ CallType' /\ EnvType'
    BY <1>5 DEF ResetDrain, Drained, Step, SandboxType, MutexType, CallType, EnvType
  <2>4. CallFrame /\ UNCHANGED <<mutexVars, sender, replies>>
    BY <1>5 DEF ResetDrain, Drained, Step, CallFrame, CallType, CallRec, Core, Reserved
  <2> QED
    BY <2>1, <2>2, <2>3, <2>4, Calm
<1>6. CASE ResetRelease(r)
  <2>1. ResetType'
    BY <1>6 DEF ResetRelease, Step, ResetRec, ResetType
  <2>2. SandboxType' /\ ChanType' /\ CallType' /\ EnvType'
    BY <1>6 DEF ResetRelease, Step, SandboxType, ChanType, CallType, EnvType
  <2>3. CallFrame /\ Release /\ UNCHANGED <<sender, replies>>
    BY <1>6 DEF ResetRelease, Step, CallFrame, CallType, CallRec, Core, Reserved
  <2> QED
    BY <2>1, <2>2, <2>3, ReleaseKeeps
<1>7. ASSUME NEW w \in Resets, ResetHandoff(r, w) PROVE TypeOK' /\ Core'
  <2>1. ResetType'
    BY <1>7 DEF ResetHandoff, ResetRec, ResetType
  <2>2. SandboxType' /\ MutexType' /\ ChanType' /\ CallType' /\ EnvType'
    BY <1>7 DEF ResetHandoff, SandboxType, MutexType, ChanType, CallType, EnvType
  <2>3. CallFrame /\ UNCHANGED <<mutexVars, sender, replies>>
    BY <1>7 DEF ResetHandoff, CallFrame, CallType, CallRec, Core, Reserved
  <2> QED
    BY <2>1, <2>2, <2>3, Calm
<1>8. CASE ResetReturns(r)
  <2>1. ResetType'
    BY <1>8 DEF ResetReturns, ResetRec, ResetType
  <2>2. SandboxType' /\ ChanType' /\ CallType' /\ EnvType'
    BY <1>8 DEF ResetReturns, SandboxType, ChanType, CallType, EnvType
  <2>3. CallFrame /\ Release /\ UNCHANGED <<sender, replies>>
    BY <1>8 DEF ResetReturns, CallFrame, CallType, CallRec, Core, Reserved
  <2> QED
    BY <2>1, <2>2, <2>3, ReleaseKeeps
<1> QED
  BY <1>1, <1>2, <1>3, <1>4, <1>5, <1>6, <1>7, <1>8 DEF ResetGoroutine

\* The goroutine of Invoke itself, and its timer.
LEMMA MainStep ==
    ASSUME TypeOK, Core, NEW c \in Calls, Invoke(c) \/ TimerFires(c) \/ Main(c)
    PROVE  TypeOK' /\ Core'
<1> USE DEF TypeOK, sandboxVars, mutexVars, chanVars, envVars
<1>c. CallType /\ call[c] \in CallRec
  BY DEF CallType
<1>r. <<c, "timeout">> \in Resets
  BY DEF Resets
<1>1. CASE Invoke(c)
  <2>1. CallType'
    BY <1>1, <1>c, CallMove, ZenonT(60) DEF Invoke, CallRec
  <2>2. SandboxType' /\ MutexType' /\ ChanType' /\ ResetType' /\ EnvType'
    BY <1>1 DEF Invoke, SandboxType, MutexType, ChanType, ResetType, EnvType
  <2>3. CallFrame /\ UNCHANGED <<mutexVars, sender, replies>>
    BY <1>1 DEF Invoke, CallFrame, CallType, CallRec, Core, Reserved
  <2> QED
    BY <2>1, <2>2, <2>3, Calm
<1>2. CASE TimerFires(c)
  <2>1. CallType'
    BY <1>2, <1>c, CallMove DEF TimerFires, CallRec
  <2>2. SandboxType' /\ MutexType' /\ ChanType' /\ ResetType' /\ EnvType'
    BY <1>2 DEF TimerFires, SandboxType, MutexType, ChanType, ResetType, EnvType
  <2>3. CallFrame /\ UNCHANGED <<mutexVars, sender, replies>>
    BY <1>2 DEF TimerFires, CallFrame, CallType, CallRec, Core, Reserved
  <2> QED
    BY <2>1, <2>2, <2>3, Calm
<1>3. CASE MainTimeout(c)
  <2>1. CallType'
    BY <1>3, <1>c, CallMove, <1>r DEF MainTimeout, StartReset, CallRec
  <2>2. ResetType'
    BY <1>3, <1>r DEF MainTimeout, StartReset, ResetRec, ResetType
  <2>3. SandboxType' /\ MutexType' /\ ChanType' /\ EnvType'
    BY <1>3 DEF MainTimeout, StartReset, SandboxType, MutexType, ChanType, EnvType
  <2>4. CallFrame /\ UNCHANGED <<mutexVars, sender, replies>>
    BY <1>3 DEF MainTimeout, StartReset, CallFrame, CallType, CallRec, Core, Reserved
  <2> QED
    BY <2>1, <2>2, <2>3, <2>4, Calm
<1>4. CASE MainFailure(c)
  <2>1. CallType'
    BY <1>4, <1>c, ReturnsType DEF MainFailure
  <2>2. SandboxType' /\ MutexType' /\ ChanType' /\ ResetType' /\ EnvType'
    BY <1>4 DEF MainFailure, Returns, SandboxType, MutexType, ChanType, ResetType, EnvType
  <2>3. CallFrame /\ UNCHANGED <<mutexVars, sender, replies>>
    BY <1>4 DEF MainFailure, Returns, CallFrame, CallType, CallRec, Core, Reserved
  <2> QED
    BY <2>1, <2>2, <2>3, Calm
<1>5. CASE MainSuccess(c)
  <2>1. CallType'
    BY <1>5, <1>c, ReturnsType DEF MainSuccess
  <2>2. SandboxType' /\ ChanType' /\ ResetType' /\ EnvType'
    BY <1>5 DEF MainSuccess, Returns, SandboxType, ChanType, ResetType, EnvType
  <2>3. CallFrame /\ Release /\ UNCHANGED <<sender, replies>>
    BY <1>5 DEF MainSuccess, Returns, CallFrame, CallType, CallRec, Core, Reserved
  <2> QED
    BY <2>1, <2>2, <2>3, ReleaseKeeps
<1>6. CASE MainTimedOut(c)
  <2>1. CallType'
    BY <1>6, <1>c, ReturnsType DEF MainTimedOut
  <2>2. SandboxType' /\ MutexType' /\ ChanType' /\ ResetType' /\ EnvType'
    BY <1>6 DEF MainTimedOut, Returns, SandboxType, MutexType, ChanType, ResetType, EnvType
  <2>3. CallFrame /\ UNCHANGED <<mutexVars, sender, replies>>
    BY <1>6 DEF MainTimedOut, Returns, CallFrame, CallType, CallRec, Core, Reserved
  <2> QED
    BY <2>1, <2>2, <2>3, Calm
<1> QED
  BY <1>1, <1>2, <1>3, <1>4, <1>5, <1>6 DEF Main

\* The goroutine that reserves the server and awaits its release.
LEMMA RelStep ==
    ASSUME TypeOK, Core, NEW c \in Calls, Rel(c)
    PROVE  TypeOK' /\ Core'
<1> USE DEF TypeOK, sandboxVars, mutexVars, chanVars, envVars
<1>c. CallType /\ call[c] \in CallRec
  BY DEF CallType
<1>r. <<c, "failure">> \in Resets
  BY DEF Resets
<1>1. CASE Reserve(c) /\ ctx # NoCtx
  <2>1. EnvType'
    BY <1>1 DEF Reserve, EnvType
  <2>2. SandboxType' /\ MutexType' /\ ChanType' /\ CallType' /\ ResetType'
    BY <1>1 DEF Reserve, SandboxType, MutexType, ChanType, CallType, ResetType
  <2>3. CallFrame /\ UNCHANGED <<mutexVars, sender, replies>>
    BY <1>1 DEF Reserve, CallFrame, Core, Reserved
  <2> QED
    BY <2>1, <2>2, <2>3, Calm
<1>2. CASE Reserve(c) /\ ctx = NoCtx
  <2>1. /\ ctx' = [NoCtx EXCEPT !.id = c] /\ resv' = c /\ sender = "none"
        /\ call' = [call EXCEPT ![c] = [@ EXCEPT !.rel = "reserved", !.fast = "init"]]
        /\ UNCHANGED <<released, sender, replies>> /\ call[c].rel = "reserve"
    BY <1>2 DEF Reserve, MutexFree
  <2>2. ctx'.id = c /\ ctx'.stream = 0 /\ MutexType'
    BY <2>1 DEF NoCtx, MutexType
  <2>3. call[c].fast = "none" /\ c \notin released /\ call[c].main # "new"
    BY <2>1 DEF Core, Reserved
  <2>4. /\ call'[c].fast = "init" /\ call'[c].rel = "reserved" /\ call'[c].main = call[c].main
        /\ \A d \in Calls : d # c => call'[d] = call[d]
    BY <1>c, <2>1 DEF CallType, CallRec
  <2>9. CallType'
    BY <1>c, <2>1, CallMove DEF CallRec
  <2>5. Reserved'
    BY <2>1, <2>2, <2>3, <2>4 DEF Core, Reserved
  <2>6. Streams' /\ OneReply'
    BY <2>1, <2>2 DEF Core, Streams, OneReply
  <2>7. Unwritten'
    BY <2>1, <2>2, <2>3, <2>4 DEF Core, Unwritten
  <2>8. SandboxType' /\ ChanType' /\ ResetType' /\ EnvType'
    BY <1>2 DEF Reserve, SandboxType, ChanType, ResetType, EnvType
  <2> QED
    BY <2>2, <2>5, <2>6, <2>7, <2>8, <2>9 DEF Core
<1>3. CASE AwaitRelease(c)
  <2>1. CallType'
    BY <1>3, <1>c, CallMove DEF AwaitRelease, CallRec, MutexType
  <2>2. SandboxType' /\ MutexType' /\ ChanType' /\ ResetType' /\ EnvType'
    BY <1>3 DEF AwaitRelease, SandboxType, MutexType, ChanType, ResetType, EnvType
  <2>3. CallFrame /\ UNCHANGED <<mutexVars, sender, replies>>
    BY <1>3 DEF AwaitRelease, CallFrame, CallType, CallRec, Core, Reserved
  <2> QED
    BY <2>1, <2>2, <2>3, Calm
<1>4. CASE ReleaseDone(c)
  <2>1. CallType'
    BY <1>4, <1>c, CallMove DEF ReleaseDone, CallRec
  <2>2. ChanType'
    BY <1>4 DEF ReleaseDone, ChanType
  <2>3. SandboxType' /\ ResetType' /\ EnvType'
    BY <1>4 DEF ReleaseDone, SandboxType, ResetType, EnvType
  <2>4. CallFrame /\ Release /\ UNCHANGED <<sender, replies>>
    BY <1>4 DEF ReleaseDone, CallFrame, CallType, CallRec, Core, Reserved
  <2> QED
    BY <2>1, <2>2, <2>3, <2>4, ReleaseKeeps
<1>5. CASE ReleaseFailed(c)
  <2>1. CallType'
    BY <1>5, <1>c, CallMove, <1>r DEF ReleaseFailed, StartReset, CallRec
  <2>2. ResetType'
    BY <1>5, <1>r DEF ReleaseFailed, StartReset, ResetRec, ResetType
  <2>3. ChanType'
    BY <1>5, <1>r DEF ReleaseFailed, StartReset, ChanType
  <2>4. SandboxType' /\ MutexType' /\ EnvType'
    BY <1>5 DEF ReleaseFailed, StartReset, SandboxType, MutexType, EnvType
  <2>5. CallFrame /\ UNCHANGED <<mutexVars, sender, replies>>
    BY <1>5 DEF ReleaseFailed, StartReset, CallFrame, CallType, CallRec, Core, Reserved
  <2> QED
    BY <2>1, <2>2, <2>3, <2>4, <2>5, Calm
<1>6. CASE ReleaseCanceled(c)
  <2>1. CallType'
    BY <1>6, <1>c, CallMove DEF ReleaseCanceled, CallRec
  <2>2. SandboxType' /\ MutexType' /\ ChanType' /\ ResetType' /\ EnvType'
    BY <1>6 DEF ReleaseCanceled, SandboxType, MutexType, ChanType, ResetType, EnvType
  <2>3. CallFrame /\ UNCHANGED <<mutexVars, sender, replies>>
    BY <1>6 DEF ReleaseCanceled, CallFrame, CallType, CallRec, Core, Reserved
  <2> QED
    BY <2>1, <2>2, <2>3, Calm
<1>7. CASE ReleaseAfterReset(c)
  <2>1. CallType'
    BY <1>7, <1>c, CallMove DEF ReleaseAfterReset, CallRec
  <2>2. SandboxType' /\ MutexType' /\ ChanType' /\ ResetType' /\ EnvType'
    BY <1>7 DEF ReleaseAfterReset, SandboxType, MutexType, ChanType, ResetType, EnvType
  <2>3. CallFrame /\ UNCHANGED <<mutexVars, sender, replies>>
    BY <1>7 DEF ReleaseAfterReset, CallFrame, CallType, CallRec, Core, Reserved
  <2> QED
    BY <2>1, <2>2, <2>3, Calm
<1> QED
  BY <1>1, <1>2, <1>3, <1>4, <1>5, <1>6, <1>7 DEF Rel, Reserve

\* One step of FastInvoke's goroutine that leaves the server alone: a reply stream that
\* waits for its reply is not left.
LEMMA FastKeeps ==
    ASSUME TypeOK, Core, NEW c \in Calls, UNCHANGED <<mutexVars, sender, replies>>,
           \A d \in Calls : d # c => call'[d] = call[d],
           call'[c].main = call[c].main, call'[c].rel = call[c].rel,
           call[c].fast # "none", call'[c].fast # "none",
           call'[c].fast \in {"init", "shutdown", "stream"}
              => call[c].fast \in {"init", "shutdown", "stream"},
           ctx.stream = c => \/ ctx.sent = TRUE /\ call'[c].fast \in {"wait", "done"}
                             \/ call'[c].fast = "wait" /\ call'[c].fastCtx = resv
    PROVE  Core'
<1> USE DEF mutexVars
<1>1. Reserved'
  BY DEF Core, Reserved
<1>2. Streams'
  <2>1. CASE ctx.stream = c
    BY <2>1 DEF Core, Streams
  <2>2. CASE ctx.stream # c
    BY <2>2 DEF Core, Streams, TypeOK, MutexType
  <2> QED
    BY <2>1, <2>2
<1>3. Unwritten' /\ OneReply'
  BY DEF Core, Unwritten, OneReply
<1> QED
  BY <1>1, <1>2, <1>3 DEF Core

\* The goroutine of awaitInitialized and FastInvoke.
LEMMA FastStep ==
    ASSUME TypeOK, Core, NEW c \in Calls, Fast(c)
    PROVE  TypeOK' /\ Core'
<1> USE DEF TypeOK, sandboxVars, mutexVars, chanVars, envVars
<1>c. CallType /\ call[c] \in CallRec
  BY DEF CallType
<1>n. c # 0 /\ (ctx.stream # 0 => ctx # NoCtx)
  BY ServerAssumption DEF NoCtx
<1>1. CASE AwaitInit(c)
  <2>1. CallType'
    BY <1>1, <1>c, CallMove DEF AwaitInit, CallRec
  <2>2. ChanType'
    BY <1>1 DEF AwaitInit, ChanType
  <2>3. SandboxType' /\ MutexType' /\ ResetType' /\ EnvType'
    BY <1>1 DEF AwaitInit, SandboxType, MutexType, ResetType, EnvType
  <2>4. /\ UNCHANGED <<mutexVars, sender, replies>>
        /\ \A d \in Calls : d # c => call'[d] = call[d]
        /\ call'[c].main = call[c].main /\ call'[c].rel = call[c].rel
        /\ call[c].fast # "none" /\ call'[c].fast # "none"
        /\ call'[c].fast \in {"init", "shutdown", "stream"}
              => call[c].fast \in {"init", "shutdown", "stream"}
    BY <1>1, <1>c DEF AwaitInit, CallType, CallRec
  <2>5. ctx.stream = c => \/ ctx.sent = TRUE /\ call'[c].fast \in {"wait", "done"}
                          \/ call'[c].fast = "wait" /\ call'[c].fastCtx = resv
    BY <1>1, <1>c, <1>n DEF AwaitInit, CallType, CallRec, Core, Streams, Reserved, MutexType
  <2> QED
    BY <2>1, <2>2, <2>3, <2>4, <2>5, FastKeeps
<1>2. CASE ShutdownFailedInit(c)
  <2>1. CallType'
    BY <1>2, <1>c, CallMove DEF ShutdownFailedInit, CallRec
  <2>2. EnvType'
    BY <1>2 DEF ShutdownFailedInit, EnvType
  <2>3. SandboxType' /\ MutexType' /\ ChanType' /\ ResetType'
    BY <1>2 DEF ShutdownFailedInit, SandboxType, MutexType, ChanType, ResetType
  <2>4. /\ UNCHANGED <<mutexVars, sender, replies>>
        /\ \A d \in Calls : d # c => call'[d] = call[d]
        /\ call'[c].main = call[c].main /\ call'[c].rel = call[c].rel
        /\ call[c].fast # "none" /\ call'[c].fast # "none"
        /\ call'[c].fast \in {"init", "shutdown", "stream"}
              => call[c].fast \in {"init", "shutdown", "stream"}
    BY <1>2, <1>c DEF ShutdownFailedInit, CallType, CallRec
  <2>5. ctx.stream = c => \/ ctx.sent = TRUE /\ call'[c].fast \in {"wait", "done"}
                          \/ call'[c].fast = "wait" /\ call'[c].fastCtx = resv
    BY <1>2, <1>c, <1>n DEF ShutdownFailedInit, CallType, CallRec, Core, Streams, Reserved,
       MutexType
  <2> QED
    BY <2>1, <2>2, <2>3, <2>4, <2>5, FastKeeps
<1>3. CASE SetReplyStream(c)
  <2>1. /\ ctx' = [ctx EXCEPT !.stream = c] /\ ctx # NoCtx /\ ctx.sent = FALSE
        /\ call[c].fast = "stream" /\ sender = "none"
        /\ call' = [call EXCEPT ![c] = [@ EXCEPT !.fast = "peek", !.id = ctx.id]]
        /\ UNCHANGED <<resv, released, sender, replies>>
    BY <1>3 DEF SetReplyStream, MutexFree, MutexType
  <2>2. ctx'.id = ctx.id /\ ctx'.stream = c /\ ctx'.sent = FALSE /\ MutexType'
    BY <2>1 DEF MutexType
  <2>3. CallType'
    BY <1>c, <2>1, CallMove DEF CallRec, MutexType
  <2>4. /\ call'[c].fast = "peek" /\ call'[c].main = call[c].main /\ call'[c].rel = call[c].rel
        /\ \A d \in Calls : d # c => call'[d] = call[d]
    BY <1>c, <2>1 DEF CallType, CallRec
  <2>5. Reserved'
    BY <2>1, <2>2, <2>4 DEF Core, Reserved
  <2>6. Streams'
    BY <2>1, <2>2, <2>4 DEF Streams
  <2>7. Unwritten' /\ OneReply'
    BY <2>1, <2>2, <2>4 DEF Core, Unwritten, OneReply
  <2>8. SandboxType' /\ ChanType' /\ ResetType' /\ EnvType'
    BY <1>3 DEF SetReplyStream, SandboxType, ChanType, ResetType, EnvType
  <2> QED
    BY <2>2, <2>3, <2>5, <2>6, <2>7, <2>8 DEF Core
<1>4. CASE ReplyStreamRefused(c)
  <2>1. CallType'
    BY <1>4, <1>c, CallMove DEF ReplyStreamRefused, CallRec
  <2>2. SandboxType' /\ MutexType' /\ ChanType' /\ ResetType' /\ EnvType'
    BY <1>4 DEF ReplyStreamRefused, SandboxType, MutexType, ChanType, ResetType, EnvType
  <2>3. /\ UNCHANGED <<mutexVars, sender, replies>>
        /\ \A d \in Calls : d # c => call'[d] = call[d]
        /\ call'[c].main = call[c].main /\ call'[c].rel = call[c].rel
        /\ call[c].fast # "none" /\ call'[c].fast # "none"
        /\ call'[c].fast \in {"init", "shutdown", "stream"}
              => call[c].fast \in {"init", "shutdown", "stream"}
    BY <1>4, <1>c DEF ReplyStreamRefused, CallType, CallRec
  <2>4. ctx.stream = c => \/ ctx.sent = TRUE /\ call'[c].fast \in {"wait", "done"}
                          \/ call'[c].fast = "wait" /\ call'[c].fastCtx = resv
    BY <1>4, <1>c, <1>n DEF ReplyStreamRefused, CallType, CallRec, Core, Streams, Reserved,
       MutexType
  <2> QED
    BY <2>1, <2>2, <2>3, <2>4, FastKeeps
<1>5. CASE AlreadyWritten(c)
  BY <1>5, ReceivedKeeps DEF AlreadyWritten
<1>6. CASE SendRequest(c)
  <2>1. CallType'
    BY <1>6, <1>c, CallMove DEF SendRequest, CallRec, MutexType
  <2>2. SandboxType' /\ MutexType' /\ ChanType' /\ ResetType' /\ EnvType'
    BY <1>6 DEF SendRequest, SandboxType, MutexType, ChanType, ResetType, EnvType
  <2>3. /\ UNCHANGED <<mutexVars, sender, replies>>
        /\ \A d \in Calls : d # c => call'[d] = call[d]
        /\ call'[c].main = call[c].main /\ call'[c].rel = call[c].rel
        /\ call[c].fast # "none" /\ call'[c].fast # "none"
        /\ call'[c].fast \in {"init", "shutdown", "stream"}
              => call[c].fast \in {"init", "shutdown", "stream"}
    BY <1>6, <1>c DEF SendRequest, CallType, CallRec
  <2>4. ctx.stream = c => \/ ctx.sent = TRUE /\ call'[c].fast \in {"wait", "done"}
                          \/ call'[c].fast = "wait" /\ call'[c].fastCtx = resv
    BY <1>6, <1>c, <1>n DEF SendRequest, CallType, CallRec, Core, Streams, Reserved,
       MutexType
  <2> QED
    BY <2>1, <2>2, <2>3, <2>4, FastKeeps
<1>7. CASE ResponseReceived(c)
  BY <1>7, ReceivedKeeps DEF ResponseReceived
<1>8. CASE ReservationDone(c)
  <2>1. CallType'
    BY <1>8, <1>c, CallMove DEF ReservationDone, CallRec
  <2>2. SandboxType' /\ MutexType' /\ ChanType' /\ ResetType' /\ EnvType'
    BY <1>8 DEF ReservationDone, SandboxType, MutexType, ChanType, ResetType, EnvType
  <2>3. /\ UNCHANGED <<mutexVars, sender, replies>>
        /\ \A d \in Calls : d # c => call'[d] = call[d]
        /\ call'[c].main = call[c].main /\ call'[c].rel = call[c].rel
        /\ call[c].fast # "none" /\ call'[c].fast # "none"
        /\ call'[c].fast \in {"init", "shutdown", "stream"}
              => call[c].fast \in {"init", "shutdown", "stream"}
    BY <1>8, <1>c DEF ReservationDone, CallType, CallRec
  <2>4. ctx.stream = c => \/ ctx.sent = TRUE /\ call'[c].fast \in {"wait", "done"}
                          \/ call'[c].fast = "wait" /\ call'[c].fastCtx = resv
    <3>1. /\ call' = [call EXCEPT ![c].fast = "done"]
          /\ call[c].fast = "wait" /\ call[c].fastCtx \in released
      BY <1>8 DEF ReservationDone
    <3>2. call'[c].fast = "done"
      BY <1>c, <3>1 DEF CallType, CallRec
    <3>3. ctx.stream = c => ctx.sent = TRUE
      BY <1>n, <3>1 DEF Core, Streams, Reserved, MutexType
    <3> QED
      BY <3>2, <3>3
  <2> QED
    BY <2>1, <2>2, <2>3, <2>4, FastKeeps
<1> QED
  BY <1>1, <1>2, <1>3, <1>4, <1>5, <1>6, <1>7, <1>8 DEF Fast

\* The goroutine of the request that FastInvoke passes on.
LEMMA ReqStep ==
    ASSUME TypeOK, Core, NEW c \in Calls, Req(c)
    PROVE  TypeOK' /\ Core'
<1> USE DEF TypeOK, sandboxVars, mutexVars, chanVars, envVars
<1>c. CallType /\ call[c] \in CallRec
  BY DEF CallType
<1>1. CASE HandleInvoke(c)
  <2>1. CallType'
    BY <1>1, <1>c, CallMove DEF HandleInvoke, CallRec
  <2>2. SandboxType'
    BY <1>1 DEF HandleInvoke, Begin, Handlers, SandboxType
  <2>3. EnvType'
    BY <1>1 DEF HandleInvoke, CallType, CallRec, EnvType
  <2>4. MutexType' /\ ChanType' /\ ResetType'
    BY <1>1 DEF HandleInvoke, MutexType, ChanType, ResetType
  <2>5. CallFrame /\ UNCHANGED <<mutexVars, sender, replies>>
    BY <1>1 DEF HandleInvoke, CallFrame, CallType, CallRec, Core, Reserved
  <2> QED
    BY <2>1, <2>2, <2>3, <2>4, <2>5, Calm
<1>2. CASE DefaultErrorID(c)
  <2>1. CallType'
    BY <1>2, <1>c, CallMove DEF DefaultErrorID, CallRec, MutexType
  <2>2. SandboxType' /\ MutexType' /\ ChanType' /\ ResetType' /\ EnvType'
    BY <1>2 DEF DefaultErrorID, SandboxType, MutexType, ChanType, ResetType, EnvType
  <2>3. CallFrame /\ UNCHANGED <<mutexVars, sender, replies>>
    BY <1>2 DEF DefaultErrorID, CallFrame, CallType, CallRec, Core, Reserved
  <2> QED
    BY <2>1, <2>2, <2>3, Calm
<1>3. CASE SendDefaultError(c) /\ Accepts(call[c].id)
  <2>1. /\ Write(c, "default") /\ MutexFree /\ UNCHANGED mutexVars
        /\ call' = [call EXCEPT ![c].req = "sending"]
    BY <1>3 DEF SendDefaultError, Accepts
  <2>2. ctx.stream # 0 /\ ~ctx.sent
    BY <1>3 DEF Accepts
  <2>3. CallType'
    BY <1>c, <2>1, CallMove DEF CallRec
  <2>4. CallFrame
    BY <1>c, <2>1 DEF CallFrame, CallType, CallRec, Core, Reserved
  <2>5. Core' /\ replies' \in [Calls -> Seq(Calls)]
    BY <2>1, <2>2, <2>4, WriteKeeps
  <2>6. EnvType' /\ ChanType'
    BY <1>3, <2>1, <2>5 DEF SendDefaultError, Accepts, Write, EnvType, ChanType
  <2>7. SandboxType' /\ MutexType' /\ ResetType'
    BY <1>3 DEF SendDefaultError, SandboxType, MutexType, ResetType
  <2> QED
    BY <2>3, <2>5, <2>6, <2>7
<1>4. CASE SendDefaultError(c) /\ ~Accepts(call[c].id)
  <2>1. /\ call' = [call EXCEPT ![c].req = "doneFail"] \/ call' = call
        /\ panicked' \in {panicked, "defaultError"} /\ UNCHANGED <<replies, sender, mutexVars>>
    BY <1>4 DEF SendDefaultError
  <2>2. CallType'
    <3>1. [call[c] EXCEPT !.req = "doneFail"] \in CallRec
      BY <1>c DEF CallRec
    <3>2. CASE call' = [call EXCEPT ![c].req = "doneFail"]
      BY <3>1, <3>2, CallMove
    <3>3. CASE call' = call
      BY <3>3 DEF CallType
    <3> QED
      BY <2>1, <3>2, <3>3
  <2>3. EnvType'
    BY <1>4, <2>1 DEF SendDefaultError, EnvType
  <2>4. SandboxType' /\ MutexType' /\ ChanType' /\ ResetType'
    BY <1>4, <2>1 DEF SendDefaultError, SandboxType, MutexType, ChanType, ResetType
  <2>5. CallFrame
    BY <1>c, <2>1 DEF CallFrame, CallType, CallRec, Core, Reserved
  <2> QED
    BY <2>1, <2>2, <2>3, <2>4, <2>5, Calm
<1>5. CASE RequestDone(c)
  <2>1. CallType'
    <3>1. call' = [call EXCEPT ![c].req = "done"] /\ [call[c] EXCEPT !.req = "done"] \in CallRec
      BY <1>5, <1>c DEF RequestDone, CallRec
    <3> QED
      BY <1>c, <3>1, CallMove
  <2>2. ChanType'
    BY <1>5 DEF RequestDone, ChanType
  <2>3. SandboxType' /\ MutexType' /\ ResetType' /\ EnvType'
    BY <1>5 DEF RequestDone, SandboxType, MutexType, ResetType, EnvType
  <2>4. CallFrame /\ UNCHANGED <<mutexVars, sender, replies>>
    BY <1>5 DEF RequestDone, CallFrame, CallType, CallRec, Core, Reserved
  <2> QED
    BY <2>1, <2>2, <2>3, <2>4, Calm
<1> QED
  BY <1>1, <1>2, <1>3, <1>4, <1>5 DEF Req

\* The sandbox and the function, main's wait for the init, and hot reloading.
LEMMA OtherStep ==
    ASSUME TypeOK, Core, InitError \/ AwaitInitialized \/ Handler \/ RuntimeResponds \/ Crash
           \/ (\E k \in 1..MaxReloads : HotReload(k))
    PROVE  TypeOK' /\ Core'
<1> USE DEF TypeOK, sandboxVars, mutexVars, chanVars, envVars
<1>1. CASE InitError
  <2>1. ChanType'
    BY <1>1 DEF InitError, ChanType
  <2>2. SandboxType' /\ MutexType' /\ CallType' /\ ResetType' /\ EnvType'
    BY <1>1 DEF InitError, SandboxType, MutexType, CallType, ResetType, EnvType
  <2>3. CallFrame /\ UNCHANGED <<mutexVars, sender, replies>>
    BY <1>1 DEF InitError, CallFrame, CallType, CallRec, Core, Reserved
  <2> QED
    BY <2>1, <2>2, <2>3, Calm
<1>2. CASE AwaitInitialized
  <2>1. ChanType'
    BY <1>2 DEF AwaitInitialized, ChanType
  <2>2. SandboxType' /\ CallType' /\ ResetType' /\ EnvType'
    BY <1>2 DEF AwaitInitialized, SandboxType, CallType, ResetType, EnvType
  <2>3. CallFrame /\ Release /\ UNCHANGED <<sender, replies>>
    BY <1>2 DEF AwaitInitialized, CallFrame, CallType, CallRec, Core, Reserved
  <2> QED
    BY <2>1, <2>2, <2>3, ReleaseKeeps
<1>3. ASSUME NEW r \in Outcomes, InitReturns(r) PROVE TypeOK' /\ Core'
  <2>1. SandboxType'
    BY <1>3 DEF InitReturns, Finish, SandboxType
  <2>2. ChanType'
    BY <1>3 DEF InitReturns, ChanType
  <2>3. MutexType' /\ CallType' /\ ResetType' /\ EnvType'
    BY <1>3 DEF InitReturns, MutexType, CallType, ResetType, EnvType
  <2>4. CallFrame /\ UNCHANGED <<mutexVars, sender, replies>>
    BY <1>3 DEF InitReturns, CallFrame, CallType, CallRec, Core, Reserved
  <2> QED
    BY <2>1, <2>2, <2>3, <2>4, Calm
<1>4. ASSUME NEW c \in Calls, NEW r \in Outcomes, HandlerReturns(c, r) PROVE TypeOK' /\ Core'
  <2>1. CallType'
    BY <1>4, CallMove DEF HandlerReturns, Outcomes, CallType, CallRec
  <2>2. SandboxType'
    BY <1>4 DEF HandlerReturns, Finish, SandboxType
  <2>3. MutexType' /\ ChanType' /\ ResetType' /\ EnvType'
    BY <1>4 DEF HandlerReturns, MutexType, ChanType, ResetType, EnvType
  <2>4. CallFrame /\ UNCHANGED <<mutexVars, sender, replies>>
    BY <1>4 DEF HandlerReturns, CallFrame, CallType, CallRec, Core, Reserved
  <2> QED
    BY <2>1, <2>2, <2>3, <2>4, Calm
<1>5. CASE RuntimeResponds /\ Accepts(rt.id)
  <2>1. /\ Write(rt.id, "runtime") /\ MutexFree /\ UNCHANGED <<mutexVars, call>>
        /\ rt' = [rt EXCEPT !.state = "sending"]
    BY <1>5 DEF RuntimeResponds
  <2>2. ctx.stream # 0 /\ ~ctx.sent /\ rt.id \in Calls
    BY <1>5 DEF Accepts, EnvType, Core, Reserved
  <2>3. CallFrame
    BY <2>1 DEF CallFrame, Core, Reserved
  <2>4. Core' /\ replies' \in [Calls -> Seq(Calls)]
    BY <2>1, <2>2, <2>3, WriteKeeps
  <2>5. EnvType' /\ ChanType'
    BY <1>5, <2>1, <2>4 DEF RuntimeResponds, Write, EnvType, ChanType
  <2>6. SandboxType' /\ MutexType' /\ CallType' /\ ResetType'
    BY <1>5 DEF RuntimeResponds, SandboxType, MutexType, CallType, ResetType
  <2> QED
    BY <2>4, <2>5, <2>6
<1>6. CASE RuntimeResponds /\ ~Accepts(rt.id)
  <2>1. EnvType'
    BY <1>6 DEF RuntimeResponds, EnvType
  <2>2. SandboxType' /\ MutexType' /\ ChanType' /\ CallType' /\ ResetType'
    BY <1>6 DEF RuntimeResponds, SandboxType, MutexType, ChanType, CallType, ResetType
  <2>3. CallFrame /\ UNCHANGED <<mutexVars, sender, replies>>
    BY <1>6 DEF RuntimeResponds, CallFrame, CallType, CallRec, Core, Reserved
  <2> QED
    BY <2>1, <2>2, <2>3, Calm
<1>7. CASE Crash
  <2>1. SandboxType'
    BY <1>7 DEF Crash, Cancel, Causes, SandboxType
  <2>2. EnvType'
    BY <1>7 DEF Crash, EnvType
  <2>3. MutexType' /\ ChanType' /\ CallType' /\ ResetType'
    BY <1>7 DEF Crash, MutexType, ChanType, CallType, ResetType
  <2>4. CallFrame /\ UNCHANGED <<mutexVars, sender, replies>>
    BY <1>7 DEF Crash, CallFrame, CallType, CallRec, Core, Reserved
  <2> QED
    BY <2>1, <2>2, <2>3, <2>4, Calm
<1>8. ASSUME NEW k \in 1..MaxReloads, HotReload(k) PROVE TypeOK' /\ Core'
  <2>1. ResetType'
    BY <1>8 DEF HotReload, StartReset, ResetRec, Resets, ResetType
  <2>2. SandboxType' /\ MutexType' /\ ChanType' /\ CallType' /\ EnvType'
    BY <1>8 DEF HotReload, StartReset, SandboxType, MutexType, ChanType, CallType, EnvType
  <2>3. CallFrame /\ UNCHANGED <<mutexVars, sender, replies>>
    BY <1>8 DEF HotReload, StartReset, CallFrame, CallType, CallRec, Core, Reserved
  <2> QED
    BY <2>1, <2>2, <2>3, Calm
<1> QED
  BY <1>1, <1>2, <1>3, <1>4, <1>5, <1>6, <1>7, <1>8 DEF Handler

\* Every step keeps the inductive invariant.
LEMMA ServerStep ==
    TypeOK /\ Core /\ [Next]_vars => TypeOK' /\ Core'
<1> SUFFICES ASSUME TypeOK, Core, [Next]_vars PROVE TypeOK' /\ Core'
  OBVIOUS
<1>1. CASE UNCHANGED vars
  <2>1. TypeOK'
    <3>1. SandboxType' /\ MutexType' /\ ChanType'
      BY <1>1 DEF vars, sandboxVars, mutexVars, chanVars, TypeOK, SandboxType, MutexType, ChanType
    <3>2. CallType' /\ ResetType' /\ EnvType'
      BY <1>1 DEF vars, envVars, TypeOK, CallType, ResetType, EnvType
    <3> QED
      BY <3>1, <3>2 DEF TypeOK
  <2>2. Core'
    BY <1>1 DEF vars, mutexVars, chanVars, envVars, Core, Reserved, Streams, Unwritten, OneReply
  <2> QED
    BY <2>1, <2>2
<1>2. CASE Next
  BY <1>2, ResetStep, MainStep, RelStep, FastStep, ReqStep, OtherStep DEF Next
<1> QED
  BY <1>1, <1>2

\* The inductive invariant holds in every state: whatever is reserved is not released,
\* the FastInvoke that set the current reply stream is still there to receive the reply,
\* and nothing was written to the stream while ReplySent is false.
THEOREM Invariance == Spec => []ServerInv
<1>1. Init => TypeOK /\ Core
  BY ServerInit
<1>2. TypeOK /\ Core /\ [Next]_vars => (TypeOK /\ Core)'
  BY ServerStep
<1>3. TypeOK /\ Core => ServerInv
  BY DEF ServerInv, Core
<1> QED
  BY <1>1, <1>2, <1>3, PTL DEF Spec

\* The server stays within its types: in particular a result in InvokeDoneChan is a
\* success or a failure, and only calls that were reserved are ever released.
THEOREM TypeCorrect == Spec => []TypeOK
<1>1. ServerInv => TypeOK
  BY DEF ServerInv
<1> QED
  BY <1>1, Invariance, PTL

\* No reply stream is written to twice (sendResponseUnsafe), for any number of calls,
\* also when they overlap, time out or are reset by a hot reload in the middle.
THEOREM OneReplyEver == Spec => []OneReply
<1>1. ServerInv => OneReply
  BY DEF ServerInv
<1> QED
  BY <1>1, Invariance, PTL

\* Whoever is blocked on sendResponseChan with Server.mutex in his hands has a
\* FastInvoke that will receive: the unbuffered send under the mutex cannot hang.
THEOREM SenderAlwaysReceived == Spec => []SenderHasReceiver
<1>1. ServerInv => SenderHasReceiver
  <2> SUFFICES ASSUME ServerInv, sender # "none" PROVE SenderHasReceiver
    BY DEF SenderHasReceiver
  <2>1. ctx.stream # 0 /\ ~ctx.sent /\ ctx # NoCtx
    BY DEF ServerInv, Streams, NoCtx
  <2>2. ctx.stream \in Calls /\ resv \notin released
    BY <2>1 DEF ServerInv, TypeOK, MutexType, Reserved
  <2>3. \/ call[ctx.stream].fast = "peek"
        \/ call[ctx.stream].fast = "wait" /\ call[ctx.stream].fastCtx = resv
    BY <2>1 DEF ServerInv, Streams
  <2> QED
    BY <2>2, <2>3 DEF SenderHasReceiver
<1> QED
  BY <1>1, Invariance, PTL
-----------------------------------------------------------------------------
(* The server as LocalStack uses it.                                       *)

\* main awaits the init, one call comes after the other, goroutines that can run do so before a
\* timeout or a reset gets on, and nothing is reloaded.
Sequential == MainAwaits /\ ~Overlap /\ Prompt /\ MaxReloads = 0

TimeoutReset(c) == reset[<<c, "timeout">>]
FailureReset(c) == reset[<<c, "failure">>]

Unused(r)  == r.go = "idle" /\ r.caller = "idle"
Resting(r) == Unused(r) \/ (r.go = "done" /\ r.caller = "returned")
Working(r) == r.go \notin {"idle", "done"}
Waiting(r) == r.caller = "wait"

\* Whichever caller gets the value of which reset, as many wait as resets are at work.
Paired(c) ==
    LET t == TimeoutReset(c)
        f == FailureReset(c)
    IN  /\ t.go = "idle" <=> t.caller = "idle"
        /\ f.go = "idle" <=> f.caller = "idle"
        /\ Working(t) \/ Working(f) <=> Waiting(t) \/ Waiting(f)
        /\ Working(t) /\ Working(f) <=> Waiting(t) /\ Waiting(f)

Live(c) == call[c].main \in {"select", "resetting"}
Free    == ctx.id = 0

Sending  == {"none", "init", "stream", "peek"}
Pending  == {"send", "handling", "ok", "fail", "default", "sending", "doneFail"}
Emptied  == {"release", "handoff", "done"}
Released == {"handoff", "done"}

\* How far the four goroutines of the one call under way, its resets and its reservation can be
\* apart.
RelInv(c) ==
    /\ call[c].rel \notin {"none", "done"} /\ call[c].ret = "none"
    /\ call[c].main = "select" <=> Unused(TimeoutReset(c))
    /\ call[c].rel \in {"resetting", "sendErr"} <=> ~Unused(FailureReset(c))
    /\ call[c].rel = "sendErr" => FailureReset(c).caller = "returned"
    /\ call[c].rel = "reserve" => call[c].fast = "none" /\ Free
    /\ call[c].rel = "await" => call[c].relCtx = c
    /\ call[c].main = "select" /\ call[c].rel \in {"reserved", "await"} => ctx.id = c
    /\ call[c].rel = "sendOk" => Free /\ (call[c].main = "select" => replies[c] # <<>>)
    /\ call[c].rel \in {"resetting", "sendErr"} => replies[c] # <<>>
    /\ call[c].rel \in {"resetting", "sendErr", "sendOk"} => call[c].req = "done"
    /\ TimeoutReset(c).go \in Released \/ FailureReset(c).go \in Released => Free

FastInv(c) ==
    /\ call[c].timer = "fired" \/ call[c].main = "resetting"
         => /\ call[c].rel \notin {"reserve", "reserved"} /\ call[c].fast \in {"wait", "done"}
            /\ call[c].req # "send"
    /\ call[c].fast \in Sending <=> call[c].req = "none"
    /\ call[c].fast = "none" => call[c].rel = "reserve"
    /\ call[c].fast \in {"init", "stream"} => ctx.id = c /\ ctx.stream = 0 /\ ~ctx.sent
    /\ call[c].fast = "peek" => ctx.id = c /\ ctx.stream = c /\ ~ctx.sent /\ sender = "none" /\ call[c].id = c

ReqInv(c) ==
    /\ call[c].req \in Pending => /\ ctx.id = c /\ ctx.stream = c /\ call[c].id = c
                                  /\ call[c].rel \in {"reserved", "await"}
                                  /\ TimeoutReset(c).go \notin Emptied
    /\ call[c].req = "handling" => /\ holder = "invoke" /\ rt.id = c
                                   /\ TimeoutReset(c).go \in {"idle", "cancel", "lock"}
    /\ call[c].req \in {"ok", "sending", "doneFail"} => replies[c] # <<>>
    /\ rt.id = c => call[c].req # "none"

\* A call that has not begun, is under way, or has returned.
CallInv(c) ==
    /\ Paired(c) /\ call[c].fast # "shutdown"
    /\ call[c].main = "new" => /\ call[c].req = "none" /\ call[c].timer = "off" /\ call[c].ret = "none"
                               /\ rt.id # c
                               /\ Unused(TimeoutReset(c)) /\ Unused(FailureReset(c))
    /\ Live(c) => RelInv(c) /\ FastInv(c) /\ ReqInv(c)
    /\ call[c].main = "returned" => /\ call[c].rel = "done" /\ call[c].fast \in {"wait", "done"}
                                    /\ call[c].req = "done" /\ call[c].ret # "none"
                                    /\ Resting(TimeoutReset(c)) /\ Resting(FailureReset(c))
                                    /\ call[c].ret # "timeout" => replies[c] # <<>>

\* One call at a time, after the init.
OrderInv ==
    /\ \A c, d \in Calls : d < c /\ call[c].main # "new" => call[d].main = "returned"
    /\ initChan # "closed" => \A c \in Calls : call[c].main = "new"
    /\ holder = "init" => initChan = "pending"

\* Reservation, stream, runtime and result belong to the call under way, and what counts as
\* answered was written.
CtxInv ==
    /\ ~Free => Live(ctx.id)
    /\ ctx.stream # 0 => ctx.stream = ctx.id
    /\ ctx.sent \/ sender # "none" => replies[ctx.id] # <<>>
    /\ rt.state \in {"sending", "answered"} => rt.id \in Calls /\ replies[rt.id] # <<>>
    /\ doneChan # "empty" => /\ ~Free /\ call[ctx.id].rel \in {"reserved", "await"}
                             /\ call[ctx.id].req = "done" /\ replies[ctx.id] # <<>>
                             /\ TimeoutReset(ctx.id).go \notin Emptied

SeqInv == OrderInv /\ CtxInv /\ ReplyToOwner /\ panicked = "no" /\ \A c \in Calls : CallInv(c)

\* A reservation is that of a call; without one the stream and the mark are reset too.
LEMMA CtxFacts ==
    ASSUME TypeOK, Core
    PROVE  /\ ctx = NoCtx <=> Free
           /\ Free => ctx.stream = 0 /\ ~ctx.sent
           /\ ~Free => ctx.id \in Calls /\ ctx.id = resv /\ resv \notin released
           /\ 0 \notin Calls
BY ServerAssumption DEF TypeOK, MutexType, Core, Reserved, NoCtx, Free

\* Only one call is under way.
LEMMA OneLive ==
    ASSUME OrderInv, NEW c \in Calls, NEW d \in Calls, Live(c), Live(d)
    PROVE  c = d
<1>1. c \in Nat /\ d \in Nat
  BY ServerAssumption
<1> QED
  BY <1>1 DEF OrderInv, Live

\* A call that is not under way may only leave its FastInvoke or its timer behind.
Aside(d) ==
    /\ call[d].main = "returned" \/ call'[d].timer = call[d].timer
    /\ call'[d].main = call[d].main /\ call'[d].rel = call[d].rel
    /\ call'[d].req = call[d].req /\ call'[d].ret = call[d].ret
    /\ call'[d].fast \in {call[d].fast, "done"}
    /\ TimeoutReset(d)' = TimeoutReset(d) /\ FailureReset(d)' = FailureReset(d)
    /\ replies[d] # <<>> => replies'[d] # <<>>
    /\ rt'.id = d => rt.id = d

\* That does not touch what is known of it.
LEMMA AsideKept ==
    ASSUME NEW d \in Calls, CallInv(d), ~Live(d), Aside(d)
    PROVE  CallInv(d)'
BY DEF CallInv, Live, Aside, Paired, TimeoutReset, FailureReset, Unused, Resting, Working, Waiting

\* A step of the call under way, put together.
LEMMA LiveMoves ==
    ASSUME SeqInv, NEW c \in Calls, Live(c), \A d \in Calls \ {c} : Aside(d),
           initChan' = initChan, holder' = "init" => holder = "init", call'[c].main # "new",
           CallInv(c)', CtxInv', ReplyToOwner', panicked' = "no"
    PROVE  SeqInv'
<1>1. \A d \in Calls \ {c} : ~Live(d)
  BY OneLive DEF SeqInv
<1>2. \A d \in Calls : CallInv(d)'
  BY <1>1, AsideKept DEF SeqInv
<1>3. \A d \in Calls : /\ d # c => call'[d].main = call[d].main
  BY DEF Aside
<1>4. OrderInv'
  <2>1. Calls \subseteq Nat
    BY ServerAssumption
  <2>2. call[c].main # "new" /\ call[c].main # "returned"
    BY DEF Live
  <2>3. \A e, d \in Calls : d < e /\ call'[e].main # "new" => call'[d].main = "returned"
    BY <1>3, <2>1, <2>2 DEF OrderInv, SeqInv
  <2> QED
    BY <2>2, <2>3 DEF OrderInv, SeqInv
<1> QED
  BY <1>2, <1>4 DEF SeqInv

\* What a step leaves to the other calls when it moves call c and its resets only.
LEMMA Moved ==
    ASSUME TypeOK, NEW c \in Calls, NEW new, call' = [call EXCEPT ![c] = new],
           \A r \in Resets : r[1] # c => reset'[r] = reset[r],
           \A d \in Calls : d # c => replies'[d] = replies[d],
           rt'.id \in {rt.id, c}
    PROVE  \A d \in Calls \ {c} : Aside(d)
<1> SUFFICES ASSUME NEW d \in Calls \ {c} PROVE Aside(d)
  OBVIOUS
<1>1. call'[d] = call[d]
  BY DEF TypeOK, CallType
<1>2. TimeoutReset(d)' = TimeoutReset(d) /\ FailureReset(d)' = FailureReset(d)
  BY DEF TimeoutReset, FailureReset, Resets
<1> QED
  BY <1>1, <1>2 DEF Aside

\* The fields of a call under way that a step may change.
LEMMA LiveFacts ==
    ASSUME TypeOK, Core, SeqInv, NEW c \in Calls, Live(c)
    PROVE  /\ RelInv(c) /\ FastInv(c) /\ ReqInv(c) /\ Paired(c) /\ call[c].fast # "shutdown"
           /\ Free \/ ctx.id = c
           /\ call[c] \in CallRec /\ TimeoutReset(c) \in ResetRec /\ FailureReset(c) \in ResetRec
<1>1. CallInv(c) /\ OrderInv /\ CtxInv
  BY DEF SeqInv
<1>2. Free \/ ctx.id = c
  BY <1>1, CtxFacts, OneLive DEF CtxInv
<1>3. <<c, "timeout">> \in Resets /\ <<c, "failure">> \in Resets
  BY DEF Resets
<1> QED
  BY <1>1, <1>2, <1>3 DEF CallInv, TypeOK, CallType, ResetType, TimeoutReset, FailureReset

\* The end of Invoke: nothing of the call is left at work.
LEMMA ReturnsSeq ==
    ASSUME TypeOK, Core, SeqInv, NEW c \in Calls, Live(c), NEW r \in {"ok", "failed", "timeout"}, Returns(c, r),
           Resting(TimeoutReset(c)), Resting(FailureReset(c)), call[c].req = "done", call[c].fast \in {"wait", "done"},
           r # "timeout" => replies[c] # <<>>, doneChan = "empty",
           ctx'.id = 0, ctx'.stream = 0, ctx'.sent = FALSE, sender = "none"
    PROVE  SeqInv'
<1>1. /\ call' = [call EXCEPT ![c] = [call[c] EXCEPT !.main = "returned", !.rel = "done", !.ret = r,
                                                     !.timer = Stopped(call[c].timer)]]
      /\ UNCHANGED <<holder, initChan, sender, doneChan, reset, rt, replies, panicked>>
  BY DEF Returns, sandboxVars, chanVars, envVars
<1>2. /\ call'[c].main = "returned" /\ call'[c].rel = "done" /\ call'[c].ret = r
      /\ call'[c].fast = call[c].fast /\ call'[c].req = call[c].req
  BY <1>1, LiveFacts DEF TypeOK, CallType, CallRec
<1>3. \A d \in Calls \ {c} : Aside(d)
  BY <1>1, Moved
<1>4. CallInv(c)'
  BY <1>1, <1>2, LiveFacts DEF CallInv, Live, Paired, TimeoutReset, FailureReset, Working, Waiting, Resting, Unused
<1>5. CtxInv'
  BY <1>1 DEF CtxInv, SeqInv, Free
<1>6. ReplyToOwner' /\ panicked' = "no"
  BY <1>1 DEF SeqInv, ReplyToOwner
<1> QED
  BY <1>1, <1>2, <1>3, <1>4, <1>5, <1>6, LiveMoves

\* When nobody waits any more, no reset of the call is at work; and a caller that goes on was
\* sent the value of a reset that is over.
LEMMA ResetsOver ==
    ASSUME NEW c \in Calls, Paired(c), TimeoutReset(c) \in ResetRec, FailureReset(c) \in ResetRec
    PROVE  /\ /\ TimeoutReset(c).caller \in {"idle", "returned"}
              /\ FailureReset(c).caller \in {"idle", "returned"}
              => Resting(TimeoutReset(c)) /\ Resting(FailureReset(c))
           /\ \/ TimeoutReset(c).caller \in {"release", "returned"}
              \/ FailureReset(c).caller \in {"release", "returned"}
              => TimeoutReset(c).go = "done" \/ FailureReset(c).go = "done"
BY DEF Paired, ResetRec, Resting, Unused, Working, Waiting

\* The goroutine of Invoke itself.
LEMMA MainSeq ==
    ASSUME Sequential, TypeOK, Core, SeqInv, NEW c \in Calls, Main(c)
    PROVE  SeqInv'
<1>l. Live(c)
  BY DEF Main, MainTimeout, MainFailure, MainSuccess, MainTimedOut, Live
<1>f. /\ RelInv(c) /\ FastInv(c) /\ ReqInv(c) /\ Paired(c)
      /\ call[c].fast # "shutdown"
      /\ Free \/ ctx.id = c
      /\ call[c] \in CallRec /\ TimeoutReset(c) \in ResetRec /\ FailureReset(c) \in ResetRec
  BY <1>l, LiveFacts
<1>x. CtxInv
  BY DEF SeqInv
<1>1. CASE MainTimeout(c)
  <2>1. /\ call[c].main = "select" /\ call[c].timer = "fired"
        /\ call' = [call EXCEPT ![c] = [call[c] EXCEPT !.main = "resetting", !.timer = "off"]]
        /\ reset' = [reset EXCEPT ![<<c, "timeout">>] = [go |-> "cancel", caller |-> "wait"]]
        /\ UNCHANGED <<holder, ctx, initChan, sender, doneChan, rt, replies, panicked>>
    BY <1>1 DEF MainTimeout, StartReset, sandboxVars, mutexVars, chanVars, envVars
  <2>2. /\ call'[c].main = "resetting" /\ call'[c].timer = "off"
        /\ call'[c].rel = call[c].rel /\ call'[c].relCtx = call[c].relCtx
        /\ call'[c].fast = call[c].fast /\ call'[c].req = call[c].req
        /\ call'[c].id = call[c].id /\ call'[c].ret = call[c].ret
    BY <1>f, <2>1 DEF TypeOK, CallType, CallRec
  <2>3. /\ TimeoutReset(c)'.go = "cancel" /\ TimeoutReset(c)'.caller = "wait"
        /\ FailureReset(c)' = FailureReset(c)
        /\ \A r \in Resets : r[1] # c => reset'[r] = reset[r]
    BY <2>1 DEF TimeoutReset, FailureReset, Resets, TypeOK, ResetType
  <2>4. \A d \in Calls \ {c} : Aside(d)
    BY <2>1, <2>3, Moved
  <2>5. Unused(TimeoutReset(c))
    BY <1>f, <2>1 DEF RelInv
  <2>6. Paired(c)'
    BY <1>f, <2>3, <2>5 DEF Paired, Unused, Working, Waiting, ResetRec
  <2>7. RelInv(c)'
    BY <1>f, <2>1, <2>2, <2>3, <2>5 DEF RelInv, Unused, Free, Released
  <2>8. FastInv(c)' /\ ReqInv(c)'
    BY <1>f, <2>1, <2>2, <2>3, <2>5 DEF FastInv, ReqInv, Unused, Sending, Pending, Emptied
  <2>9. CallInv(c)'
    BY <1>f, <2>2, <2>6, <2>7, <2>8 DEF CallInv, Live
  <2>10. CtxInv'
    BY <1>f, <1>x, <2>1, <2>2, <2>3, <2>5 DEF CtxInv, Free, Live, Emptied, TimeoutReset
  <2> QED
    BY <1>l, <2>1, <2>2, <2>4, <2>9, <2>10, LiveMoves DEF SeqInv, ReplyToOwner
<1>e. call[c].rel \in {"sendErr", "sendOk"} => doneChan = "empty"
  BY <1>f, <1>x DEF CtxInv
<1>s. call[c].rel \in {"sendErr", "sendOk"} => call[c].req = "done" /\ call[c].fast \in {"wait", "done"}
  BY <1>f DEF RelInv, FastInv, Sending, CallRec
<1>d. Free => ctx.stream = 0 /\ ctx.sent = FALSE /\ sender = "none"
  <2>1. Free => ctx.stream = 0 /\ ~ctx.sent
    BY CtxFacts
  <2>2. ctx.sent \in BOOLEAN
    BY DEF TypeOK, MutexType
  <2> QED
    BY <2>1, <2>2 DEF Core, Streams
<1>2. CASE MainFailure(c)
  <2>1. call[c].main = "select" /\ call[c].rel = "sendErr" /\ Returns(c, "failed") /\ ctx' = ctx
    BY <1>2 DEF MainFailure, mutexVars
  <2>2. Unused(TimeoutReset(c)) /\ FailureReset(c).caller = "returned" /\ replies[c] # <<>>
    BY <1>f, <2>1 DEF RelInv
  <2>3. Resting(TimeoutReset(c)) /\ Resting(FailureReset(c))
    BY <1>f, <2>2, ResetsOver DEF Unused
  <2>4. Free
    BY <1>f, <2>2, ResetsOver DEF RelInv, Released
  <2> QED
    BY <1>l, <1>e, <1>s, <1>d, <2>1, <2>2, <2>3, <2>4, ReturnsSeq DEF Free
<1>3. CASE MainSuccess(c)
  <2>1. call[c].main = "select" /\ call[c].rel = "sendOk" /\ Returns(c, "ok") /\ Release
    BY <1>3 DEF MainSuccess
  <2>2. ctx'.id = 0 /\ ctx'.stream = 0 /\ ctx'.sent = FALSE /\ sender = "none"
    BY <2>1 DEF Release, NoCtx, MutexFree
  <2>3. Unused(TimeoutReset(c)) /\ Unused(FailureReset(c)) /\ replies[c] # <<>>
    BY <1>f, <2>1 DEF RelInv
  <2> QED
    BY <1>l, <1>e, <1>s, <2>1, <2>2, <2>3, ReturnsSeq DEF Resting
<1>4. CASE MainTimedOut(c)
  <2>1. /\ TimeoutReset(c).caller = "returned" /\ call[c].rel \in {"sendErr", "sendOk"}
        /\ Returns(c, "timeout") /\ ctx' = ctx
    BY <1>4 DEF MainTimedOut, mutexVars, TimeoutReset
  <2>2. FailureReset(c).caller \in {"idle", "returned"}
    BY <1>f, <2>1 DEF RelInv, Unused
  <2>3. Resting(TimeoutReset(c)) /\ Resting(FailureReset(c))
    BY <1>f, <2>1, <2>2, ResetsOver
  <2>4. Free
    BY <1>f, <2>1, ResetsOver DEF RelInv, Released
  <2> QED
    BY <1>l, <1>e, <1>s, <1>d, <2>1, <2>3, <2>4, ReturnsSeq DEF Free
<1> QED
  BY <1>1, <1>2, <1>3, <1>4 DEF Main

\* The goroutine that reserves the server and awaits its release.
LEMMA RelSeq ==
    ASSUME Sequential, TypeOK, Core, SeqInv, NEW c \in Calls, Rel(c)
    PROVE  SeqInv'
<1>l. Live(c)
  <2>1. call[c].rel \notin {"none", "done"}
    BY DEF Rel, Reserve, AwaitRelease, ReleaseDone, ReleaseFailed, ReleaseCanceled, ReleaseAfterReset
  <2>2. call[c].main # "new" /\ call[c].main # "returned"
    BY <2>1 DEF Core, Reserved, SeqInv, CallInv
  <2> QED
    BY <2>2 DEF Live, TypeOK, CallType, CallRec
<1>f. /\ RelInv(c) /\ FastInv(c) /\ ReqInv(c) /\ Paired(c)
      /\ call[c].fast # "shutdown"
      /\ Free \/ ctx.id = c
      /\ call[c] \in CallRec /\ TimeoutReset(c) \in ResetRec /\ FailureReset(c) \in ResetRec
  BY <1>l, LiveFacts
<1>x. CtxInv /\ ReplyToOwner /\ panicked = "no"
  BY DEF SeqInv
<1>n. /\ ctx = NoCtx <=> Free
      /\ Free => ctx.stream = 0 /\ ~ctx.sent
      /\ ~Free => ctx.id \in Calls /\ ctx.id = resv /\ resv \notin released
      /\ 0 \notin Calls
  BY CtxFacts
<1>s. Free => sender = "none"
  BY <1>n DEF Core, Streams
<1>p. ASSUME UNCHANGED reset PROVE TimeoutReset(c)' = TimeoutReset(c) /\ FailureReset(c)' = FailureReset(c) /\ Paired(c)'
  BY <1>f, <1>p DEF TimeoutReset, FailureReset, Paired, Working, Waiting
<1>m. ASSUME NEW new, call' = [call EXCEPT ![c] = new], UNCHANGED <<reset, replies, rt>>
      PROVE  \A d \in Calls \ {c} : Aside(d)
  BY <1>m, Moved
<1>1. CASE Reserve(c)
  <2>0. Free /\ call[c].fast = "none" /\ call[c].rel = "reserve"
    BY <1>1, <1>f DEF Reserve, RelInv
  <2>1. /\ call' = [call EXCEPT ![c] = [call[c] EXCEPT !.rel = "reserved", !.fast = "init"]]
        /\ ctx' = [NoCtx EXCEPT !.id = c]
        /\ UNCHANGED <<holder, initChan, sender, doneChan, rt, replies, panicked, reset>>
    BY <1>1, <1>n, <2>0 DEF Reserve, sandboxVars, chanVars
  <2>2. /\ call'[c].rel = "reserved" /\ call'[c].fast = "init" /\ call'[c].main = call[c].main
        /\ call'[c].timer = call[c].timer /\ call'[c].req = call[c].req
        /\ call'[c].id = call[c].id /\ call'[c].ret = call[c].ret
    BY <1>f, <2>1 DEF TypeOK, CallType, CallRec
  <2>3. ctx'.id = c /\ ctx'.stream = 0 /\ ctx'.sent = FALSE /\ sender = "none"
    BY <1>s, <2>0, <2>1 DEF NoCtx
  <2>4. call[c].main = "select" /\ call[c].timer # "fired" /\ call[c].req = "none"
    BY <1>f, <1>l, <2>0 DEF FastInv, Live, Sending
  <2>5. RelInv(c)'
    BY <1>f, <1>p, <2>0, <2>1, <2>2, <2>3, <2>4 DEF RelInv, Released, Unused
  <2>6. FastInv(c)' /\ ReqInv(c)'
    BY <1>f, <2>1, <2>2, <2>3, <2>4 DEF FastInv, ReqInv, Sending, Pending
  <2>7. CallInv(c)'
    BY <1>l, <1>p, <2>1, <2>2, <2>5, <2>6 DEF CallInv, Live
  <2>8. doneChan = "empty"
    BY <1>x, <2>0 DEF CtxInv
  <2>9. CtxInv'
    BY <1>l, <1>n, <1>x, <2>1, <2>2, <2>3, <2>8 DEF CtxInv, Free, Live
  <2> QED
    BY <1>l, <1>m, <1>x, <2>1, <2>2, <2>4, <2>7, <2>9, LiveMoves DEF ReplyToOwner
<1>2. CASE AwaitRelease(c)
  <2>1. /\ call[c].rel = "reserved"
        /\ call' = [call EXCEPT ![c] = [call[c] EXCEPT !.rel = "await", !.relCtx = resv]]
        /\ UNCHANGED <<holder, ctx, initChan, sender, doneChan, rt, replies, panicked, reset>>
    BY <1>2 DEF AwaitRelease, sandboxVars, mutexVars, chanVars, envVars
  <2>2. /\ call'[c].rel = "await" /\ call'[c].relCtx = resv /\ call'[c].main = call[c].main
        /\ call'[c].timer = call[c].timer /\ call'[c].req = call[c].req /\ call'[c].fast = call[c].fast
        /\ call'[c].id = call[c].id /\ call'[c].ret = call[c].ret
    BY <1>f, <2>1 DEF TypeOK, CallType, CallRec
  <2>3. call[c].main = "select" /\ ctx.id = c /\ resv = c
    BY <1>f, <1>l, <1>n, <2>1 DEF RelInv, FastInv, Live, Free
  <2>5. RelInv(c)'
    BY <1>f, <1>p, <2>1, <2>2, <2>3 DEF RelInv, Released, Unused, Free
  <2>6. FastInv(c)' /\ ReqInv(c)'
    BY <1>f, <1>p, <2>1, <2>2, <2>3 DEF FastInv, ReqInv, Sending, Pending
  <2>7. CallInv(c)'
    BY <1>f, <1>p, <2>1, <2>2, <2>3, <2>5, <2>6 DEF CallInv, Live
  <2>9. CtxInv'
    BY <1>l, <1>n, <1>p, <1>x, <2>1, <2>2, <2>3 DEF CtxInv, Free, Live
  <2> QED
    BY <1>l, <1>m, <1>x, <2>1, <2>2, <2>3, <2>7, <2>9, LiveMoves DEF ReplyToOwner
<1>3. CASE ReleaseDone(c)
  <2>1. /\ call[c].rel = "await" /\ doneChan = "ok" /\ doneChan' = "empty" /\ sender = "none"
        /\ call' = [call EXCEPT ![c] = [call[c] EXCEPT !.rel = "sendOk"]] /\ ctx' = NoCtx
        /\ UNCHANGED <<holder, initChan, sender, rt, replies, panicked, reset>>
    BY <1>3 DEF ReleaseDone, Release, MutexFree, sandboxVars, mutexVars, chanVars, envVars
  <2>2. /\ call'[c].rel = "sendOk" /\ call'[c].main = call[c].main
        /\ call'[c].timer = call[c].timer /\ call'[c].req = call[c].req /\ call'[c].fast = call[c].fast
        /\ call'[c].id = call[c].id /\ call'[c].ret = call[c].ret
    BY <1>f, <2>1 DEF TypeOK, CallType, CallRec
  <2>3. ctx.id = c /\ call[c].req = "done" /\ replies[c] # <<>>
    BY <1>f, <1>x, <2>1 DEF CtxInv
  <2>4. ctx'.id = 0 /\ ctx'.stream = 0 /\ ctx'.sent = FALSE
    BY <2>1 DEF NoCtx
  <2>5. RelInv(c)'
    BY <1>f, <1>p, <2>1, <2>2, <2>3, <2>4 DEF RelInv, Free
  <2>6. FastInv(c)' /\ ReqInv(c)'
    BY <1>f, <2>1, <2>2, <2>3 DEF FastInv, ReqInv, Sending, Pending
  <2>7. CallInv(c)'
    BY <1>f, <1>l, <1>p, <2>1, <2>2, <2>5, <2>6 DEF CallInv, Live
  <2>9. CtxInv'
    BY <1>x, <2>1, <2>4 DEF CtxInv, Free
  <2> QED
    BY <1>l, <1>m, <1>x, <2>1, <2>2, <2>7, <2>9, LiveMoves DEF ReplyToOwner, Live
<1>4. CASE ReleaseFailed(c)
  <2>1. /\ call[c].rel = "await" /\ doneChan = "fail" /\ doneChan' = "empty"
        /\ call' = [call EXCEPT ![c] = [call[c] EXCEPT !.rel = "resetting"]]
        /\ reset' = [reset EXCEPT ![<<c, "failure">>] = [go |-> "cancel", caller |-> "wait"]]
        /\ UNCHANGED <<holder, ctx, initChan, sender, rt, replies, panicked>>
    BY <1>4 DEF ReleaseFailed, StartReset, sandboxVars, mutexVars, chanVars, envVars
  <2>2. /\ call'[c].rel = "resetting" /\ call'[c].main = call[c].main
        /\ call'[c].timer = call[c].timer /\ call'[c].req = call[c].req /\ call'[c].fast = call[c].fast
        /\ call'[c].id = call[c].id /\ call'[c].ret = call[c].ret
    BY <1>f, <2>1 DEF TypeOK, CallType, CallRec
  <2>3. /\ FailureReset(c)'.go = "cancel" /\ FailureReset(c)'.caller = "wait"
        /\ TimeoutReset(c)' = TimeoutReset(c)
        /\ \A r \in Resets : r[1] # c => reset'[r] = reset[r]
    BY <2>1 DEF TimeoutReset, FailureReset, Resets, TypeOK, ResetType
  <2>4. ctx.id = c /\ call[c].req = "done" /\ replies[c] # <<>> /\ Unused(FailureReset(c))
    BY <1>f, <1>x, <2>1 DEF CtxInv, RelInv
  <2>5. Paired(c)'
    BY <1>f, <2>3, <2>4 DEF Paired, Unused, Working, Waiting, ResetRec
  <2>6. RelInv(c)'
    BY <1>f, <2>1, <2>2, <2>3, <2>4 DEF RelInv, Free, Released, Unused
  <2>7. FastInv(c)' /\ ReqInv(c)'
    BY <1>f, <2>1, <2>2, <2>4 DEF FastInv, ReqInv, Sending, Pending
  <2>8. CallInv(c)'
    BY <1>f, <1>l, <2>2, <2>5, <2>6, <2>7 DEF CallInv, Live
  <2>9. CtxInv'
    BY <1>l, <1>x, <2>1, <2>2, <2>4 DEF CtxInv, Free, Live
  <2>10. \A d \in Calls \ {c} : Aside(d)
    BY <2>1, <2>3, Moved
  <2> QED
    BY <1>l, <1>x, <2>1, <2>2, <2>8, <2>9, <2>10, LiveMoves DEF ReplyToOwner, Live
<1>5. CASE ReleaseCanceled(c)
  <2>1. /\ call[c].rel = "await" /\ call[c].relCtx \in released
        /\ call' = [call EXCEPT ![c] = [call[c] EXCEPT !.rel = "sendOk"]]
        /\ UNCHANGED <<holder, ctx, initChan, sender, doneChan, rt, replies, panicked, reset>>
    BY <1>5 DEF ReleaseCanceled, sandboxVars, mutexVars, chanVars, envVars
  <2>2. /\ call'[c].rel = "sendOk" /\ call'[c].main = call[c].main
        /\ call'[c].timer = call[c].timer /\ call'[c].req = call[c].req /\ call'[c].fast = call[c].fast
        /\ call'[c].id = call[c].id /\ call'[c].ret = call[c].ret
    BY <1>f, <2>1 DEF TypeOK, CallType, CallRec
  <2>3. c \in released /\ Free /\ call[c].main = "resetting"
    <3>1. c \in released
      BY <1>f, <2>1 DEF RelInv
    <3>2. Free
      BY <1>f, <1>n, <3>1
    <3>3. call[c].main # "select"
      BY <1>f, <1>n, <2>1, <3>2 DEF RelInv, Free
    <3> QED
      BY <1>l, <3>1, <3>2, <3>3 DEF Live
  <2>4. call[c].req = "done" /\ doneChan = "empty"
    BY <1>f, <1>n, <1>x, <2>3 DEF CtxInv, ReqInv, FastInv, Sending, Pending, CallRec, Free
  <2>5. RelInv(c)'
    BY <1>f, <1>p, <2>1, <2>2, <2>3, <2>4 DEF RelInv, Free
  <2>6. FastInv(c)' /\ ReqInv(c)'
    BY <1>f, <2>1, <2>2, <2>4 DEF FastInv, ReqInv, Sending, Pending
  <2>7. CallInv(c)'
    BY <1>f, <1>l, <1>p, <2>1, <2>2, <2>5, <2>6 DEF CallInv, Live
  <2>9. CtxInv'
    BY <1>x, <2>1, <2>3, <2>4 DEF CtxInv, Free
  <2> QED
    BY <1>l, <1>m, <1>x, <2>1, <2>2, <2>7, <2>9, LiveMoves DEF ReplyToOwner, Live
<1>6. CASE ReleaseAfterReset(c)
  <2>1. /\ call[c].rel = "resetting" /\ FailureReset(c).caller = "returned"
        /\ call' = [call EXCEPT ![c] = [call[c] EXCEPT !.rel = "sendErr"]]
        /\ UNCHANGED <<holder, ctx, initChan, sender, doneChan, rt, replies, panicked, reset>>
    BY <1>6 DEF ReleaseAfterReset, sandboxVars, mutexVars, chanVars, envVars, FailureReset
  <2>2. /\ call'[c].rel = "sendErr" /\ call'[c].main = call[c].main
        /\ call'[c].timer = call[c].timer /\ call'[c].req = call[c].req /\ call'[c].fast = call[c].fast
        /\ call'[c].id = call[c].id /\ call'[c].ret = call[c].ret
    BY <1>f, <2>1 DEF TypeOK, CallType, CallRec
  <2>3. call[c].req = "done" /\ doneChan = "empty"
    BY <1>f, <1>x, <2>1 DEF CtxInv, RelInv
  <2>5. RelInv(c)'
    BY <1>f, <1>p, <2>1, <2>2, <2>3 DEF RelInv, Free
  <2>6. FastInv(c)' /\ ReqInv(c)'
    BY <1>f, <2>1, <2>2, <2>3 DEF FastInv, ReqInv, Sending, Pending
  <2>7. CallInv(c)'
    BY <1>f, <1>l, <1>p, <2>1, <2>2, <2>5, <2>6 DEF CallInv, Live
  <2>9. CtxInv'
    BY <1>f, <1>l, <1>x, <2>1, <2>2, <2>3 DEF CtxInv, Free, Live
  <2> QED
    BY <1>l, <1>m, <1>x, <2>1, <2>2, <2>7, <2>9, LiveMoves DEF ReplyToOwner, Live
<1> QED
  BY <1>1, <1>2, <1>3, <1>4, <1>5, <1>6 DEF Rel

\* A call that has returned may still have a FastInvoke or a timer that ends.
LEMMA Straggler ==
    ASSUME TypeOK, SeqInv, NEW c \in Calls, ~Live(c), NEW new, call' = [call EXCEPT ![c] = new], Aside(c),
           UNCHANGED <<holder, ctx, sender, doneChan, initChan, reset, rt, replies, panicked>>
    PROVE  SeqInv'
<1>1. \A d \in Calls : d # c => call'[d] = call[d]
  BY DEF TypeOK, CallType
<1>2. ASSUME NEW d \in Calls, d # c PROVE CallInv(d)'
  <2>1. call'[d] = call[d] /\ CallInv(d)
    BY <1>1, <1>2 DEF SeqInv
  <2> QED
    BY <2>1 DEF CallInv, RelInv, FastInv, ReqInv, Live, Paired, TimeoutReset, FailureReset, Unused, Resting, Working, Waiting, Free
<1>3. \A d \in Calls : CallInv(d)'
  BY <1>2, AsideKept DEF SeqInv
<1>4. \A d \in Calls : call'[d].main = call[d].main
  BY <1>1 DEF Aside
<1>5. OrderInv'
  BY <1>4 DEF SeqInv, OrderInv
<1>6. CtxInv'
  <2>1. Live(c)' = Live(c)
    BY <1>4 DEF Live
  <2>2. ~Free => ctx.id # c /\ Live(ctx.id)
    BY DEF SeqInv, CtxInv
  <2>3. ~Free => ctx.id \in Calls
    BY DEF TypeOK, MutexType, Free
  <2>4. ~Free => call'[ctx.id] = call[ctx.id]
    BY <1>1, <2>2, <2>3
  <2> QED
    BY <2>2, <2>4 DEF SeqInv, CtxInv, Free, Live, TimeoutReset
<1> QED
  BY <1>3, <1>5, <1>6 DEF SeqInv, ReplyToOwner

\* FastInvoke receives: the reply is that of the call under way, whoever takes it.
LEMMA ReceivedSeq ==
    ASSUME TypeOK, Core, SeqInv, NEW c \in Calls, call[c].fast = "wait", Received(c)
    PROVE  SeqInv'
<1>1. sender # "none" /\ ctx.stream # 0 /\ ~ctx.sent
  BY DEF Received, Core, Streams
<1>0. ctx.id \in Calls
  BY <1>1, CtxFacts
<1>c. PICK l \in Calls : l = ctx.id
  BY <1>0
<1>2. ctx.id = l /\ ~Free /\ l \in Calls /\ Live(l) /\ replies[l] # <<>> /\ ctx.stream = l
  BY <1>1, <1>c, CtxFacts DEF SeqInv, CtxInv
<1>f. /\ RelInv(l) /\ FastInv(l) /\ ReqInv(l) /\ Paired(l)
      /\ call[l].fast # "shutdown"
      /\ call[l] \in CallRec /\ TimeoutReset(l) \in ResetRec /\ FailureReset(l) \in ResetRec
  BY <1>2, LiveFacts
<1>x. CtxInv /\ ReplyToOwner /\ panicked = "no"
  BY DEF SeqInv
<1>3. /\ sender' = "none" /\ ctx' = [ctx EXCEPT !.sent = TRUE]
      /\ UNCHANGED <<holder, doneChan, initChan, reset, replies, panicked>>
      /\ rt' \in {rt, [rt EXCEPT !.state = "answered"]} /\ (rt' # rt => rt.state = "sending")
  BY DEF Received, sandboxVars
<1>4. ctx'.id = l /\ ctx'.stream = l /\ ctx'.sent = TRUE
  BY <1>2, <1>3 DEF TypeOK, MutexType
<1>5. ASSUME NEW d \in Calls
      PROVE  /\ call'[d].fast = (IF d = c THEN "done" ELSE call[d].fast)
             /\ call'[d].req = (IF call[d].req = "sending" THEN "doneFail" ELSE call[d].req)
             /\ call'[d].main = call[d].main /\ call'[d].rel = call[d].rel
             /\ call'[d].relCtx = call[d].relCtx /\ call'[d].timer = call[d].timer
             /\ call'[d].id = call[d].id /\ call'[d].ret = call[d].ret
  <2>1. call[d] \in CallRec
    BY DEF TypeOK, CallType
  <2>2. call'[d] = [call[d] EXCEPT !.fast = IF d = c THEN "done" ELSE @,
                                   !.req = IF @ = "sending" THEN "doneFail" ELSE @]
    BY DEF Received
  <2> QED
    BY <2>1, <2>2, ZenonT(60) DEF CallRec
<1>6. \A d \in Calls \ {l} : Aside(d)
  <2> SUFFICES ASSUME NEW d \in Calls \ {l} PROVE Aside(d)
    OBVIOUS
  <2>1. ~Live(d) /\ CallInv(d)
    BY <1>2, OneLive DEF SeqInv
  <2>2. call[d].req # "sending"
    BY <2>1 DEF CallInv, Live, TypeOK, CallType, CallRec
  <2> QED
    BY <1>3, <1>5, <2>2 DEF Aside, TimeoutReset, FailureReset, TypeOK, EnvType
<1>7. call[l].fast \in {"wait", "done"}
  BY <1>1, <1>2, <1>f DEF FastInv, RelInv, CallRec
<1>t. TimeoutReset(l)' = TimeoutReset(l) /\ FailureReset(l)' = FailureReset(l)
  BY <1>3, <1>4 DEF TimeoutReset, FailureReset
<1>8. Paired(l)'
  BY <1>f, <1>t DEF Paired, Working, Waiting
<1>9. RelInv(l)'
  BY <1>2, <1>3, <1>4, <1>5, <1>f, <1>t DEF RelInv, Unused, Free
<1>10. FastInv(l)' /\ ReqInv(l)'
  <2>1. FastInv(l)'
    BY <1>2, <1>3, <1>4, <1>5, <1>7, <1>f DEF FastInv, Sending
  <2>2. rt'.id = rt.id
    BY <1>3 DEF TypeOK, EnvType
  <2>3. ReqInv(l)'
    BY <1>2, <1>3, <1>4, <1>5, <1>f, <1>t, <2>2 DEF ReqInv, Pending
  <2> QED
    BY <2>1, <2>3
<1>11. CallInv(l)'
  BY <1>2, <1>5, <1>8, <1>9, <1>10, <1>f DEF CallInv, Live
<1>12. CtxInv'
  <2>1. rt'.state \in {"sending", "answered"} => rt'.id \in Calls /\ replies[rt'.id] # <<>>
    BY <1>3, <1>x DEF CtxInv, TypeOK, EnvType
  <2>2. /\ call'[l].rel = call[l].rel /\ call'[l].main = call[l].main
        /\ call[l].req = "done" => call'[l].req = "done"
    BY <1>2, <1>5
  <2> QED
    BY <1>2, <1>3, <1>4, <1>t, <1>x, <2>1, <2>2 DEF CtxInv, Free, Live
<1> QED
  BY <1>2, <1>3, <1>5, <1>6, <1>11, <1>12, <1>x, LiveMoves DEF ReplyToOwner, Live

\* FastInvoke.
LEMMA FastSeq ==
    ASSUME Sequential, TypeOK, Core, SeqInv, NEW c \in Calls, Fast(c)
    PROVE  SeqInv'
<1>k. CallInv(c) /\ call[c] \in CallRec
  BY DEF SeqInv, TypeOK, CallType
<1>b. call[c].main # "new"
  BY DEF Fast, AwaitInit, ShutdownFailedInit, SetReplyStream, ReplyStreamRefused, AlreadyWritten,
     SendRequest, ResponseReceived, ReservationDone, Core, Reserved
<1>l. call[c].fast \notin {"wait", "done"} => Live(c)
  BY <1>b, <1>k DEF CallInv, Live, CallRec
<1>f. Live(c) => /\ RelInv(c) /\ FastInv(c) /\ ReqInv(c) /\ Paired(c)
                 /\ call[c].fast # "shutdown"
                 /\ Free \/ ctx.id = c
                 /\ TimeoutReset(c) \in ResetRec /\ FailureReset(c) \in ResetRec
  BY LiveFacts
<1>x. CtxInv /\ ReplyToOwner /\ panicked = "no" /\ OrderInv
  BY DEF SeqInv
<1>n. /\ ctx = NoCtx <=> Free
      /\ Free => ctx.stream = 0 /\ ~ctx.sent
      /\ ~Free => ctx.id \in Calls /\ ctx.id = resv /\ resv \notin released
      /\ 0 \notin Calls
  BY CtxFacts
<1>p. ASSUME UNCHANGED reset, Live(c)
      PROVE TimeoutReset(c)' = TimeoutReset(c) /\ FailureReset(c)' = FailureReset(c) /\ Paired(c)'
  BY <1>f, <1>p DEF TimeoutReset, FailureReset, Paired, Working, Waiting
<1>m. ASSUME NEW new, call' = [call EXCEPT ![c] = new], UNCHANGED <<reset, replies, rt>>
      PROVE  \A d \in Calls \ {c} : Aside(d)
  BY <1>m, Moved
<1>1. CASE AwaitInit(c)
  <2>0. Live(c) /\ initChan = "closed" /\ call[c].fast = "init"
    BY <1>1, <1>l, <1>x, <1>b DEF AwaitInit, OrderInv
  <2>1. /\ call' = [call EXCEPT ![c] = [call[c] EXCEPT !.fast = "stream"]]
        /\ UNCHANGED <<holder, ctx, initChan, sender, doneChan, rt, replies, panicked, reset>>
    BY <1>1, <2>0 DEF AwaitInit, sandboxVars, mutexVars, envVars
  <2>2. /\ call'[c].fast = "stream" /\ call'[c].rel = call[c].rel /\ call'[c].main = call[c].main
        /\ call'[c].timer = call[c].timer /\ call'[c].req = call[c].req /\ call'[c].relCtx = call[c].relCtx
        /\ call'[c].id = call[c].id /\ call'[c].ret = call[c].ret
    BY <1>k, <2>1 DEF TypeOK, CallType, CallRec
  <2>5. RelInv(c)'
    BY <1>f, <1>p, <2>0, <2>1, <2>2 DEF RelInv, Free
  <2>6. FastInv(c)' /\ ReqInv(c)'
    BY <1>f, <1>p, <2>0, <2>1, <2>2 DEF FastInv, ReqInv, Sending, Pending
  <2>7. CallInv(c)'
    BY <1>p, <2>0, <2>1, <2>2, <2>5, <2>6 DEF CallInv, Live
  <2>8. CtxInv'
    BY <1>f, <1>p, <1>x, <2>0, <2>1, <2>2 DEF CtxInv, Free, Live
  <2> QED
    BY <1>m, <1>b, <1>x, <2>0, <2>1, <2>2, <2>7, <2>8, LiveMoves DEF ReplyToOwner
<1>2. ~ShutdownFailedInit(c)
  BY <1>k DEF ShutdownFailedInit, CallInv
<1>3. CASE SetReplyStream(c)
  <2>0. Live(c) /\ call[c].fast = "stream"
    BY <1>3, <1>l DEF SetReplyStream
  <2>1. /\ call' = [call EXCEPT ![c] = [call[c] EXCEPT !.fast = "peek", !.id = ctx.id]]
        /\ ctx' = [ctx EXCEPT !.stream = c] /\ sender = "none"
        /\ UNCHANGED <<holder, initChan, sender, doneChan, rt, replies, panicked, reset>>
    BY <1>3 DEF SetReplyStream, MutexFree, sandboxVars, chanVars, envVars
  <2>2. /\ call'[c].fast = "peek" /\ call'[c].rel = call[c].rel /\ call'[c].main = call[c].main
        /\ call'[c].timer = call[c].timer /\ call'[c].req = call[c].req /\ call'[c].relCtx = call[c].relCtx
        /\ call'[c].id = ctx.id /\ call'[c].ret = call[c].ret
    BY <1>k, <2>1 DEF TypeOK, CallType, CallRec
  <2>3. ctx.id = c /\ ~ctx.sent /\ call[c].req = "none"
    BY <1>f, <2>0 DEF FastInv, Sending
  <2>4. ctx'.id = c /\ ctx'.stream = c /\ ctx'.sent = ctx.sent
    BY <2>1, <2>3 DEF TypeOK, MutexType
  <2>5. RelInv(c)'
    BY <1>f, <1>n, <1>p, <2>0, <2>1, <2>2, <2>3, <2>4 DEF RelInv, Free
  <2>6. FastInv(c)' /\ ReqInv(c)'
    BY <1>f, <1>p, <2>0, <2>1, <2>2, <2>3, <2>4 DEF FastInv, ReqInv, Sending, Pending
  <2>7. CallInv(c)'
    BY <1>p, <2>0, <2>1, <2>2, <2>5, <2>6 DEF CallInv, Live
  <2>8. CtxInv'
    BY <1>f, <1>n, <1>p, <1>x, <2>0, <2>1, <2>2, <2>3, <2>4 DEF CtxInv, Free, Live
  <2> QED
    BY <1>m, <1>b, <1>x, <2>0, <2>1, <2>2, <2>7, <2>8, LiveMoves DEF ReplyToOwner
<1>4. ~ReplyStreamRefused(c)
  BY <1>f, <1>l, <1>n DEF ReplyStreamRefused, FastInv, Free
<1>5. ~AlreadyWritten(c)
  BY <1>f, <1>l DEF AlreadyWritten, Received, FastInv
<1>6. CASE SendRequest(c)
  <2>0. Live(c) /\ call[c].fast = "peek"
    BY <1>6, <1>l DEF SendRequest
  <2>1. /\ call' = [call EXCEPT ![c] = [call[c] EXCEPT !.fast = "wait", !.fastCtx = resv, !.req = "send"]]
        /\ UNCHANGED <<holder, ctx, initChan, sender, doneChan, rt, replies, panicked, reset>>
    BY <1>6 DEF SendRequest, sandboxVars, mutexVars, chanVars, envVars
  <2>2. /\ call'[c].fast = "wait" /\ call'[c].rel = call[c].rel /\ call'[c].main = call[c].main
        /\ call'[c].timer = call[c].timer /\ call'[c].req = "send" /\ call'[c].relCtx = call[c].relCtx
        /\ call'[c].id = call[c].id /\ call'[c].ret = call[c].ret
    BY <1>k, <2>1, ZenonT(60) DEF TypeOK, CallType, CallRec
  <2>3. /\ ctx.id = c /\ ctx.stream = c /\ call[c].id = c /\ call[c].req = "none" /\ call[c].timer # "fired"
        /\ call[c].main = "select"
    BY <1>f, <2>0 DEF FastInv, Sending, Live
  <2>4. call[c].rel \in {"reserved", "await"} /\ Unused(TimeoutReset(c))
    BY <1>f, <1>k, <1>n, <2>0, <2>3 DEF RelInv, Free, CallRec
  <2>5. RelInv(c)'
    BY <1>f, <1>p, <2>0, <2>1, <2>2, <2>3, <2>4 DEF RelInv, Free
  <2>6. FastInv(c)'
    BY <1>f, <2>0, <2>1, <2>2, <2>3 DEF FastInv, Sending
  <2>7. ReqInv(c)'
    BY <1>p, <2>0, <2>1, <2>2, <2>3, <2>4 DEF ReqInv, Pending, Unused, Emptied
  <2>8. CallInv(c)'
    BY <1>p, <2>0, <2>1, <2>2, <2>5, <2>6, <2>7 DEF CallInv, Live
  <2>9. CtxInv'
    BY <1>f, <1>p, <1>x, <2>0, <2>1, <2>2, <2>3 DEF CtxInv, Free, Live
  <2> QED
    BY <1>m, <1>b, <1>x, <2>0, <2>1, <2>2, <2>8, <2>9, LiveMoves DEF ReplyToOwner
<1>7. CASE ResponseReceived(c)
  BY <1>7, ReceivedSeq DEF ResponseReceived
<1>8. CASE ReservationDone(c)
  <2>1. /\ call[c].fast = "wait" /\ call' = [call EXCEPT ![c] = [call[c] EXCEPT !.fast = "done"]]
        /\ UNCHANGED <<holder, ctx, initChan, sender, doneChan, rt, replies, panicked, reset>>
    BY <1>8 DEF ReservationDone, sandboxVars, mutexVars, chanVars, envVars
  <2>2. /\ call'[c].fast = "done" /\ call'[c].rel = call[c].rel /\ call'[c].main = call[c].main
        /\ call'[c].timer = call[c].timer /\ call'[c].req = call[c].req /\ call'[c].relCtx = call[c].relCtx
        /\ call'[c].id = call[c].id /\ call'[c].ret = call[c].ret
    BY <1>k, <2>1 DEF TypeOK, CallType, CallRec
  <2>3. CASE ~Live(c)
    <3>1. Aside(c)
      BY <2>1, <2>2 DEF Aside, TimeoutReset, FailureReset
    <3> QED
      BY <2>1, <2>3, <3>1, Straggler
  <2>4. CASE Live(c)
    <3>1. RelInv(c)'
      BY <1>f, <1>p, <2>1, <2>2, <2>4 DEF RelInv, Free
    <3>2. FastInv(c)' /\ ReqInv(c)'
      BY <1>f, <1>p, <2>1, <2>2, <2>4 DEF FastInv, ReqInv, Sending, Pending
    <3>3. CallInv(c)'
      BY <1>p, <2>1, <2>2, <2>4, <3>1, <3>2 DEF CallInv, Live
    <3>4. CtxInv'
      BY <1>f, <1>p, <1>x, <2>1, <2>2, <2>4 DEF CtxInv, Free, Live
    <3> QED
      BY <1>m, <1>b, <1>x, <2>1, <2>2, <2>4, <3>3, <3>4, LiveMoves DEF ReplyToOwner
  <2> QED
    BY <2>3, <2>4
<1> QED
  BY <1>1, <1>2, <1>3, <1>4, <1>5, <1>6, <1>7, <1>8 DEF Fast

\* The request of the call under way moves, and the runtime and the reply with it; its resets and
\* the reservation stay.
LEMMA ReqMoves ==
    ASSUME Sequential, TypeOK, Core, SeqInv, NEW c \in Calls, Live(c), NEW new,
           call' = [call EXCEPT ![c] = new],
           call'[c].main = call[c].main, call'[c].timer = call[c].timer, call'[c].rel = call[c].rel,
           call'[c].relCtx = call[c].relCtx, call'[c].fast = call[c].fast, call'[c].id = c,
           call'[c].ret = call[c].ret, call[c].req \in Pending, call'[c].req \notin {"none", "send"},
           UNCHANGED <<ctx, initChan, reset, panicked>>, holder' = "init" => holder = "init",
           rt'.id \in {rt.id, c}, \A d \in Calls : d # c => replies'[d] = replies[d],
           replies[c] # <<>> => replies'[c] # <<>>,
           ReplyToOwner', ReqInv(c)', CtxInv'
    PROVE  SeqInv'
<1>f. /\ RelInv(c) /\ FastInv(c) /\ ReqInv(c) /\ Paired(c) /\ call[c].fast # "shutdown"
      /\ call[c] \in CallRec
  BY LiveFacts
<1>1. \A d \in Calls \ {c} : Aside(d)
  BY Moved
<1>2. TimeoutReset(c)' = TimeoutReset(c) /\ FailureReset(c)' = FailureReset(c) /\ Paired(c)'
  BY <1>f DEF TimeoutReset, FailureReset, Paired, Working, Waiting
<1>3. call[c].rel \in {"reserved", "await"} /\ ctx.id = c /\ call[c].req # "none"
  BY <1>f DEF ReqInv, Pending
<1>4. RelInv(c)'
  BY <1>f, <1>2, <1>3 DEF RelInv, Free
<1>5. FastInv(c)'
  BY <1>f, <1>3 DEF FastInv, Sending
<1>6. CallInv(c)'
  BY <1>f, <1>2, <1>4, <1>5 DEF CallInv, Live
<1> QED
  BY <1>1, <1>6, LiveMoves DEF SeqInv, Live

\* The request: handled for its own call, and a default error still finds its reservation.
LEMMA ReqSeq ==
    ASSUME Sequential, TypeOK, Core, SeqInv, NEW c \in Calls, Req(c)
    PROVE  SeqInv'
<1>0. call[c].req \in Pending
  BY DEF Req, HandleInvoke, DefaultErrorID, SendDefaultError, RequestDone, Pending
<1>l. Live(c)
  <2>1. CallInv(c) /\ call[c] \in CallRec
    BY DEF SeqInv, TypeOK, CallType
  <2> QED
    BY <1>0, <2>1 DEF CallInv, Live, CallRec, Pending
<1>f. /\ RelInv(c) /\ FastInv(c) /\ ReqInv(c) /\ call[c] \in CallRec
  BY <1>l, LiveFacts
<1>x. CtxInv /\ ReplyToOwner /\ panicked = "no"
  BY DEF SeqInv
<1>r. /\ ctx.id = c /\ ctx.stream = c /\ call[c].id = c /\ ~Free /\ c # 0
      /\ call[c].rel \in {"reserved", "await"} /\ TimeoutReset(c).go \notin Emptied
  BY <1>0, <1>f, CtxFacts DEF ReqInv, Free
<1>t. ASSUME UNCHANGED reset PROVE TimeoutReset(c)' = TimeoutReset(c)
  BY <1>t DEF TimeoutReset
<1>1. CASE HandleInvoke(c)
  <2>1. /\ call[c].req = "send" /\ call' = [call EXCEPT ![c] = [call[c] EXCEPT !.req = "handling"]]
        /\ holder' = "invoke" /\ rt' = [id |-> c, state |-> "running"]
        /\ UNCHANGED <<ctx, initChan, sender, doneChan, replies, panicked, reset>>
    BY <1>1, <1>r DEF HandleInvoke, Begin, mutexVars, chanVars
  <2>2. /\ call'[c].fast = call[c].fast /\ call'[c].rel = call[c].rel /\ call'[c].main = call[c].main
        /\ call'[c].timer = call[c].timer /\ call'[c].req = "handling" /\ call'[c].relCtx = call[c].relCtx
        /\ call'[c].id = call[c].id /\ call'[c].ret = call[c].ret
    BY <1>f, <2>1 DEF TypeOK, CallType, CallRec
  <2>3. call[c].main = "select" /\ Unused(TimeoutReset(c))
    BY <1>f, <1>l, <2>1 DEF FastInv, RelInv, Live
  <2>4. rt'.id = c /\ rt'.state = "running"
    BY <2>1
  <2>5. ReqInv(c)'
    BY <1>r, <1>t, <2>1, <2>2, <2>3, <2>4 DEF ReqInv, Unused, Emptied
  <2>6. doneChan = "empty"
    BY <1>r, <1>x, <2>1 DEF CtxInv
  <2>7. CtxInv'
    BY <1>l, <1>r, <1>x, <2>1, <2>2, <2>4, <2>6 DEF CtxInv, Free, Live
  <2> QED
    BY <1>0, <1>l, <1>r, <1>x, <2>1, <2>2, <2>4, <2>5, <2>7, ReqMoves DEF ReplyToOwner
<1>2. CASE DefaultErrorID(c)
  <2>1. /\ call[c].req = "fail" /\ call' = [call EXCEPT ![c] = [call[c] EXCEPT !.req = "default", !.id = ctx.id]]
        /\ UNCHANGED <<holder, ctx, initChan, sender, doneChan, rt, replies, panicked, reset>>
    BY <1>2 DEF DefaultErrorID, sandboxVars, mutexVars, chanVars, envVars
  <2>2. /\ call'[c].fast = call[c].fast /\ call'[c].rel = call[c].rel /\ call'[c].main = call[c].main
        /\ call'[c].timer = call[c].timer /\ call'[c].req = "default" /\ call'[c].relCtx = call[c].relCtx
        /\ call'[c].id = c /\ call'[c].ret = call[c].ret
    BY <1>f, <1>r, <2>1 DEF TypeOK, CallType, CallRec
  <2>5. ReqInv(c)'
    BY <1>r, <1>t, <2>1, <2>2 DEF ReqInv
  <2>6. doneChan = "empty"
    BY <1>r, <1>x, <2>1 DEF CtxInv
  <2>7. CtxInv'
    BY <1>l, <1>r, <1>x, <2>1, <2>2, <2>6 DEF CtxInv, Free, Live
  <2> QED
    BY <1>0, <1>l, <1>r, <1>x, <2>1, <2>2, <2>5, <2>7, ReqMoves DEF ReplyToOwner
<1>3. CASE SendDefaultError(c)
  <2>0. /\ call[c].req = "default" /\ sender = "none" /\ ctx # NoCtx
        /\ UNCHANGED <<holder, ctx, initChan, doneChan, rt, reset>>
    BY <1>3, <1>r, CtxFacts DEF SendDefaultError, MutexFree, sandboxVars, mutexVars
  <2>6. doneChan = "empty"
    BY <1>r, <1>x, <2>0 DEF CtxInv
  <2>1. CASE Accepts(c) /\ Write(c, "default") /\ call' = [call EXCEPT ![c] = [call[c] EXCEPT !.req = "sending"]]
             /\ UNCHANGED panicked
    <3>1. ~ctx.sent /\ sender' = "default" /\ replies' = [replies EXCEPT ![c] = Append(replies[c], c)]
      BY <1>r, <2>1 DEF Accepts, Write
    <3>2. replies[c] = <<>> /\ replies \in [Calls -> Seq(Calls)]
      BY <1>r, <2>0, <3>1 DEF Core, Unwritten, TypeOK, EnvType
    <3>3. replies'[c] = <<c>> /\ \A d \in Calls : d # c => replies'[d] = replies[d]
      BY <3>1, <3>2
    <3>4. /\ call'[c].fast = call[c].fast /\ call'[c].rel = call[c].rel /\ call'[c].main = call[c].main
          /\ call'[c].timer = call[c].timer /\ call'[c].req = "sending" /\ call'[c].relCtx = call[c].relCtx
          /\ call'[c].id = c /\ call'[c].ret = call[c].ret
      BY <1>f, <1>r, <2>1 DEF TypeOK, CallType, CallRec
    <3>n. <<c>> # <<>>
      OBVIOUS
    <3>5. ReqInv(c)'
      BY <1>r, <1>t, <2>0, <3>3, <3>4, <3>n DEF ReqInv
    <3>6. ReplyToOwner'
      BY <1>x, <3>3 DEF ReplyToOwner
    <3>7. CtxInv'
      BY <1>l, <1>r, <1>x, <2>0, <2>6, <3>3, <3>4, <3>n DEF CtxInv, Free, Live
    <3> QED
      BY <1>0, <1>l, <1>r, <1>x, <2>0, <2>1, <3>2, <3>3, <3>4, <3>5, <3>6, <3>7, ReqMoves
  <2>2. CASE ctx.sent /\ call' = [call EXCEPT ![c] = [call[c] EXCEPT !.req = "doneFail"]]
             /\ UNCHANGED <<replies, sender, panicked>>
    <3>1. replies[c] # <<>>
      BY <1>r, <1>x, <2>2 DEF CtxInv
    <3>4. /\ call'[c].fast = call[c].fast /\ call'[c].rel = call[c].rel /\ call'[c].main = call[c].main
          /\ call'[c].timer = call[c].timer /\ call'[c].req = "doneFail" /\ call'[c].relCtx = call[c].relCtx
          /\ call'[c].id = c /\ call'[c].ret = call[c].ret
      BY <1>f, <1>r, <2>2 DEF TypeOK, CallType, CallRec
    <3>5. ReqInv(c)'
      BY <1>r, <1>t, <2>0, <2>2, <3>1, <3>4 DEF ReqInv
    <3>7. CtxInv'
      BY <1>l, <1>r, <1>x, <2>0, <2>2, <2>6, <3>4 DEF CtxInv, Free, Live
    <3> QED
      BY <1>0, <1>l, <1>r, <1>x, <2>0, <2>2, <3>4, <3>5, <3>7, ReqMoves DEF ReplyToOwner
  <2> QED
    BY <1>3, <1>r, <2>0, <2>1, <2>2 DEF SendDefaultError
<1>4. CASE RequestDone(c)
  <2>1. /\ call[c].req \in {"ok", "doneFail"} /\ call' = [call EXCEPT ![c] = [call[c] EXCEPT !.req = "done"]]
        /\ UNCHANGED <<holder, ctx, initChan, sender, rt, replies, panicked, reset>>
    BY <1>4 DEF RequestDone, sandboxVars, mutexVars, chanVars, envVars
  <2>2. /\ call'[c].fast = call[c].fast /\ call'[c].rel = call[c].rel /\ call'[c].main = call[c].main
        /\ call'[c].timer = call[c].timer /\ call'[c].req = "done" /\ call'[c].relCtx = call[c].relCtx
        /\ call'[c].id = c /\ call'[c].ret = call[c].ret
    BY <1>f, <1>r, <2>1 DEF TypeOK, CallType, CallRec
  <2>3. replies[c] # <<>>
    BY <1>f, <2>1 DEF ReqInv
  <2>5. ReqInv(c)'
    BY <2>2 DEF ReqInv, Pending
  <2>7. CtxInv'
    BY <1>l, <1>r, <1>t, <1>x, <2>1, <2>2, <2>3 DEF CtxInv, Free, Live
  <2> QED
    BY <1>0, <1>l, <1>r, <1>x, <2>1, <2>2, <2>5, <2>7, ReqMoves DEF ReplyToOwner
<1> QED
  BY <1>1, <1>2, <1>3, <1>4 DEF Req

\* A step that moves no call and no reset: of the handlers, the runtime and the init.
LEMMA Still ==
    ASSUME SeqInv, UNCHANGED <<call, reset, ctx, sender, doneChan, panicked, replies>>, OrderInv',
           rt'.id = rt.id, rt'.state \in {"sending", "answered"} => rt'.state = rt.state,
           \A c \in Calls : call[c].req = "handling" => holder' = holder
    PROVE  SeqInv'
<1>1. ASSUME NEW c \in Calls PROVE CallInv(c)'
  <2>1. CallInv(c) /\ (call[c].req = "handling" => holder' = holder)
    BY DEF SeqInv
  <2> QED
    BY <2>1 DEF CallInv, RelInv, FastInv, ReqInv, Live, Paired, TimeoutReset, FailureReset, Unused, Resting,
       Working, Waiting, Free
<1>2. CtxInv'
  BY DEF SeqInv, CtxInv, Free, Live, TimeoutReset
<1> QED
  BY <1>1, <1>2 DEF SeqInv, ReplyToOwner

\* Before the channel of the init is closed, no call has begun.
LEMMA InitFirst ==
    ASSUME TypeOK, Core, SeqInv, initChan # "closed"
    PROVE  /\ \A c \in Calls : call[c].main = "new" /\ call[c].req = "none"
           /\ Free /\ ctx = NoCtx
<1>1. \A c \in Calls : call[c].main = "new" /\ CallInv(c)
  BY DEF SeqInv, OrderInv
<1>2. Free
  <2>1. ~Free => ctx.id \in Calls /\ Live(ctx.id)
    BY CtxFacts DEF SeqInv, CtxInv
  <2> QED
    BY <1>1, <2>1 DEF Live
<1> QED
  BY <1>1, <1>2, CtxFacts DEF CallInv

\* The runtime answers: only the call it has got is written to, and once.
LEMMA RuntimeSeq ==
    ASSUME TypeOK, Core, SeqInv, RuntimeResponds
    PROVE  SeqInv'
<1>x. CtxInv /\ ReplyToOwner /\ panicked = "no" /\ OrderInv
  BY DEF SeqInv
<1>0. /\ UNCHANGED <<call, reset, ctx, doneChan, initChan, holder, panicked>> /\ sender = "none"
  BY DEF RuntimeResponds, MutexFree, sandboxVars, mutexVars
<1>1. CASE Accepts(rt.id) /\ Write(rt.id, "runtime") /\ rt' = [rt EXCEPT !.state = "sending"]
  <2>1. ctx.id = rt.id /\ ~Free /\ ~ctx.sent /\ ctx.stream # 0 /\ ctx.id \in Calls
    BY <1>1, CtxFacts DEF Accepts
  <2>2. PICK l \in Calls : l = ctx.id
    BY <2>1
  <2>3. ctx.id = l /\ rt.id = l /\ ctx.stream = l /\ Live(l)
    BY <1>x, <2>1, <2>2 DEF CtxInv
  <2>f. /\ RelInv(l) /\ FastInv(l) /\ ReqInv(l) /\ Paired(l) /\ call[l].fast # "shutdown"
        /\ call[l] \in CallRec
    BY <2>3, LiveFacts
  <2>4. rt'.id = l /\ rt'.state = "sending"
    BY <1>1, <2>3 DEF TypeOK, EnvType
  <2>5. replies[l] = <<>> /\ replies \in [Calls -> Seq(Calls)]
    BY <1>0, <2>1, <2>3 DEF Core, Unwritten, TypeOK, EnvType
  <2>6. replies' = [replies EXCEPT ![l] = Append(replies[l], l)] /\ sender' = "runtime"
    BY <1>1, <2>3 DEF Write
  <2>7. replies'[l] = <<l>> /\ <<l>> # <<>> /\ \A d \in Calls : d # l => replies'[d] = replies[d]
    BY <2>5, <2>6
  <2>8. \A d \in Calls \ {l} : Aside(d)
    BY <1>0, <2>3, <2>4, <2>7 DEF Aside, TimeoutReset, FailureReset
  <2>9. call[l].req # "none"
    BY <2>3, <2>f DEF ReqInv
  <2>t. TimeoutReset(l)' = TimeoutReset(l) /\ FailureReset(l)' = FailureReset(l) /\ Paired(l)'
    BY <1>0, <2>f DEF TimeoutReset, FailureReset, Paired, Working, Waiting
  <2>10. RelInv(l)'
    BY <1>0, <2>f, <2>t, <2>7 DEF RelInv, Free
  <2>11. FastInv(l)'
    BY <1>0, <2>f, <2>9 DEF FastInv, Sending
  <2>12. ReqInv(l)'
    BY <1>0, <2>f, <2>t, <2>3, <2>4, <2>7, <2>9 DEF ReqInv
  <2>13. CallInv(l)'
    BY <1>0, <2>f, <2>t, <2>3, <2>10, <2>11, <2>12 DEF CallInv, Live
  <2>14. CtxInv'
    BY <1>0, <1>x, <2>3, <2>4, <2>7, <2>t DEF CtxInv, Free, Live
  <2>15. ReplyToOwner'
    BY <1>x, <2>7 DEF ReplyToOwner
  <2> QED
    BY <1>0, <1>x, <2>3, <2>8, <2>13, <2>14, <2>15, LiveMoves DEF Live
<1>2. CASE rt' = [rt EXCEPT !.state = "refused"] /\ UNCHANGED <<replies, sender>>
  <2>1. rt'.id = rt.id /\ rt'.state = "refused"
    BY <1>2 DEF TypeOK, EnvType
  <2>2. OrderInv'
    BY <1>0, <1>x DEF OrderInv
  <2> QED
    BY <1>0, <1>2, <2>1, <2>2, Still
<1> QED
  BY <1>1, <1>2 DEF RuntimeResponds

\* The handlers, the init, and processes that exit.
LEMMA OtherSeq ==
    ASSUME Sequential, TypeOK, Core, SeqInv, InitError \/ AwaitInitialized \/ Handler \/ RuntimeResponds \/ Crash
    PROVE  SeqInv'
<1>x. CtxInv /\ ReplyToOwner /\ panicked = "no" /\ OrderInv
  BY DEF SeqInv
<1>1. CASE InitError
  <2>1. UNCHANGED <<holder, initChan, call, reset, ctx, sender, doneChan, rt, replies, panicked>>
    BY <1>1 DEF InitError, sandboxVars, mutexVars, envVars
  <2>2. OrderInv'
    BY <1>x, <2>1 DEF OrderInv
  <2> QED
    BY <2>1, <2>2, Still
<1>2. CASE AwaitInitialized
  <2>1. /\ initChan = "failed" /\ initChan' = "closed" /\ ctx' = NoCtx
        /\ UNCHANGED <<holder, call, reset, sender, doneChan, rt, replies, panicked>>
    BY <1>2 DEF AwaitInitialized, Release, sandboxVars, envVars
  <2>2. ctx' = ctx /\ holder # "init" /\ OrderInv'
    BY <1>x, <2>1, InitFirst DEF OrderInv
  <2> QED
    BY <2>1, <2>2, Still
<1>3. ASSUME NEW r \in Outcomes, InitReturns(r) PROVE SeqInv'
  <2>1. /\ holder = "init" /\ holder' = "none"
        /\ UNCHANGED <<call, reset, ctx, sender, doneChan, rt, replies, panicked>>
    BY <1>3 DEF InitReturns, Finish, mutexVars, envVars
  <2>2. \A c \in Calls : call[c].main = "new" /\ call[c].req = "none"
    BY <1>x, <2>1, InitFirst DEF OrderInv
  <2>3. OrderInv'
    BY <2>1, <2>2 DEF OrderInv
  <2> QED
    BY <2>1, <2>2, <2>3, Still
<1>4. ASSUME NEW r \in Outcomes, NEW c \in Calls, HandlerReturns(c, r) PROVE SeqInv'
  <2>0. call[c].req = "handling" /\ call[c].req \in Pending
    BY <1>4 DEF HandlerReturns, Pending
  <2>l. Live(c)
    <3>1. CallInv(c) /\ call[c] \in CallRec
      BY DEF SeqInv, TypeOK, CallType
    <3> QED
      BY <2>0, <3>1 DEF CallInv, Live, CallRec
  <2>f. ReqInv(c) /\ call[c] \in CallRec
    BY <2>l, LiveFacts
  <2>r. /\ ctx.id = c /\ ctx.stream = c /\ call[c].id = c /\ ~Free /\ c # 0 /\ rt.id = c
        /\ call[c].rel \in {"reserved", "await"} /\ TimeoutReset(c).go \notin Emptied
    BY <2>0, <2>f, CtxFacts DEF ReqInv, Free
  <2>1. PICK q \in {"ok", "fail", "done"} :
           /\ call' = [call EXCEPT ![c] = [call[c] EXCEPT !.req = q]]
           /\ q = "ok" => rt.state = "answered"
    BY <1>4 DEF HandlerReturns, Outcomes
  <2>2. holder' = "none" /\ UNCHANGED <<ctx, initChan, sender, doneChan, rt, replies, panicked, reset>>
    BY <1>4 DEF HandlerReturns, Finish, mutexVars, chanVars, envVars
  <2>3. /\ call'[c].fast = call[c].fast /\ call'[c].rel = call[c].rel /\ call'[c].main = call[c].main
        /\ call'[c].timer = call[c].timer /\ call'[c].req = q /\ call'[c].relCtx = call[c].relCtx
        /\ call'[c].id = c /\ call'[c].ret = call[c].ret
    BY <2>f, <2>r, <2>1 DEF TypeOK, CallType, CallRec
  <2>4. q = "ok" => replies[c] # <<>>
    BY <1>x, <2>1, <2>r DEF CtxInv
  <2>5. ReqInv(c)'
    BY <2>r, <2>2, <2>3, <2>4 DEF ReqInv, TimeoutReset
  <2>6. doneChan = "empty"
    BY <1>x, <2>0, <2>r DEF CtxInv
  <2>7. CtxInv'
    BY <1>x, <2>l, <2>r, <2>2, <2>3, <2>6 DEF CtxInv, Free, Live
  <2> QED
    BY <1>x, <2>0, <2>l, <2>r, <2>1, <2>2, <2>3, <2>5, <2>7, ReqMoves DEF ReplyToOwner
<1>5. CASE Crash
  <2>1. /\ UNCHANGED <<holder, initChan, call, reset, ctx, sender, doneChan, replies, panicked>>
        /\ rt' \in {rt, [rt EXCEPT !.state = IF @ = "running" THEN "idle" ELSE @]}
    BY <1>5 DEF Crash, Cancel, mutexVars, chanVars
  <2>2. rt'.id = rt.id /\ (rt'.state \in {"sending", "answered"} => rt'.state = rt.state)
    BY <2>1 DEF TypeOK, EnvType
  <2>3. OrderInv'
    BY <1>x, <2>1 DEF OrderInv
  <2> QED
    BY <2>1, <2>2, <2>3, Still
<1> QED
  BY <1>1, <1>2, <1>3, <1>4, <1>5, RuntimeSeq DEF Handler

\* Invoke begins when every earlier call has returned, and finds nothing reserved.
LEMMA InvokeSeq ==
    ASSUME Sequential, TypeOK, Core, SeqInv, NEW c \in Calls, Invoke(c)
    PROVE  SeqInv'
<1>x. CtxInv /\ ReplyToOwner /\ panicked = "no" /\ OrderInv /\ \A d \in Calls : CallInv(d)
  BY DEF SeqInv
<1>n. Calls \subseteq Nat
  BY ServerAssumption
<1>1. /\ call[c].main = "new" /\ initChan = "closed" /\ \A d \in Calls : d < c => call[d].main = "returned"
      /\ call' = [call EXCEPT ![c] = [call[c] EXCEPT !.main = "select", !.timer = "armed", !.rel = "reserve"]]
      /\ UNCHANGED <<holder, initChan, ctx, sender, doneChan, reset, rt, replies, panicked>>
  BY DEF Invoke, Sequential, sandboxVars, mutexVars, chanVars, envVars
<1>2. call[c] \in CallRec /\ call[c].rel = "none" /\ call[c].fast = "none"
  BY <1>1 DEF TypeOK, CallType, Core, Reserved
<1>3. /\ call'[c].main = "select" /\ call'[c].timer = "armed" /\ call'[c].rel = "reserve"
      /\ call'[c].fast = call[c].fast /\ call'[c].req = call[c].req /\ call'[c].ret = call[c].ret
  BY <1>1, <1>2, ZenonT(60) DEF TypeOK, CallType, CallRec
<1>4. \A d \in Calls : d > c => call[d].main = "new"
  BY <1>1, <1>n, <1>x DEF OrderInv
<1>5. \A d \in Calls : ~Live(d)
  BY <1>1, <1>4, <1>n DEF Live
<1>6. Free
  BY <1>5, <1>x, CtxFacts DEF CtxInv
<1>7. \A d \in Calls \ {c} : Aside(d)
  BY <1>1, Moved
<1>8. \A d \in Calls \ {c} : CallInv(d)'
  BY <1>5, <1>7, <1>x, AsideKept
<1>9. /\ call[c].req = "none" /\ call[c].ret = "none" /\ rt.id # c /\ Paired(c)
      /\ Unused(TimeoutReset(c)) /\ Unused(FailureReset(c))
  BY <1>1, <1>x DEF CallInv
<1>10. TimeoutReset(c)' = TimeoutReset(c) /\ FailureReset(c)' = FailureReset(c) /\ Paired(c)'
  BY <1>1, <1>9 DEF TimeoutReset, FailureReset, Paired, Working, Waiting
<1>11. RelInv(c)'
  BY <1>1, <1>2, <1>3, <1>6, <1>9, <1>10 DEF RelInv, Free, Unused, Released
<1>12. FastInv(c)' /\ ReqInv(c)'
  BY <1>1, <1>2, <1>3, <1>9 DEF FastInv, ReqInv, Sending, Pending
<1>13. CallInv(c)'
  BY <1>2, <1>3, <1>10, <1>11, <1>12 DEF CallInv, Live
<1>14. \A d \in Calls : CallInv(d)'
  BY <1>8, <1>13
<1>15. CtxInv'
  BY <1>1, <1>6, <1>x DEF CtxInv, Free
<1>16. OrderInv'
  <2>1. \A d \in Calls \ {c} : call'[d].main = call[d].main
    BY <1>7 DEF Aside
  <2> QED
    BY <1>1, <1>3, <1>4, <1>n, <1>x, <2>1 DEF OrderInv
<1> QED
  BY <1>1, <1>14, <1>15, <1>16, <1>x DEF SeqInv, ReplyToOwner

\* The timer: of a call under way it fires when the goroutines of the call have settled.
LEMMA TimerSeq ==
    ASSUME Sequential, TypeOK, Core, SeqInv, NEW c \in Calls, TimerFires(c)
    PROVE  SeqInv'
<1>x. CtxInv /\ ReplyToOwner /\ panicked = "no" /\ OrderInv /\ CallInv(c)
  BY DEF SeqInv
<1>1. /\ call[c].timer = "armed" /\ Settled(c)
      /\ call' = [call EXCEPT ![c] = [call[c] EXCEPT !.timer = "fired"]]
      /\ UNCHANGED <<holder, initChan, ctx, sender, doneChan, reset, rt, replies, panicked>>
  BY DEF TimerFires, Sequential, sandboxVars, mutexVars, chanVars, envVars
<1>2. call[c] \in CallRec
  BY DEF TypeOK, CallType
<1>3. /\ call'[c].fast = call[c].fast /\ call'[c].rel = call[c].rel /\ call'[c].main = call[c].main
      /\ call'[c].timer = "fired" /\ call'[c].req = call[c].req /\ call'[c].relCtx = call[c].relCtx
      /\ call'[c].id = call[c].id /\ call'[c].ret = call[c].ret
  BY <1>1, <1>2 DEF TypeOK, CallType, CallRec
<1>4. call[c].main # "new" /\ initChan = "closed"
  BY <1>1, <1>x DEF CallInv, OrderInv
<1>5. CASE ~Live(c)
  <2>1. Aside(c)
    BY <1>1, <1>2, <1>3, <1>4, <1>5 DEF Aside, Live, CallRec, TimeoutReset, FailureReset
  <2> QED
    BY <1>1, <1>5, <2>1, Straggler
<1>6. CASE Live(c)
  <2>f. RelInv(c) /\ FastInv(c) /\ ReqInv(c) /\ Paired(c) /\ call[c].fast # "shutdown"
    BY <1>6, LiveFacts
  <2>1. TimeoutReset(c)' = TimeoutReset(c) /\ FailureReset(c)' = FailureReset(c) /\ Paired(c)'
    BY <1>1, <2>f DEF TimeoutReset, FailureReset, Paired, Working, Waiting
  <2>2. /\ call[c].rel \notin {"reserve", "reserved"} /\ call[c].req # "send" /\ call[c].fast \in {"wait", "done"}
    BY <1>1, <1>4 DEF Settled
  <2>3. RelInv(c)'
    BY <1>1, <1>3, <2>f, <2>1 DEF RelInv, Free
  <2>4. FastInv(c)' /\ ReqInv(c)'
    BY <1>1, <1>3, <2>f, <2>1, <2>2 DEF FastInv, ReqInv
  <2>5. CallInv(c)'
    BY <1>3, <1>6, <2>f, <2>1, <2>3, <2>4 DEF CallInv, Live
  <2>6. CtxInv'
    BY <1>1, <1>3, <1>6, <1>x, <2>1, LiveFacts DEF CtxInv, Free, Live
  <2>7. \A d \in Calls \ {c} : Aside(d)
    BY <1>1, Moved
  <2> QED
    BY <1>1, <1>3, <1>4, <1>6, <1>x, <2>5, <2>6, <2>7, LiveMoves DEF ReplyToOwner
<1> QED
  BY <1>5, <1>6

\* The resets of the call under way move, and it does not.
LEMMA ResetMoves ==
    ASSUME SeqInv, NEW c \in Calls, Live(c), UNCHANGED <<call, replies, initChan, panicked>>,
           \A r \in Resets : r[1] # c => reset'[r] = reset[r],
           rt'.id = rt.id, holder' = "init" => holder = "init",
           call[c].fast # "shutdown", Paired(c)', RelInv(c)', FastInv(c)', ReqInv(c)', CtxInv'
    PROVE  SeqInv'
<1>1. ASSUME NEW d \in Calls \ {c} PROVE Aside(d)
  <2>1. TimeoutReset(d)' = TimeoutReset(d) /\ FailureReset(d)' = FailureReset(d)
    BY DEF TimeoutReset, FailureReset, Resets
  <2> QED
    BY <2>1 DEF Aside
<1>2. CallInv(c)'
  BY DEF CallInv, Live
<1> QED
  BY <1>1, <1>2, LiveMoves DEF SeqInv, ReplyToOwner, Live

\* Without hot reloading, a reset that is not at rest is one of the call under way.
LEMMA ResetOfLive ==
    ASSUME Sequential, TypeOK, SeqInv, NEW r \in Resets, ~Resting(reset[r])
    PROVE  \E c \in Calls : Live(c) /\ r \in {<<c, "timeout">>, <<c, "failure">>}
<1>1. 1..MaxReloads = {}
  BY DEF Sequential
<1>2. PICK c \in Calls : r \in {<<c, "timeout">>, <<c, "failure">>}
  BY <1>1 DEF Resets
<1>3. CallInv(c) /\ call[c] \in CallRec
  BY DEF SeqInv, TypeOK, CallType
<1>4. Live(c)
  BY <1>2, <1>3 DEF CallInv, Live, CallRec, TimeoutReset, FailureReset, Resting
<1> QED
  BY <1>2, <1>4

\* The goroutine of a reset goes on.  It locks only when no request is handled, drains only when
\* none is left, and releases what is then nobody's.
LEMMA GoSeq ==
    ASSUME Sequential, TypeOK, Core, SeqInv, NEW r \in Resets, NEW from, NEW to, Step(r, from, to),
           {from, to} \subseteq {"cancel", "lock", "locked", "rearm", "drain", "release", "handoff"},
           UNCHANGED <<call, replies, initChan, panicked, sender>>,
           rt'.id = rt.id, rt'.state \in {"sending", "answered"} => rt'.state = rt.state,
           holder' = "init" => holder = "init", holder' = holder \/ holder \in {"none", "reset"},
           from = "lock" => holder = "none", to \in {"cancel", "lock"} <=> from = "cancel",
           \/ ctx' = ctx /\ to # "handoff"
           \/ ctx' = NoCtx /\ sender = "none" /\ from = "release" /\ to = "handoff",
           doneChan' \in {doneChan, "empty"},
           \/ to \notin Emptied
           \/ from \in Emptied
           \/ /\ from = "drain" /\ doneChan' = "empty"
              /\ \A d \in Calls : call[d].req \in {"none", "send", "handling", "done"}
    PROVE  SeqInv'
<1>x. CtxInv
  BY DEF SeqInv
<1>0. reset[r].go = from /\ reset' = [reset EXCEPT ![r] = [reset[r] EXCEPT !.go = to]] /\ reset[r] \in ResetRec
  BY DEF Step, TypeOK, ResetType
<1>1. reset'[r].go = to /\ reset'[r].caller = reset[r].caller /\ \A q \in Resets : q # r => reset'[q] = reset[q]
  BY <1>0 DEF TypeOK, ResetType, ResetRec
<1>2. ~Resting(reset[r])
  BY <1>0 DEF Resting, Unused
<1>3. PICK c \in Calls : Live(c) /\ r \in {<<c, "timeout">>, <<c, "failure">>}
  BY <1>2, ResetOfLive
<1>f. /\ RelInv(c) /\ FastInv(c) /\ ReqInv(c) /\ Paired(c) /\ call[c].fast # "shutdown"
      /\ Free \/ ctx.id = c
      /\ call[c] \in CallRec /\ TimeoutReset(c) \in ResetRec /\ FailureReset(c) \in ResetRec
  BY <1>3, LiveFacts
<1>r. <<c, "timeout">> \in Resets /\ <<c, "failure">> \in Resets /\ <<c, "timeout">> # <<c, "failure">>
  BY DEF Resets
<1>q. \A q \in Resets : q[1] # c => reset'[q] = reset[q]
  BY <1>1, <1>3
<1>z. ctx' = NoCtx => ctx'.id = 0 /\ ctx'.stream = 0 /\ ctx'.sent = FALSE
  BY DEF NoCtx
<1>n. c # 0
  BY CtxFacts
<1>4. CASE r = <<c, "timeout">>
  <2>1. /\ TimeoutReset(c).go = from /\ TimeoutReset(c)'.go = to
        /\ TimeoutReset(c)'.caller = TimeoutReset(c).caller /\ FailureReset(c)' = FailureReset(c)
    BY <1>0, <1>1, <1>4, <1>r DEF TimeoutReset, FailureReset
  <2>2. call[c].main = "resetting" /\ call[c].fast \in {"wait", "done"} /\ call[c].req \notin {"none", "send"}
    BY <1>3, <1>f, <2>1 DEF RelInv, FastInv, Unused, Live, Sending
  <2>3. call[c].req = "handling" => from \in {"cancel", "lock"} /\ holder = "invoke"
    BY <1>f, <2>1 DEF ReqInv
  <2>4. to \in Emptied => call[c].req = "done"
    BY <1>f, <2>1, <2>2, <2>3 DEF ReqInv, Emptied, Pending, CallRec
  <2>5. to \in Emptied => doneChan' = "empty"
    BY <1>x, <1>f, <2>1 DEF CtxInv
  <2>6. Paired(c)'
    BY <1>f, <2>1 DEF Paired, Working, Waiting
  <2>7. RelInv(c)'
    BY <1>f, <1>z, <2>1, <2>2 DEF RelInv, Unused, Free, Released
  <2>8. FastInv(c)'
    BY <1>f, <2>2 DEF FastInv, Sending
  <2>9. ReqInv(c)'
    BY <1>f, <2>1, <2>2, <2>3, <2>4 DEF ReqInv, Emptied, Pending
  <2>10. CtxInv'
    BY <1>3, <1>f, <1>n, <1>x, <1>z, <2>1, <2>4, <2>5 DEF CtxInv, Free, Live, Emptied, TimeoutReset
  <2> QED
    BY <1>3, <1>f, <1>q, <2>6, <2>7, <2>8, <2>9, <2>10, ResetMoves
<1>5. CASE r = <<c, "failure">>
  <2>1. /\ FailureReset(c).go = from /\ FailureReset(c)'.go = to
        /\ FailureReset(c)'.caller = FailureReset(c).caller /\ TimeoutReset(c)' = TimeoutReset(c)
    BY <1>0, <1>1, <1>5, <1>r DEF TimeoutReset, FailureReset
  <2>2. call[c].rel \in {"resetting", "sendErr"} /\ call[c].req = "done" /\ call[c].fast \notin Sending
    BY <1>f, <2>1 DEF RelInv, FastInv, Unused, Sending
  <2>3. doneChan = "empty"
    BY <1>x, <1>f, <1>n, <2>2 DEF CtxInv
  <2>6. Paired(c)'
    BY <1>f, <2>1 DEF Paired, Working, Waiting
  <2>7. RelInv(c)'
    BY <1>f, <1>z, <2>1, <2>2 DEF RelInv, Unused, Free, Released
  <2>8. FastInv(c)'
    BY <1>f, <2>2 DEF FastInv, Sending
  <2>9. ReqInv(c)'
    BY <2>2 DEF ReqInv, Pending
  <2>10. CtxInv'
    BY <1>3, <1>f, <1>n, <1>x, <1>z, <2>3 DEF CtxInv, Free, Live
  <2> QED
    BY <1>3, <1>f, <1>q, <2>6, <2>7, <2>8, <2>9, <2>10, ResetMoves
<1> QED
  BY <1>3, <1>4, <1>5

\* A reset hands over, and its caller goes on: the reservation is gone by then.
LEMMA FreeSeq ==
    ASSUME Sequential, TypeOK, Core, SeqInv, NEW c \in Calls, Live(c), Free, ctx' = ctx,
           UNCHANGED <<call, replies, initChan, panicked, sender, doneChan, rt, holder>>,
           \A r \in Resets : r[1] # c => reset'[r] = reset[r], Paired(c)',
           Unused(TimeoutReset(c))' <=> Unused(TimeoutReset(c)),
           Unused(FailureReset(c))' <=> Unused(FailureReset(c)),
           FailureReset(c).caller = "returned" => FailureReset(c)'.caller = "returned"
    PROVE  SeqInv'
<1>x. CtxInv
  BY DEF SeqInv
<1>f. /\ RelInv(c) /\ FastInv(c) /\ ReqInv(c) /\ call[c].fast # "shutdown"
  BY LiveFacts
<1>n. c # 0
  BY CtxFacts
<1>1. RelInv(c)'
  BY <1>f DEF RelInv, Free
<1>2. FastInv(c)'
  BY <1>f DEF FastInv
<1>3. call[c].req \notin Pending
  BY <1>f, <1>n DEF ReqInv, Free
<1>4. ReqInv(c)'
  BY <1>f, <1>3 DEF ReqInv, Pending
<1>5. CtxInv'
  BY <1>x DEF CtxInv, Free
<1> QED
  BY <1>f, <1>1, <1>2, <1>4, <1>5, ResetMoves

\* The value of a reset reaches a caller of the same call, who waits for its own or for the other.
LEMMA HandoffSeq ==
    ASSUME Sequential, TypeOK, Core, SeqInv, NEW r \in Resets, NEW w \in Resets, ResetHandoff(r, w)
    PROVE  SeqInv'
<1>0. /\ reset[r].go = "handoff" /\ reset[w].caller = "wait" /\ reset \in [Resets -> ResetRec]
      /\ reset' = [reset EXCEPT ![r].go = "done", ![w].caller = "release"]
      /\ UNCHANGED <<call, replies, initChan, panicked, sender, doneChan, rt, holder, ctx>>
  BY DEF ResetHandoff, TypeOK, ResetType, sandboxVars, mutexVars, chanVars, envVars
<1>1. ~Resting(reset[r]) /\ ~Resting(reset[w])
  BY <1>0 DEF Resting, Unused
<1>2. PICK c \in Calls : Live(c) /\ r \in {<<c, "timeout">>, <<c, "failure">>}
  BY <1>1, ResetOfLive
<1>3. w \in {<<c, "timeout">>, <<c, "failure">>}
  BY <1>1, <1>2, ResetOfLive, OneLive DEF SeqInv
<1>4. ASSUME NEW q \in Resets
      PROVE  /\ reset'[q].go = IF q = r THEN "done" ELSE reset[q].go
             /\ reset'[q].caller = IF q = w THEN "release" ELSE reset[q].caller
             /\ q # r /\ q # w => reset'[q] = reset[q]
  BY <1>0, ZenonT(60) DEF ResetRec
<1>f. /\ RelInv(c) /\ Paired(c) /\ TimeoutReset(c) \in ResetRec /\ FailureReset(c) \in ResetRec
  BY <1>2, LiveFacts
<1>r. <<c, "timeout">> \in Resets /\ <<c, "failure">> \in Resets /\ <<c, "timeout">> # <<c, "failure">>
  BY DEF Resets
<1>5. Free
  BY <1>0, <1>2, <1>f DEF RelInv, Released, TimeoutReset, FailureReset
<1>6. \A q \in Resets : q[1] # c => reset'[q] = reset[q]
  BY <1>2, <1>3, <1>4
<1>t. /\ TimeoutReset(c)'.go = IF r = <<c, "timeout">> THEN "done" ELSE TimeoutReset(c).go
      /\ FailureReset(c)'.go = IF r = <<c, "failure">> THEN "done" ELSE FailureReset(c).go
      /\ TimeoutReset(c)'.caller = IF w = <<c, "timeout">> THEN "release" ELSE TimeoutReset(c).caller
      /\ FailureReset(c)'.caller = IF w = <<c, "failure">> THEN "release" ELSE FailureReset(c).caller
  BY <1>4, <1>r DEF TimeoutReset, FailureReset
<1>h. /\ r = <<c, "timeout">> => TimeoutReset(c).go = "handoff"
      /\ r = <<c, "failure">> => FailureReset(c).go = "handoff"
      /\ w = <<c, "timeout">> => TimeoutReset(c).caller = "wait"
      /\ w = <<c, "failure">> => FailureReset(c).caller = "wait"
  BY <1>0 DEF TimeoutReset, FailureReset
<1>7. Paired(c)'
  BY <1>2, <1>3, <1>f, <1>r, <1>t, <1>h DEF Paired, Working, Waiting, ResetRec
<1>8. /\ Unused(TimeoutReset(c))' <=> Unused(TimeoutReset(c))
      /\ Unused(FailureReset(c))' <=> Unused(FailureReset(c))
      /\ FailureReset(c).caller = "returned" => FailureReset(c)'.caller = "returned"
  BY <1>f, <1>t, <1>h DEF Unused, Paired
<1> QED
  BY <1>0, <1>2, <1>5, <1>6, <1>7, <1>8, FreeSeq

\* The resets.
LEMMA ResetSeq ==
    ASSUME Sequential, TypeOK, Core, SeqInv, NEW r \in Resets, ResetGoroutine(r) \/ ResetReturns(r)
    PROVE  SeqInv'
<1> USE DEF sandboxVars, mutexVars, chanVars, envVars
<1>e. {"cancel", "lock", "locked", "rearm", "drain"} \cap Emptied = {} /\ {"release", "handoff"} \subseteq Emptied
  BY DEF Emptied
<1>1. CASE ResetCancel(r)
  BY <1>1, <1>e, GoSeq DEF ResetCancel, Cancel
<1>2. CASE ResetLock(r)
  <2>1. rt'.id = rt.id /\ (rt'.state \in {"sending", "answered"} => rt'.state = rt.state)
    BY <1>2 DEF ResetLock, TypeOK, EnvType
  <2> QED
    BY <1>2, <1>e, <2>1, GoSeq DEF ResetLock, Lock
<1>3. CASE ResetUnlock(r)
  BY <1>3, <1>e, GoSeq DEF ResetUnlock, Unlock
<1>4. CASE ResetRearm(r)
  BY <1>4, <1>e, GoSeq DEF ResetRearm
<1>5. CASE ResetDrain(r)
  BY <1>5, <1>e, GoSeq DEF ResetDrain, Drained, Sequential
<1>6. CASE ResetRelease(r)
  BY <1>6, <1>e, GoSeq DEF ResetRelease, Release, MutexFree
<1>7. ASSUME NEW w \in Resets, ResetHandoff(r, w) PROVE SeqInv'
  BY <1>7, HandoffSeq
<1>8. CASE ResetReturns(r)
  <2>0. /\ reset[r].caller = "release" /\ reset \in [Resets -> ResetRec]
        /\ reset' = [reset EXCEPT ![r] = [reset[r] EXCEPT !.caller = "returned"]]
        /\ ctx' = NoCtx
        /\ UNCHANGED <<call, replies, initChan, panicked, sender, doneChan, rt, holder>>
    BY <1>8 DEF ResetReturns, Release, TypeOK, ResetType
  <2>1. ~Resting(reset[r])
    BY <2>0 DEF Resting, Unused
  <2>2. PICK c \in Calls : Live(c) /\ r \in {<<c, "timeout">>, <<c, "failure">>}
    BY <2>1, ResetOfLive
  <2>3. ASSUME NEW q \in Resets
        PROVE  /\ reset'[q].go = reset[q].go
               /\ reset'[q].caller = IF q = r THEN "returned" ELSE reset[q].caller
               /\ q # r => reset'[q] = reset[q]
    BY <2>0 DEF ResetRec
  <2>f. /\ RelInv(c) /\ Paired(c) /\ TimeoutReset(c) \in ResetRec /\ FailureReset(c) \in ResetRec
    BY <2>2, LiveFacts
  <2>r. <<c, "timeout">> \in Resets /\ <<c, "failure">> \in Resets /\ <<c, "timeout">> # <<c, "failure">>
    BY DEF Resets
  <2>4. TimeoutReset(c).caller = "release" \/ FailureReset(c).caller = "release"
    BY <2>0, <2>2 DEF TimeoutReset, FailureReset
  <2>5. Free
    BY <2>4, <2>f, ResetsOver DEF RelInv, Released
  <2>6. ctx' = ctx
    BY <2>0, <2>5, CtxFacts
  <2>t. /\ TimeoutReset(c)'.go = TimeoutReset(c).go /\ FailureReset(c)'.go = FailureReset(c).go
        /\ TimeoutReset(c)'.caller = IF r = <<c, "timeout">> THEN "returned" ELSE TimeoutReset(c).caller
        /\ FailureReset(c)'.caller = IF r = <<c, "failure">> THEN "returned" ELSE FailureReset(c).caller
    BY <2>3, <2>r DEF TimeoutReset, FailureReset
  <2>h. /\ r = <<c, "timeout">> => TimeoutReset(c).caller = "release"
        /\ r = <<c, "failure">> => FailureReset(c).caller = "release"
    BY <2>0 DEF TimeoutReset, FailureReset
  <2>7. Paired(c)'
    BY <2>f, <2>t, <2>h DEF Paired, Working, Waiting
  <2>8. /\ Unused(TimeoutReset(c))' <=> Unused(TimeoutReset(c))
        /\ Unused(FailureReset(c))' <=> Unused(FailureReset(c))
        /\ FailureReset(c).caller = "returned" => FailureReset(c)'.caller = "returned"
    BY <2>f, <2>t, <2>h DEF Unused
  <2>9. \A q \in Resets : q[1] # c => reset'[q] = reset[q]
    BY <2>2, <2>3
  <2> QED
    BY <2>0, <2>2, <2>5, <2>6, <2>7, <2>8, <2>9, FreeSeq
<1> QED
  BY <1>1, <1>2, <1>3, <1>4, <1>5, <1>6, <1>7, <1>8 DEF ResetGoroutine

\* At first there is only the init.
LEMMA SeqInit == Init => SeqInv
<1> SUFFICES ASSUME Init PROVE SeqInv
  OBVIOUS
<1>1. ASSUME NEW c \in Calls
      PROVE  /\ call[c].main = "new" /\ call[c].timer = "off" /\ call[c].req = "none" /\ call[c].ret = "none"
             /\ call[c].fast = "none" /\ Unused(TimeoutReset(c)) /\ Unused(FailureReset(c))
  BY DEF Init, TimeoutReset, FailureReset, Unused, Resets
<1>2. ctx.id = 0 /\ ctx.stream = 0 /\ ~ctx.sent /\ rt.id = 0 /\ rt.state = "idle" /\ 0 \notin Calls
  BY ServerAssumption DEF Init, NoCtx
<1>3. ASSUME NEW c \in Calls PROVE CallInv(c)
  <2>1. rt.id # c
    BY <1>2
  <2> QED
    BY <1>1, <2>1 DEF CallInv, Live, Paired, Unused, Working, Waiting
<1>4. OrderInv
  BY <1>1 DEF Init, OrderInv
<1>5. CtxInv
  BY <1>2 DEF Init, CtxInv, Free
<1> QED
  BY <1>3, <1>4, <1>5 DEF Init, SeqInv, ReplyToOwner

\* Every step keeps it.
LEMMA SeqStep ==
    ASSUME Sequential, TypeOK, Core, SeqInv, [Next]_vars
    PROVE  SeqInv'
<1>1. CASE InitError \/ AwaitInitialized \/ Handler \/ RuntimeResponds \/ Crash
  BY <1>1, OtherSeq
<1>2. ASSUME NEW c \in Calls, Invoke(c) \/ TimerFires(c) \/ Main(c) \/ Rel(c) \/ Fast(c) \/ Req(c)
      PROVE  SeqInv'
  BY <1>2, InvokeSeq, TimerSeq, MainSeq, RelSeq, FastSeq, ReqSeq
<1>3. ASSUME NEW k \in 1..MaxReloads, HotReload(k) PROVE SeqInv'
  BY <1>3 DEF Sequential
<1>4. ASSUME NEW r \in Resets, ResetGoroutine(r) \/ ResetReturns(r) PROVE SeqInv'
  BY <1>4, ResetSeq
<1>5. CASE UNCHANGED vars
  <2>1. UNCHANGED <<holder, initChan, call, reset, ctx, sender, doneChan, rt, replies, panicked>>
    BY <1>5 DEF vars, sandboxVars, mutexVars, chanVars, envVars
  <2>2. OrderInv'
    BY <2>1 DEF SeqInv, OrderInv
  <2> QED
    BY <2>1, <2>2, Still
<1> QED
  BY <1>1, <1>2, <1>3, <1>4, <1>5 DEF Next

\* One call at a time, as LocalStack makes them: the four goroutines of the call under way, its
\* resets and its reservation stay together as SeqInv says.
THEOREM SequentialInvariance ==
    ASSUME Sequential
    PROVE  Spec => []SeqInv
<1>1. ServerInv => TypeOK /\ Core
  BY DEF ServerInv, Core
<1>2. TypeOK /\ Core /\ SeqInv /\ [Next]_vars => SeqInv'
  BY SeqStep
<1> QED
  BY <1>1, <1>2, SeqInit, Invariance, PTL DEF Spec

\* Each caller gets at most one reply, and that of its own invocation (sendResponseUnsafe,
\* trySendDefaultErrorResponse): the runtime's answer and the default error only find the
\* reservation of the call they belong to.
THEOREM RepliesToOwner ==
    ASSUME Sequential
    PROVE  Spec => []ReplyToOwner
<1>1. SeqInv => ReplyToOwner
  BY DEF SeqInv
<1> QED
  BY <1>1, SequentialInvariance, PTL

\* Neither panic of the invoke path is reached: every Reserve finds the server free, and every
\* default error its own reservation with a reply stream.
THEOREM NeverPanics ==
    ASSUME Sequential
    PROVE  Spec => []NoPanic
<1>1. SeqInv => NoPanic
  BY DEF SeqInv, NoPanic
<1> QED
  BY <1>1, SequentialInvariance, PTL

\* What a call that has left a result behind looks like.
LEMMA ResultOfReturned ==
    ASSUME TypeOK, SeqInv, NEW c \in Calls, call[c].ret # "none"
    PROVE  call[c].main = "returned" /\ CallInv(c)
<1>1. CallInv(c) /\ call[c] \in CallRec
  BY DEF SeqInv, TypeOK, CallType
<1> QED
  BY <1>1 DEF CallInv, Live, RelInv, CallRec

\* Invoke returns without a timeout only when the reply is there for its caller to send on: a
\* result in InvokeDoneChan is that of the call that receives it, and was written before.
THEOREM AnswersUnlessTimeout ==
    ASSUME Sequential
    PROVE  Spec => []AnsweredUnlessTimedOut
<1>1. TypeOK /\ SeqInv => AnsweredUnlessTimedOut
  BY ResultOfReturned DEF AnsweredUnlessTimedOut, CallInv
<1> QED
  BY <1>1, TypeCorrect, SequentialInvariance, PTL

\* An Invoke that has returned holds no reservation and has no request in the sandbox: the
\* server is ready for the next Reserve (Release).
THEOREM ReturnsClosed ==
    ASSUME Sequential
    PROVE  Spec => []ReturnedMeansClosed
<1>1. TypeOK /\ Core /\ SeqInv => ReturnedMeansClosed
  <2> SUFFICES ASSUME TypeOK, Core, SeqInv, NEW c \in Calls, call[c].ret # "none"
               PROVE  ctx.id # c /\ call[c].req \in {"none", "done"}
    BY DEF ReturnedMeansClosed
  <2>1. call[c].main = "returned" /\ call[c].req = "done"
    BY ResultOfReturned DEF CallInv
  <2>2. ctx.id = c => Live(c)
    BY CtxFacts DEF SeqInv, CtxInv, Free
  <2> QED
    BY <2>1, <2>2 DEF Live
<1>2. ServerInv => TypeOK /\ Core
  BY DEF ServerInv, Core
<1> QED
  BY <1>1, <1>2, Invariance, SequentialInvariance, PTL

\* No request enters the sandbox while a reset is on its way through it: what RuntimeDomain's
\* theorems assume as Exclusive holds of the server that calls it.
THEOREM InvokesNeverMeetResets ==
    ASSUME Sequential
    PROVE  Spec => InvokesExcludeResets
<1>1. ASSUME Next, holder # "invoke", holder' = "invoke"
      PROVE  \E c \in Calls : HandleInvoke(c)
  <2> USE DEF sandboxVars
  <2>1. ~(InitError \/ AwaitInitialized \/ Handler \/ RuntimeResponds \/ Crash)
    BY <1>1 DEF InitError, AwaitInitialized, Handler, InitReturns, HandlerReturns, Finish, RuntimeResponds, Crash,
       Cancel
  <2>2. \A c \in Calls : ~(Invoke(c) \/ TimerFires(c) \/ Main(c))
    BY <1>1 DEF Invoke, TimerFires, Main, MainTimeout, MainFailure, MainSuccess, MainTimedOut, Returns
  <2>3. \A c \in Calls : ~Rel(c)
    BY <1>1 DEF Rel, Reserve, AwaitRelease, ReleaseDone, ReleaseFailed, ReleaseCanceled, ReleaseAfterReset
  <2>4. \A c \in Calls : ~Fast(c)
    BY <1>1 DEF Fast, AwaitInit, ShutdownFailedInit, SetReplyStream, ReplyStreamRefused, AlreadyWritten,
       SendRequest, ResponseReceived, Received, ReservationDone
  <2>5. \A c \in Calls : Req(c) => HandleInvoke(c)
    BY <1>1 DEF Req, DefaultErrorID, SendDefaultError, RequestDone
  <2>6. \A k \in 1..MaxReloads : ~HotReload(k)
    BY <1>1 DEF HotReload
  <2>7. \A r \in Resets : ~(ResetGoroutine(r) \/ ResetReturns(r))
    BY <1>1 DEF ResetGoroutine, ResetCancel, ResetLock, ResetUnlock, ResetRearm, ResetDrain, ResetRelease,
       ResetHandoff, ResetReturns, Cancel, Lock, Unlock
  <2> QED
    BY <1>1, <2>1, <2>2, <2>3, <2>4, <2>5, <2>6, <2>7 DEF Next
<1>2. ASSUME TypeOK, Core, SeqInv, NEW c \in Calls, HandleInvoke(c), NEW r \in Resets, ~Resting(reset[r])
      PROVE  FALSE
  <2>1. call[c].req = "send"
    BY <1>2 DEF HandleInvoke
  <2>2. CallInv(c) /\ call[c] \in CallRec
    BY <1>2 DEF SeqInv, TypeOK, CallType
  <2>3. Live(c)
    BY <2>1, <2>2 DEF CallInv, Live, CallRec
  <2>4. RelInv(c) /\ FastInv(c) /\ ReqInv(c)
    BY <1>2, <2>3, LiveFacts
  <2>5. Unused(TimeoutReset(c))
    BY <2>1, <2>3, <2>4 DEF FastInv, RelInv, Live
  <2>6. Unused(FailureReset(c))
    BY <2>1, <2>4 DEF RelInv
  <2>7. r \in {<<c, "timeout">>, <<c, "failure">>}
    BY <1>2, <2>3, ResetOfLive, OneLive DEF SeqInv
  <2> QED
    BY <1>2, <2>5, <2>6, <2>7 DEF TimeoutReset, FailureReset, Resting
<1>3. ASSUME TypeOK, Core, SeqInv, Next, holder # "invoke", holder' = "invoke", NEW r \in Resets
      PROVE  reset[r].go \notin {"cancel", "lock", "locked", "rearm"}
  BY <1>1, <1>2, <1>3 DEF Resting, Unused
<1>4. TypeOK /\ Core /\ SeqInv /\ [Next]_vars
        => [(holder # "invoke" /\ holder' = "invoke")
              => \A r \in Resets : reset[r].go \notin {"cancel", "lock", "locked", "rearm"}]_vars
  BY <1>3
<1>5. ServerInv => TypeOK /\ Core
  BY DEF ServerInv, Core
<1> QED
  BY <1>4, <1>5, Invariance, SequentialInvariance, PTL DEF Spec, InvokesExcludeResets
=============================================================================
