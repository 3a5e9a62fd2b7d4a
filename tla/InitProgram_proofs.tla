------------------------- MODULE InitProgram_proofs -------------------------
(***************************************************************************)
(* Proofs about the LocalStack init program: its type invariant, and the   *)
(* three promises main and the events API make to LocalStack, for any      *)
(* number of file changes, invocations and faults.                         *)
(***************************************************************************)
EXTENDS InitProgram, TLAPS

-----------------------------------------------------------------------------
\* The inductive invariants

\* How far the eager init is, and what main may have heard of it.
FlowInv ==
    /\ main = "boot" => att.phase = "none" /\ initDone = "none" /\ failures = "nil" /\ ~rapid.ready
    /\ att.phase = "init" => initDone = "wait" /\ failures = "open"
    /\ failures \in {"fail", "reset"} => initDone = "wait"
    /\ main \in {"token", "decided", "ready"} => initDone = "taken"
    /\ status = "ready" => main \in {"ready", "exited"}
    /\ \A k \in Invokes : inv[k] # NoInv => main \in {"ready", "exited"}
    /\ reset[ByTimeout] # NoReset => main \notin {"boot", "select", "token"}
    /\ main \in {"resetting", "discard"} => reset[ByTimeout] # NoReset
    /\ att.phase = "none" <=> att.pc = "idle"
    /\ att.pc \in {"queued", "start", "run"} => att.res = "none"

\* The duration of the cold start waits for the first invocation, or there is none.
ColdInv ==
    /\ \A k \in Invokes : inv[k].cold => k = 1 /\ conf.onDemand /\ reset[ByTimeout] = NoReset
    /\ ev.cold => /\ conf.onDemand /\ reset[ByTimeout] = NoReset
                  /\ \A k \in Invokes : inv[k] = NoInv
    /\ att.phase = "init" /\ att.pc # "deliver" /\ reset[ByTimeout] # NoReset => ev.timedOut

\* One invocation at a time, which runs the inline init if there is one.
TurnInv ==
    /\ \A k, l \in Invokes : k < l /\ inv[l].pc # "idle" => inv[k].pc = "done"
    /\ att.phase = "invoke" => \E k \in Invokes : inv[k].pc = "inline"
    /\ \A k \in Invokes : inv[k].pc = "inline" => att.phase = "invoke"

\* What the events API says of the last attempt, and what an invocation may make of it.
EventsInv ==
    /\ att.pc \in {"start", "run", "done", "report"} =>
           ev.initError = "" /\ ev.status = "" /\ ev.type = ""
    /\ att.pc = "report" => att.res # "ok"
    /\ att.pc = "deliver" /\ att.res = "ok" => ev.initError = ""
    /\ att.pc = "deliver" /\ att.phase = "invoke" /\ att.res # "ok" => ev.initError # ""
    /\ rapid.ready => /\ ev.initError = ""
                      /\ att.pc = "idle" \/ (att.pc \in {"done", "deliver"} /\ att.res = "ok")

Blames(k) ==
    /\ inv[k].pc \in {"idle", "await", "request", "inline", "handle"} => inv[k].failed = ""
    /\ inv[k].pc = "handle" => ev.initError = ""
    /\ inv[k].pc \in {"failing", "resetting"} => (inv[k].failed # "" <=> ev.initError # "")
    /\ inv[k].res = "failed" => inv[k].pc \in {"resetting", "done"}
    /\ inv[k].pc = "done" /\ inv[k].res = "failed" =>
           (inv[k].report.error # "" <=> inv[k].failed # "")

ErrorInv == EventsInv /\ \A k \in Invokes : Blames(k)

\* Where the calls of Reset are: a caller that has its own Done has it after the last step of
\* its reset, and the tokens are those of reloads whose calls have returned.
CallsInv ==
    /\ ~crossed => \A r \in Resets :
           reset[r].caller \in {"release", "token", "returned"} => reset[r].go = "end"
    /\ \A r \in Resets : reset[r].caller = "token" => r \in Reloads
    /\ \A r \in Resets : reset[r].caller = "idle" => reset[r] = NoReset
    /\ token # Nobody => token \in Reloads /\ reset[token].caller = "returned"
    /\ took # Nobody => took \in Reloads /\ reset[took].caller = "returned"

\* What main has waited for when a reset has aborted the eager init: its own reset, or a token.
Told == main \in {"decided", "ready"} \/ status = "ready"

AbortInv ==
    /\ ByTimeout \in {rapid.cancel, aborter} => reset[ByTimeout] # NoReset
    /\ main = "discard" \/ Told => reset[ByTimeout].caller \in {"idle", "returned"}
    /\ aborter # Nobody => \/ att.phase = "init" /\ att.res = "reset"
                           \/ failures = "reset"
                           \/ initDone \in {"reset", "resetDone", "taken"}
    /\ aborter # Nobody /\ Told => took # Nobody \/ reset[ByTimeout] # NoReset

-----------------------------------------------------------------------------
\* The names of the resets: the reloads come first, nobody and an exit are none of them.
LEMMA Names ==
    /\ ByTimeout \in Resets /\ BySignal \in Resets /\ ByInvoke \in Resets
    /\ ByTimeout # BySignal /\ ByTimeout # ByInvoke /\ BySignal # ByInvoke
    /\ ByTimeout \notin Reloads /\ BySignal \notin Reloads /\ ByInvoke \notin Reloads
    /\ Reloads \subseteq Resets /\ Resets \subseteq 0 .. Exit
    /\ Nobody \in 0 .. Exit /\ Exit \in 0 .. Exit /\ Exit \notin Resets /\ Nobody \notin Resets
    /\ Resets \subseteq Nat /\ Reloads \subseteq Nat
    /\ Invokes \subseteq 0 .. MaxInvokes /\ 0 \in 0 .. MaxInvokes /\ Invokes \subseteq Nat \ {0}
BY InitProgramAssumption
   DEF ByTimeout, BySignal, ByInvoke, Resets, Reloads, Exit, Nobody, Invokes

\* The steps, by who takes them.
Stepped ==
    \/ Attempt \/ Main
    \/ \E r \in Resets : ResetStep(r)
    \/ \E k \in Invokes : InvokeStep(k)
    \/ World \/ Timer \/ Fault

LEMMA Steps ==
    Next => /\ Alive /\ conf' = conf /\ Stepped
            /\ faults' = faults \/ (faults < MaxFaults /\ faults' = faults + 1)
BY Zenon DEF Next, Program, Stepped

\* The records of the type invariant.
AttRecs ==
    [phase : {"none", "init", "invoke"},
     pc : {"idle", "queued", "start", "run", "done", "report", "deliver"},
     res : {"none", "ok", "fail", "reset"}]
RapidRecs ==
    [holder : {"none", "init", "invoke"}, cancel : 0 .. Exit,
     fatal : ErrorTypes, ready : BOOLEAN, wiped : BOOLEAN]
EventRecs ==
    [status : {"", "success", "error"}, type : ErrorTypes, initError : ErrorTypes,
     timedOut : BOOLEAN, cold : BOOLEAN]
ResetRecs ==
    [go : {"idle", "cancel", "lock", "rearm", "clear", "offer", "end"},
     caller : {"idle", "wait", "release", "token", "returned"}]
InvRecs ==
    [pc : {"idle", "await", "request", "inline", "handle", "silent", "failing", "resetting", "done"},
     cold : BOOLEAN, failed : {"", "Init"}, res : {"none", "ok", "empty", "failed", "timeout"},
     report : [status : {"none", "", "timeout", "error"}, error : ErrorTypes],
     sent : {"none", "response", "error"}]

\* The type invariant in four parts.
MainType ==
    /\ main \in {"boot", "select", "resetting", "discard", "token", "decided", "ready", "exited"}
    /\ status \in {"none", "ready", "payload", "Sandbox.Timeout"} \cup (ErrorTypes \ {""})
    /\ initDone \in {"none", "wait", "fail", "reset", "nilDone", "failDone", "resetDone", "taken"}
    /\ failures \in FailureStates
DomainType ==
    /\ att \in AttRecs /\ rapid \in RapidRecs /\ ev \in EventRecs
    /\ payload \in BOOLEAN /\ aborter \in Tokens
ResetType ==
    /\ reset \in [Resets -> ResetRecs]
    /\ token \in Tokens /\ took \in Tokens /\ crossed \in BOOLEAN
InvType == ctx \in 0 .. MaxInvokes /\ inv \in [Invokes -> InvRecs]

\* An attempt that has ended has a result, which is what the channel of failures takes.
EndsKnown == att.pc \in {"done", "report", "deliver"} => att.res # "none"

Typed == MainType /\ DomainType /\ ResetType /\ InvType /\ EndsKnown

LEMMA TypeParts == Typed /\ conf \in Confs /\ faults \in 0 .. MaxFaults => TypeOK
BY Zenon DEF Typed, TypeOK, MainType, DomainType, ResetType, InvType, AttRecs, RapidRecs,
             EventRecs, ResetRecs, InvRecs

LEMMA InitType == Init => Typed
<1> SUFFICES ASSUME Init PROVE Typed
  OBVIOUS
<1>1. MainType
  BY DEF Init, MainType, FailureStates
<1>2. DomainType
  BY Names DEF Init, DomainType, AttRecs, RapidRecs, EventRecs, NoAtt, NewEventsAPI, ErrorTypes,
               Tokens
<1>3. ResetType
  BY Names DEF Init, ResetType, ResetRecs, NoReset, Tokens
<1>4. NoInv \in InvRecs
  BY DEF NoInv, InvRecs, ErrorTypes
<1>5. InvType
  BY <1>4, Names DEF Init, InvType
<1> QED
  BY <1>1, <1>2, <1>3, <1>5 DEF Init, Typed, EndsKnown, NoAtt

\* What the events API keeps has its type after every event.
LEMMA EventsTyped ==
    ASSUME NEW e \in EventRecs, NEW s \in {"", "success", "error"}, NEW t \in ErrorTypes,
           NEW phase \in {"none", "init", "invoke"}, conf \in Deployments
    PROVE  /\ SendInitStart(e) \in EventRecs
           /\ SendInitRuntimeDone(e, s, t) \in EventRecs
           /\ SetInitPhaseTimedOut(e) \in EventRecs
           /\ SendInitReport(e, phase) \in EventRecs
           /\ TakeColdStartInitDuration(e) \in EventRecs
<1>1. ErrorTypes = {"", "Runtime.ExitError", "Runtime.InvalidEntrypoint", "Runtime.Unknown", "reported"}
  BY DEF ErrorTypes
<1>2. SendInitStart(e) \in EventRecs /\ SendInitRuntimeDone(e, s, t) \in EventRecs
  BY <1>1 DEF SendInitStart, SendInitRuntimeDone, EventRecs
<1>3. SetInitPhaseTimedOut(e) \in EventRecs /\ TakeColdStartInitDuration(e) \in EventRecs
  BY DEF SetInitPhaseTimedOut, TakeColdStartInitDuration, EventRecs
<1>4. SendInitReport(e, phase) \in EventRecs
  <2>1. \A b \in BOOLEAN : [e EXCEPT !.timedOut = b] \in EventRecs /\ [e EXCEPT !.cold = b] \in EventRecs
    BY DEF EventRecs
  <2>2. \A u \in ErrorTypes : [e EXCEPT !.initError = u] \in EventRecs
    BY DEF EventRecs
  <2>3. (IF e.type = "" THEN "Runtime.ExitError" ELSE e.type) \in ErrorTypes
    BY <1>1 DEF EventRecs
  <2>4. ((phase = "init" /\ conf.onDemand) \/ e.cold) \in BOOLEAN
    BY Zenon
  <2>5. CASE e.timedOut /\ phase = "init"
    BY <2>1, <2>5 DEF SendInitReport
  <2>6. CASE ~(e.timedOut /\ phase = "init") /\ (IF e.status = "" THEN "error" ELSE e.status) # "success"
    BY <2>2, <2>3, <2>6 DEF SendInitReport
  <2>7. CASE ~(e.timedOut /\ phase = "init") /\ (IF e.status = "" THEN "error" ELSE e.status) = "success"
    BY <2>1, <2>4, <2>7 DEF SendInitReport
  <2> QED
    BY <2>5, <2>6, <2>7
<1> QED
  BY <1>2, <1>3, <1>4

\* What a step leaves alone keeps its type.
LEMMA TypeKept ==
    ASSUME Typed
    PROVE  /\ UNCHANGED <<mainVars, failures>> => MainType'
           /\ UNCHANGED domainVars => DomainType' /\ EndsKnown'
           /\ UNCHANGED resetVars => ResetType'
           /\ UNCHANGED <<reset, token, took, crossed>> => ResetType'
           /\ UNCHANGED <<ctx, inv>> => InvType'
BY DEF Typed, mainVars, domainVars, resetVars, MainType, DomainType, EndsKnown, ResetType, InvType

\* How an attempt may end.
LEMMA EndsTyped ==
    ASSUME Typed, NEW p \in {"report", "done"}, NEW s \in {"ok", "fail", "reset"}, Ends(p, s),
           s = "reset" => rapid.cancel \in Resets
    PROVE  att' \in AttRecs /\ aborter' \in Tokens /\ EndsKnown'
BY DEF Ends, Typed, DomainType, AttRecs, Tokens, EndsKnown

LEMMA CauseTyped ==
    ASSUME Typed, rapid.cancel # Nobody
    PROVE  Cause \in {"fail", "reset"} /\ (Cause = "reset" => rapid.cancel \in Resets)
BY InitProgramAssumption
   DEF Cause, Typed, DomainType, RapidRecs, Resets, Exit, Nobody, ByInvoke

LEMMA FatalTyped ==
    ASSUME Typed, NEW t \in ErrorTypes
    PROVE  FirstFatal(t) \in ErrorTypes /\ FirstFatalError \in ErrorTypes
BY DEF FirstFatal, FirstFatalError, Typed, DomainType, RapidRecs, ErrorTypes

LEMMA AttemptType ==
    ASSUME Typed, conf \in Deployments, Attempt
    PROVE  Typed'
<1> USE DEF Typed
<1>1. CASE HandleInit
  <2>1. att' \in AttRecs /\ rapid' \in RapidRecs /\ EndsKnown'
    BY <1>1 DEF HandleInit, DomainType, AttRecs, RapidRecs, EndsKnown
  <2>2. ev' \in EventRecs
    BY <1>1, EventsTyped DEF HandleInit, DomainType, ErrorTypes
  <2> QED
    BY <1>1, <2>1, <2>2, TypeKept DEF HandleInit, DomainType
<1>2. CASE RuntimeStarted
  BY <1>2, TypeKept DEF RuntimeStarted, DomainType, AttRecs, EndsKnown
<1>3. CASE BootCanceled
  BY <1>3, TypeKept, CauseTyped, EndsTyped DEF BootCanceled, DomainType
<1>4. CASE RunCanceled
  BY <1>4, TypeKept, CauseTyped, EndsTyped DEF RunCanceled, DomainType
<1>5. CASE InitReport
  <2>1. RuntimeDone(ev) \in EventRecs
    BY <1>5, FatalTyped, EventsTyped DEF RuntimeDone, InitReport, DomainType, ErrorTypes
  <2>2. ev' \in EventRecs
    BY <1>5, <2>1, EventsTyped DEF InitReport, DomainType, AttRecs, ErrorTypes
  <2> QED
    BY <1>5, <2>2, TypeKept DEF InitReport, DomainType, AttRecs, EndsKnown
<1>6. CASE InitDelivered
  <2>1. MainType'
    BY <1>6 DEF InitDelivered, MainType, mainVars, FailureStates, DomainType, AttRecs, EndsKnown
  <2> QED
    BY <1>6, <2>1, TypeKept DEF InitDelivered, DomainType, AttRecs, RapidRecs, NoAtt, EndsKnown
<1> QED
  BY <1>1, <1>2, <1>3, <1>4, <1>5, <1>6 DEF Attempt

LEMMA ResetStepType ==
    ASSUME Typed, NEW r \in Resets, ResetStep(r)
    PROVE  Typed'
<1> USE DEF Typed
<1>1. CASE ResetCancel(r)
  <2>1. rapid' \in RapidRecs
    BY <1>1, Names DEF ResetCancel, DomainType, RapidRecs
  <2>2. reset' \in [Resets -> ResetRecs]
    BY <1>1 DEF ResetCancel, Go, ResetType, ResetRecs
  <2> QED
    BY <1>1, <2>1, <2>2, TypeKept DEF ResetCancel, DomainType, ResetType, EndsKnown
<1>2. CASE HandleReset(r)
  <2>1. reset' \in [Resets -> ResetRecs]
    BY <1>2 DEF HandleReset, Go, ResetType, ResetRecs
  <2> QED
    BY <1>2, <2>1, TypeKept DEF HandleReset, ResetType
<1>3. CASE ResetRearm(r)
  <2>1. rapid' \in RapidRecs
    BY <1>3, Names DEF ResetRearm, DomainType, RapidRecs, ErrorTypes
  <2>2. reset' \in [Resets -> ResetRecs]
    BY <1>3 DEF ResetRearm, Go, ResetType, ResetRecs
  <2> QED
    BY <1>3, <2>1, <2>2, TypeKept DEF ResetRearm, DomainType, ResetType, EndsKnown
<1>4. CASE ResetClear(r)
  <2>1. reset' \in [Resets -> ResetRecs]
    BY <1>4 DEF ResetClear, Go, ResetType, ResetRecs
  <2> QED
    BY <1>4, <2>1, TypeKept, Names DEF ResetClear, Release, ResetType, InvType
<1>5. CASE CallerReleases(r)
  <2>1. reset' \in [Resets -> ResetRecs]
    BY <1>5 DEF CallerReleases, ResetType, ResetRecs
  <2> QED
    BY <1>5, <2>1, TypeKept, Names DEF CallerReleases, Release, ResetType, InvType
<1>6. CASE SendResetDone(r)
  <2>1. reset' \in [Resets -> ResetRecs]
    BY <1>6 DEF SendResetDone, ResetType, ResetRecs
  <2> QED
    BY <1>6, <2>1, TypeKept DEF SendResetDone, ResetType, Tokens
<1>7. ASSUME NEW w \in Resets, ResetHandoff(r, w) PROVE Typed'
  <2>1. reset' \in [Resets -> ResetRecs]
    BY <1>7 DEF ResetHandoff, ResetType, ResetRecs
  <2>2. crossed' \in BOOLEAN
    BY <1>7, Zenon DEF ResetHandoff
  <2> QED
    BY <1>7, <2>1, <2>2, TypeKept DEF ResetHandoff, ResetType
<1> QED
  BY <1>1, <1>2, <1>3, <1>4, <1>5, <1>6, <1>7 DEF ResetStep

LEMMA MainStepType ==
    ASSUME Typed, Main
    PROVE  Typed'
<1> USE DEF Typed
<1>1. CASE StartInit
  BY <1>1, TypeKept DEF StartInit, MainType, FailureStates, DomainType, AttRecs, NoAtt, EndsKnown
<1>2. CASE AwaitInitialized
  BY <1>2, TypeKept DEF AwaitInitialized, MainType, FailureStates
<1>3. CASE AwaitInitializedReleases
  BY <1>3, TypeKept, Names DEF AwaitInitializedReleases, Release, MainType, InvType
<1>4. CASE InitSucceeded
  BY <1>4, TypeKept DEF InitSucceeded, MainType
<1>5. CASE InitFailureFolded
  BY <1>5, TypeKept DEF InitFailureFolded, MainType
<1>6. CASE InitFailureReportedAndExit
  <2>1. status' \in {"payload"} \cup (ErrorTypes \ {""})
    BY <1>6 DEF InitFailureReportedAndExit, ReportInitFailure, DomainType, EventRecs, ErrorTypes
  <2> QED
    BY <1>6, <2>1, TypeKept DEF InitFailureReportedAndExit, MainType
<1>7. CASE InitWasReset
  BY <1>7, TypeKept DEF InitWasReset, MainType
<1>8. CASE TakeToken
  BY <1>8, TypeKept DEF TakeToken, MainType, ResetType, Tokens
<1>9. CASE InitTimeoutReset
  BY <1>9, TypeKept DEF InitTimeoutReset, MainType
<1>10. CASE DiscardResult
  BY <1>10, TypeKept DEF DiscardResult, MainType
<1>11. CASE SendReady
  BY <1>11, TypeKept DEF SendReady, MainType
<1>12. CASE ExitChan
  BY <1>12, TypeKept DEF ExitChan, MainType
<1> QED
  BY <1>1, <1>2, <1>3, <1>4, <1>5, <1>6, <1>7, <1>8, <1>9, <1>10, <1>11, <1>12 DEF Main

\* The reset a party starts, and the result an invocation is given, have their types.
LEMMA StartTyped ==
    ASSUME Typed, NEW r \in Resets, StartReset(r)
    PROVE  reset' \in [Resets -> ResetRecs]
BY DEF StartReset, Typed, ResetType, ResetRecs

LEMMA FieldsTyped ==
    ASSUME NEW q \in InvRecs
    PROVE  /\ \A pc \in {"idle", "await", "request", "inline", "handle",
                         "silent", "failing", "resetting", "done"} : [q EXCEPT !.pc = pc] \in InvRecs
           /\ \A b \in BOOLEAN : [q EXCEPT !.cold = b] \in InvRecs
           /\ \A f \in {"", "Init"} : [q EXCEPT !.failed = f] \in InvRecs
           /\ \A s \in {"none", "ok", "empty", "failed", "timeout"} : [q EXCEPT !.res = s] \in InvRecs
           /\ \A o \in [status : {"none", "", "timeout", "error"}, error : ErrorTypes] :
                  [q EXCEPT !.report = o] \in InvRecs
           /\ \A s \in {"none", "response", "error"} : [q EXCEPT !.sent = s] \in InvRecs
BY DEF InvRecs

LEMMA InvTyped ==
    ASSUME Typed, NEW k \in Invokes, NEW q \in InvRecs
    PROVE  inv[k] \in InvRecs /\ [inv EXCEPT ![k] = q] \in [Invokes -> InvRecs]
BY DEF Typed, InvType

LEMMA SetTyped ==
    ASSUME Typed, NEW k \in Invokes,
           NEW pc \in {"idle", "await", "request", "inline", "handle",
                       "silent", "failing", "resetting", "done"}
    PROVE  [inv EXCEPT ![k].pc = pc] \in [Invokes -> InvRecs]
<1>1. inv[k] \in InvRecs
  BY DEF Typed, InvType
<1>2. PICK q \in InvRecs : q = [inv[k] EXCEPT !.pc = pc]
  BY <1>1, FieldsTyped
<1> QED
  BY <1>2, InvTyped

LEMMA PrintTyped ==
    ASSUME Typed, NEW k \in Invokes, NEW res \in {"none", "ok", "empty", "failed", "timeout"},
           NEW hasErrorType \in BOOLEAN, PrintEndReports(k, res, hasErrorType)
    PROVE  inv' \in [Invokes -> InvRecs]
<1>1. Outcome(res) \in [status : {"none", "", "timeout", "error"}, error : ErrorTypes]
  BY DEF Outcome, Typed, DomainType, EventRecs, ErrorTypes
<1>2. SendResult(Outcome(res).status # "", hasErrorType) \in {"none", "response", "error"}
  BY DEF SendResult
<1>3. PICK o, s : o = Outcome(res) /\ s = SendResult(Outcome(res).status # "", hasErrorType)
  OBVIOUS
<1>4. PICK q1 \in InvRecs : q1 = [inv[k] EXCEPT !.pc = "done"]
  BY FieldsTyped DEF Typed, InvType
<1>5. PICK q2 \in InvRecs : q2 = [q1 EXCEPT !.res = res]
  BY FieldsTyped
<1>6. PICK q3 \in InvRecs : q3 = [q2 EXCEPT !.report = o]
  BY <1>1, <1>3, FieldsTyped
<1>7. PICK q4 \in InvRecs : q4 = [q3 EXCEPT !.sent = s]
  BY <1>2, <1>3, FieldsTyped
<1>8. q4 = [inv[k] EXCEPT !.pc = "done", !.res = res, !.report = o, !.sent = s]
  BY <1>4, <1>5, <1>6, <1>7 DEF InvRecs
<1>9. inv' = [inv EXCEPT ![k] = q4]
  BY <1>3, <1>8 DEF PrintEndReports
<1> QED
  BY <1>9, InvTyped

LEMMA InvokeStepType ==
    ASSUME Typed, conf \in Deployments, NEW k \in Invokes, InvokeStep(k)
    PROVE  Typed'
<1> USE DEF Typed
<1>1. CASE SetReplyStream(k)
  BY <1>1, TypeKept, SetTyped DEF SetReplyStream, Set, MainType, mainVars, InvType
<1>2. CASE HandleInvoke(k)
  <2>1. inv' \in [Invokes -> InvRecs]
    <3>1. PICK pc \in {"handle", "inline"} : inv' = [inv EXCEPT ![k].pc = pc]
      BY <1>2 DEF HandleInvoke, Set
    <3> QED
      BY <3>1, SetTyped
  <2>2. rapid' \in RapidRecs
    BY <1>2 DEF HandleInvoke, DomainType, RapidRecs
  <2>3. att' \in AttRecs /\ EndsKnown'
    BY <1>2 DEF HandleInvoke, DomainType, AttRecs, NoAtt, EndsKnown
  <2>4. ev' \in EventRecs
    BY <1>2, EventsTyped DEF HandleInvoke, DomainType, ErrorTypes
  <2> QED
    BY <1>2, <2>1, <2>2, <2>3, <2>4, TypeKept DEF HandleInvoke, DomainType, InvType
<1>3. CASE InlineInitReturns(k)
  <2>1. att' \in AttRecs /\ EndsKnown'
    BY <1>3 DEF InlineInitReturns, AttRecs, NoAtt, EndsKnown
  <2>2. rapid' \in RapidRecs
    BY <1>3 DEF InlineInitReturns, DomainType, RapidRecs
  <2>3. inv' \in [Invokes -> InvRecs]
    <3>1. CASE Set(k, "handle")
      BY <3>1, SetTyped DEF Set
    <3>2. CASE inv' = [inv EXCEPT ![k].pc = After(k, att.res), ![k].failed = "Init"]
      <4>1. PICK q1 \in InvRecs : q1 = [inv[k] EXCEPT !.pc = After(k, att.res)]
        BY FieldsTyped DEF InvType, After
      <4>2. PICK q2 \in InvRecs : q2 = [q1 EXCEPT !.failed = "Init"]
        BY FieldsTyped
      <4>3. inv' = [inv EXCEPT ![k] = q2]
        BY <3>2, <4>1, <4>2
      <4> QED
        BY <4>3, InvTyped
    <3> QED
      BY <1>3, <3>1, <3>2 DEF InlineInitReturns
  <2> QED
    BY <1>3, <2>1, <2>2, <2>3, TypeKept DEF InlineInitReturns, DomainType, InvType
<1>4. CASE HandlerCanceled(k)
  <2>1. rapid' \in RapidRecs
    BY <1>4 DEF HandlerCanceled, DomainType, RapidRecs
  <2>2. inv' \in [Invokes -> InvRecs]
    BY <1>4, SetTyped DEF HandlerCanceled, Set, After
  <2> QED
    BY <1>4, <2>1, <2>2, TypeKept DEF HandlerCanceled, DomainType, EndsKnown, InvType
<1>5. CASE InvokeFails(k)
  <2>1. reset' \in [Resets -> ResetRecs]
    BY <1>5, StartTyped, Names DEF InvokeFails, ResetType
  <2>2. inv' \in [Invokes -> InvRecs]
    <3>1. PICK q1 \in InvRecs : q1 = [inv[k] EXCEPT !.pc = "resetting"]
      BY FieldsTyped DEF InvType
    <3>2. PICK q2 \in InvRecs : q2 = [q1 EXCEPT !.res = "failed"]
      BY FieldsTyped
    <3>3. inv' = inv \/ inv' = [inv EXCEPT ![k] = q2]
      BY <1>5, <3>1, <3>2 DEF InvokeFails
    <3> QED
      BY <3>3, InvTyped DEF InvType
  <2> QED
    BY <1>5, <2>1, <2>2, TypeKept, ZenonT(60) DEF InvokeFails, MainType, ResetType, InvType
<1>6. CASE ReservationDone(k)
  BY <1>6, PrintTyped, TypeKept DEF ReservationDone, InvType
<1>7. CASE InvokeReturns(k)
  <2>1. reset' \in [Resets -> ResetRecs]
    BY <1>7, Names DEF InvokeReturns, ResetType, ResetRecs, NoReset
  <2>2. inv[k].res \in {"none", "ok", "empty", "failed", "timeout"}
    BY DEF InvType, InvRecs
  <2>3. inv' \in [Invokes -> InvRecs]
    BY <1>7, <2>2, PrintTyped DEF InvokeReturns
  <2> QED
    BY <1>7, <2>1, <2>3, TypeKept DEF InvokeReturns, ResetType, InvType
<1> QED
  BY <1>1, <1>2, <1>3, <1>4, <1>5, <1>6, <1>7 DEF InvokeStep

LEMMA WorldType ==
    ASSUME Typed, conf \in Deployments, World
    PROVE  Typed'
<1> USE DEF Typed
<1>1. CASE RuntimeReady
  <2>1. rapid' \in RapidRecs
    BY <1>1 DEF RuntimeReady, DomainType, RapidRecs
  <2> QED
    BY <1>1, <2>1, EndsTyped, TypeKept DEF RuntimeReady, DomainType
<1>2. ASSUME NEW j \in Reloads, HotReload(j) PROVE Typed'
  BY <1>2, Names, StartTyped, TypeKept DEF HotReload, ResetType
<1>3. ASSUME NEW k \in Invokes, Dispatch(k) PROVE Typed'
  <2>1. inv' \in [Invokes -> InvRecs] /\ ctx' \in 0 .. MaxInvokes
    <3>1. PICK q1 \in InvRecs : q1 = [inv[k] EXCEPT !.pc = "await"]
      BY FieldsTyped DEF InvType
    <3>2. PICK q2 \in InvRecs : q2 = [q1 EXCEPT !.cold = ev.cold]
      BY FieldsTyped DEF DomainType, EventRecs
    <3>3. inv' = [inv EXCEPT ![k] = q2]
      BY <1>3, <3>1, <3>2 DEF Dispatch
    <3> QED
      BY <1>3, <3>3, InvTyped, Names DEF Dispatch
  <2>2. ev' \in EventRecs
    BY <1>3, EventsTyped DEF Dispatch, DomainType, ErrorTypes
  <2> QED
    BY <1>3, <2>1, <2>2, TypeKept DEF Dispatch, DomainType, EndsKnown, InvType
<1>4. ASSUME NEW k \in Invokes, HandlerOk(k) PROVE Typed'
  <2>1. rapid' \in RapidRecs
    BY <1>4 DEF HandlerOk, DomainType, RapidRecs
  <2>2. inv' \in [Invokes -> InvRecs]
    BY <1>4, PrintTyped, SetTyped, ZenonT(60) DEF HandlerOk, Set
  <2>3. ctx' \in 0 .. MaxInvokes
    BY <1>4, Names DEF HandlerOk, Release, InvType
  <2> QED
    BY <1>4, <2>1, <2>2, <2>3, TypeKept DEF HandlerOk, DomainType, EndsKnown, InvType
<1> QED
  BY <1>1, <1>2, <1>3, <1>4 DEF World

LEMMA TimerType ==
    ASSUME Typed, conf \in Deployments, Timer
    PROVE  Typed'
<1> USE DEF Typed
<1>1. CASE InitTimerFires
  <2>1. ev' \in EventRecs
    BY <1>1, EventsTyped DEF InitTimerFires, DomainType, ErrorTypes
  <2> QED
    BY <1>1, <2>1, Names, StartTyped, TypeKept, ZenonT(60)
       DEF InitTimerFires, MainType, DomainType, EndsKnown, ResetType
<1>2. CASE ExtendedInitTimesOut
  BY <1>2, TypeKept DEF ExtendedInitTimesOut, ReportInitFailure, MainType
<1>3. ASSUME NEW k \in Invokes, InvokeTimesOut(k) PROVE Typed'
  <2>1. inv' \in [Invokes -> InvRecs]
    <3>1. PICK q \in InvRecs : q = [inv[k] EXCEPT !.res = "timeout"]
      BY FieldsTyped DEF InvType
    <3>2. inv' = [inv EXCEPT ![k] = q]
      BY <1>3, <3>1 DEF InvokeTimesOut
    <3> QED
      BY <3>2, InvTyped
  <2> QED
    BY <1>3, <2>1, Names, StartTyped, TypeKept DEF InvokeTimesOut, ResetType, InvType
<1> QED
  BY <1>1, <1>2, <1>3 DEF Timer

LEMMA FaultType ==
    ASSUME Typed, Fault
    PROVE  Typed'
<1> USE DEF Typed
<1>1. CASE InitRefused
  BY <1>1, TypeKept DEF InitRefused, DomainType, AttRecs, RapidRecs, EndsKnown
<1>2. CASE BootFails
  BY <1>2, EndsTyped, TypeKept DEF BootFails, DomainType
<1>3. CASE ExecFails
  <2>1. rapid' \in RapidRecs
    BY <1>3, FatalTyped DEF ExecFails, DomainType, RapidRecs, ErrorTypes
  <2> QED
    BY <1>3, <2>1, EndsTyped, TypeKept DEF ExecFails, DomainType
<1>4. CASE InitError
  <2>1. rapid' \in RapidRecs
    BY <1>4, FatalTyped DEF InitError, DomainType, RapidRecs, ErrorTypes
  <2> QED
    BY <1>4, <2>1, TypeKept DEF InitError, DomainType, EndsKnown
<1>5. CASE RuntimeExits
  <2>1. rapid' \in RapidRecs
    BY <1>5, FatalTyped, Names DEF RuntimeExits, DomainType, RapidRecs, ErrorTypes
  <2> QED
    BY <1>5, <2>1, TypeKept DEF RuntimeExits, DomainType, EndsKnown
<1>6. CASE SettingsRefused \/ DownloadCodeArchivesFails \/ NoRuntimeAPI
  BY <1>6, TypeKept DEF SettingsRefused, DownloadCodeArchivesFails, NoRuntimeAPI, MainType
<1>7. CASE SendReadyFails
  BY <1>7, TypeKept DEF SendReadyFails, MainType
<1>8. CASE Signal
  BY <1>8, Names, StartTyped, TypeKept DEF Signal, ResetType
<1> QED
  BY <1>1, <1>2, <1>3, <1>4, <1>5, <1>6, <1>7, <1>8 DEF Fault

LEMMA NextType ==
    ASSUME Typed, conf \in Confs, faults \in 0 .. MaxFaults, [Next]_vars
    PROVE  Typed' /\ conf' \in Confs /\ faults' \in 0 .. MaxFaults
<1>1. CASE UNCHANGED vars
  BY <1>1, TypeKept DEF vars, Typed, mainVars, domainVars, resetVars
<1>2. CASE Next
  <2>1. conf \in Deployments
    BY InitProgramAssumption
  <2>2. faults' \in 0 .. MaxFaults /\ conf' \in Confs
    BY <1>2, Steps, InitProgramAssumption
  <2>3. Stepped
    BY <1>2, Steps
  <2> QED
    BY <2>1, <2>2, <2>3, AttemptType, MainStepType, ResetStepType, InvokeStepType, WorldType,
       TimerType, FaultType DEF Stepped
<1> QED
  BY <1>1, <1>2

\* The state of main, of the init attempts, of the sandbox and the events API, of the calls
\* of Reset and of the invocations has its type, however many changes, invocations and faults
\* there are: a failure that the eager init delivers is one the channel of failures takes.
THEOREM TypeCorrect == Spec => []TypeOK
<1>1. Init => Typed /\ conf \in Confs /\ faults \in 0 .. MaxFaults
  <2>1. 0 \in 0 .. MaxFaults
    BY InitProgramAssumption
  <2> QED
    BY <2>1, InitType, Zenon DEF Init
<1>2. Typed /\ conf \in Confs /\ faults \in 0 .. MaxFaults /\ [Next]_vars
      => (Typed /\ conf \in Confs /\ faults \in 0 .. MaxFaults)'
  BY NextType
<1> QED
  BY <1>1, <1>2, TypeParts, PTL DEF Spec

-----------------------------------------------------------------------------
\* The steps of a reset move calls that have started, and leave main, the init attempts, the
\* events API and the invocations alone; what they rearm is not ready any more.
LEMMA ResetFrame ==
    ASSUME Typed, NEW r \in Resets, ResetStep(r)
    PROVE  /\ UNCHANGED <<mainVars, failures, att, ev, payload, aborter, took, inv>>
           /\ rapid'.ready => rapid.ready
           /\ \A x \in Resets : reset'[x] = NoReset <=> reset[x] = NoReset
<1>1. reset \in [Resets -> ResetRecs] /\ rapid \in RapidRecs
  BY DEF Typed, ResetType, DomainType
<1> USE <1>1 DEF Go, NoReset, ResetRecs
<1>2. CASE ResetCancel(r)
  BY <1>2 DEF ResetCancel, RapidRecs
<1>3. CASE HandleReset(r)
  BY <1>3 DEF HandleReset, domainVars
<1>4. CASE ResetRearm(r)
  BY <1>4 DEF ResetRearm, RapidRecs
<1>5. CASE ResetClear(r)
  BY <1>5 DEF ResetClear, domainVars
<1>6. CASE CallerReleases(r)
  BY <1>6 DEF CallerReleases, domainVars
<1>7. CASE SendResetDone(r)
  BY <1>7 DEF SendResetDone, domainVars
<1>8. ASSUME NEW w \in Resets, ResetHandoff(r, w)
      PROVE  /\ UNCHANGED <<mainVars, failures, att, ev, payload, aborter, took, inv>>
             /\ rapid'.ready => rapid.ready
             /\ \A x \in Resets : reset'[x] = NoReset <=> reset[x] = NoReset
  BY <1>8 DEF ResetHandoff, domainVars
<1> QED
  BY <1>2, <1>3, <1>4, <1>5, <1>6, <1>7, <1>8 DEF ResetStep

\* The steps of an invocation move the invocation only, leave what main knows alone, unless
\* the program panics, and reset nothing but ByInvoke.
LEMMA InvokeFrame ==
    ASSUME Typed, NEW k \in Invokes, InvokeStep(k)
    PROVE  /\ UNCHANGED <<status, initDone, failures, payload, aborter, token, took, crossed>>
           /\ main' \in {main, "exited"} /\ rapid'.ready = rapid.ready
           /\ rapid'.cancel = rapid.cancel
           /\ inv[k].pc \notin {"idle", "done"}
           /\ \A l \in Invokes : l # k => inv'[l] = inv[l]
           /\ \A x \in Resets : x # ByInvoke => reset'[x] = reset[x]
<1>1. reset \in [Resets -> ResetRecs] /\ rapid \in RapidRecs /\ inv \in [Invokes -> InvRecs]
  BY DEF Typed, ResetType, DomainType, InvType
<1> USE <1>1, Names
<1>2. CASE SetReplyStream(k)
  BY <1>2 DEF SetReplyStream, Set, mainVars, domainVars, resetVars
<1>3. CASE HandleInvoke(k)
  BY <1>3 DEF HandleInvoke, Set, mainVars, resetVars, RapidRecs
<1>4. CASE InlineInitReturns(k)
  BY <1>4 DEF InlineInitReturns, Set, mainVars, resetVars, RapidRecs
<1>5. CASE HandlerCanceled(k)
  BY <1>5 DEF HandlerCanceled, Set, mainVars, resetVars, RapidRecs
<1>6. CASE InvokeFails(k)
  BY <1>6 DEF InvokeFails, StartReset, domainVars
<1>7. CASE ReservationDone(k)
  BY <1>7 DEF ReservationDone, PrintEndReports, mainVars, domainVars, resetVars
<1>8. CASE InvokeReturns(k)
  BY <1>8 DEF InvokeReturns, PrintEndReports, mainVars, domainVars
<1> QED
  BY <1>2, <1>3, <1>4, <1>5, <1>6, <1>7, <1>8 DEF InvokeStep

LEMMA Fresh == NoInv.pc = "idle" /\ NoInv.cold = FALSE /\ NoInv.failed = "" /\ NoInv.res = "none"
BY DEF NoInv

\* FlowInv is about main, what it has heard, the attempt and the timeout's reset.
LEMMA FlowKept ==
    ASSUME Typed, FlowInv, UNCHANGED <<main, status, initDone, failures, att>>,
           rapid'.ready => rapid.ready \/ main # "boot",
           \A k \in Invokes : inv'[k] # NoInv => inv[k] # NoInv \/ main \in {"ready", "exited"},
           reset'[ByTimeout] = NoReset <=> reset[ByTimeout] = NoReset
    PROVE  FlowInv'
BY DEF FlowInv

LEMMA AttemptFlow ==
    ASSUME Typed, FlowInv, Attempt
    PROVE  FlowInv'
<1>1. att \in AttRecs /\ rapid \in RapidRecs /\ EndsKnown
  BY DEF Typed, DomainType
<1> USE <1>1 DEF mainVars, resetVars
<1>2. CASE HandleInit
  BY <1>2 DEF HandleInit, FlowInv, AttRecs, RapidRecs
<1>3. CASE RuntimeStarted
  BY <1>3 DEF RuntimeStarted, FlowInv, AttRecs
<1>4. CASE BootCanceled
  BY <1>4 DEF BootCanceled, Ends, FlowInv, AttRecs
<1>5. CASE RunCanceled
  BY <1>5 DEF RunCanceled, Ends, FlowInv, AttRecs
<1>6. CASE InitReport
  BY <1>6 DEF InitReport, FlowInv, AttRecs
<1>7. CASE InitDelivered
  BY <1>7 DEF InitDelivered, FlowInv, AttRecs, RapidRecs, NoAtt, EndsKnown
<1> QED
  BY <1>2, <1>3, <1>4, <1>5, <1>6, <1>7 DEF Attempt

LEMMA MainFlow ==
    ASSUME Typed, FlowInv, Main
    PROVE  FlowInv'
<1>1. att \in AttRecs
  BY DEF Typed, DomainType
<1> USE <1>1 DEF FlowInv, mainVars, domainVars, resetVars
<1>2. CASE StartInit
  BY <1>2 DEF StartInit, AttRecs, NoAtt
<1>3. CASE AwaitInitialized
  BY <1>3 DEF AwaitInitialized
<1>4. CASE AwaitInitializedReleases
  BY <1>4 DEF AwaitInitializedReleases
<1>5. CASE InitSucceeded
  BY <1>5 DEF InitSucceeded
<1>6. CASE InitFailureFolded
  BY <1>6 DEF InitFailureFolded
<1>7. CASE InitFailureReportedAndExit
  BY <1>7 DEF InitFailureReportedAndExit
<1>8. CASE InitWasReset
  BY <1>8 DEF InitWasReset
<1>9. CASE TakeToken
  BY <1>9 DEF TakeToken
<1>10. CASE InitTimeoutReset
  BY <1>10 DEF InitTimeoutReset
<1>11. CASE DiscardResult
  BY <1>11 DEF DiscardResult
<1>12. CASE SendReady
  BY <1>12 DEF SendReady
<1>13. CASE ExitChan
  BY <1>13 DEF ExitChan
<1> QED
  BY <1>2, <1>3, <1>4, <1>5, <1>6, <1>7, <1>8, <1>9, <1>10, <1>11, <1>12, <1>13 DEF Main

LEMMA InvokeStepFlow ==
    ASSUME Typed, FlowInv, Alive, NEW k \in Invokes, InvokeStep(k)
    PROVE  FlowInv'
<1>1. main = "ready"
  <2>1. inv[k] # NoInv
    BY InvokeFrame, Fresh
  <2> QED
    BY <2>1 DEF FlowInv, Alive
<1>2. ASSUME UNCHANGED att PROVE FlowInv'
  BY <1>1, <1>2, InvokeFrame, Names DEF FlowInv
<1>3. ASSUME HandleInvoke(k) \/ InlineInitReturns(k) PROVE FlowInv'
  <2>1. att.phase # "init"
    BY <1>1 DEF FlowInv
  <2>2. \/ UNCHANGED att \/ att' = NoAtt
        \/ att' = [phase |-> "invoke", pc |-> "start", res |-> "none"]
    BY <1>3 DEF HandleInvoke, InlineInitReturns, NoAtt
  <2> QED
    BY <1>1, <1>2, <2>1, <2>2, InvokeFrame, Names DEF FlowInv, NoAtt
<1> QED
  BY <1>2, <1>3 DEF InvokeStep, SetReplyStream, HandlerCanceled, InvokeFails, ReservationDone,
                    InvokeReturns, domainVars

LEMMA OthersFlow ==
    ASSUME Typed, FlowInv, Alive, World \/ Timer \/ Fault
    PROVE  FlowInv'
<1>1. att \in AttRecs /\ rapid \in RapidRecs /\ reset \in [Resets -> ResetRecs]
      /\ inv \in [Invokes -> InvRecs]
  BY DEF Typed, DomainType, ResetType, InvType
<1> USE <1>1, Names DEF mainVars, domainVars, resetVars
<1>2. CASE RuntimeReady
  <2>1. rapid'.ready => main # "boot"
    BY <1>2 DEF RuntimeReady, FlowInv
  <2> QED
    BY <1>2, <2>1 DEF RuntimeReady, Ends, FlowInv, AttRecs
<1>3. ASSUME NEW j \in Reloads, HotReload(j) PROVE FlowInv'
  BY <1>3, FlowKept DEF HotReload, StartReset
<1>4. ASSUME NEW k \in Invokes, Dispatch(k) PROVE FlowInv'
  BY <1>4, FlowKept DEF Dispatch
<1>5. ASSUME NEW k \in Invokes, HandlerOk(k) PROVE FlowInv'
  <2>1. inv[k] # NoInv
    BY <1>5, Fresh DEF HandlerOk
  <2>2. rapid'.ready = rapid.ready /\ \A l \in Invokes : l # k => inv'[l] = inv[l]
    BY <1>5 DEF HandlerOk, Set, PrintEndReports, RapidRecs
  <2> QED
    BY <1>5, <2>1, <2>2, FlowKept DEF HandlerOk
<1>6. CASE InitTimerFires
  BY <1>6 DEF InitTimerFires, StartReset, FlowInv, NoReset
<1>7. CASE ExtendedInitTimesOut
  BY <1>7 DEF ExtendedInitTimesOut, ReportInitFailure, FlowInv
<1>8. ASSUME NEW k \in Invokes, InvokeTimesOut(k) PROVE FlowInv'
  <2>1. inv[k] # NoInv
    BY <1>8, Fresh DEF InvokeTimesOut
  <2> QED
    BY <1>8, <2>1, FlowKept DEF InvokeTimesOut, StartReset
<1>9. CASE InitRefused
  BY <1>9 DEF InitRefused, FlowInv, AttRecs, RapidRecs
<1>10. CASE BootFails
  BY <1>10 DEF BootFails, Ends, FlowInv, AttRecs
<1>11. CASE ExecFails
  BY <1>11 DEF ExecFails, Ends, FlowInv, AttRecs, RapidRecs
<1>12. CASE InitError \/ RuntimeExits
  <2>1. rapid'.ready = rapid.ready
    BY <1>12 DEF InitError, RuntimeExits, RapidRecs
  <2> QED
    BY <1>12, <2>1, FlowKept DEF InitError, RuntimeExits
<1>13. CASE SettingsRefused \/ DownloadCodeArchivesFails \/ NoRuntimeAPI \/ SendReadyFails
  BY <1>13 DEF SettingsRefused, DownloadCodeArchivesFails, NoRuntimeAPI, SendReadyFails, FlowInv
<1>14. CASE Signal
  BY <1>14, FlowKept DEF Signal, StartReset
<1> QED
  BY <1>2, <1>3, <1>4, <1>5, <1>6, <1>7, <1>8, <1>9, <1>10, <1>11, <1>12, <1>13, <1>14
     DEF World, Timer, Fault

LEMMA NextFlow ==
    ASSUME Typed, FlowInv, [Next]_vars
    PROVE  FlowInv'
<1>1. CASE UNCHANGED vars
  BY <1>1 DEF vars, FlowInv
<1>2. ASSUME NEW r \in Resets, ResetStep(r) PROVE FlowInv'
  BY <1>2, ResetFrame, FlowKept, Names DEF mainVars
<1>3. CASE Next
  BY <1>2, <1>3, Steps, AttemptFlow, MainFlow, InvokeStepFlow, OthersFlow DEF Stepped
<1> QED
  BY <1>1, <1>3

-----------------------------------------------------------------------------
\* What Set and PrintEndReports do to an invocation.
LEMMA SetFields ==
    ASSUME Typed, NEW k \in Invokes, NEW pc, Set(k, pc)
    PROVE  /\ inv'[k].pc = pc /\ inv'[k].cold = inv[k].cold /\ inv'[k].failed = inv[k].failed
           /\ inv'[k].res = inv[k].res /\ inv'[k].report = inv[k].report
           /\ \A l \in Invokes : l # k => inv'[l] = inv[l]
BY DEF Typed, InvType, InvRecs, Set

LEMMA PrintFields ==
    ASSUME Typed, NEW k \in Invokes, NEW res, NEW hasErrorType, PrintEndReports(k, res, hasErrorType)
    PROVE  /\ inv'[k].pc = "done" /\ inv'[k].cold = inv[k].cold /\ inv'[k].failed = inv[k].failed
           /\ inv'[k].res = res /\ inv'[k].report = Outcome(res)
           /\ \A l \in Invokes : l # k => inv'[l] = inv[l]
<1>1. PICK o, s : o = Outcome(res) /\ s = SendResult(Outcome(res).status # "", hasErrorType)
  OBVIOUS
<1>2. PICK q : q = [inv[k] EXCEPT !.pc = "done", !.res = res, !.report = o, !.sent = s]
  OBVIOUS
<1>3. inv' = [inv EXCEPT ![k] = q]
  BY <1>1, <1>2 DEF PrintEndReports
<1>4. inv[k] \in InvRecs /\ DOMAIN inv = Invokes
  BY DEF Typed, InvType
<1>5. /\ q.pc = "done" /\ q.cold = inv[k].cold /\ q.failed = inv[k].failed
      /\ q.res = res /\ q.report = o
  BY <1>2, <1>4 DEF InvRecs
<1> QED
  BY <1>1, <1>3, <1>4, <1>5 DEF Typed, InvType

-----------------------------------------------------------------------------
\* The cold start duration

LEMMA InitCold == Init => ColdInv
<1>1. NewEventsAPI.cold = FALSE /\ NoAtt.phase = "none"
  BY DEF NewEventsAPI, NoAtt
<1> QED
  BY <1>1, Fresh DEF Init, ColdInv

LEMMA ColdKept ==
    ASSUME Typed, ColdInv, conf' = conf,
           ev'.cold => ev.cold, ev.timedOut => ev'.timedOut,
           \A k \in Invokes : inv'[k].cold => inv[k].cold,
           \A k \in Invokes : inv[k] = NoInv => inv'[k] = NoInv,
           reset'[ByTimeout] = NoReset <=> reset[ByTimeout] = NoReset,
           att'.phase = "init" /\ att'.pc # "deliver" =>
               (att.phase = "init" /\ att.pc # "deliver") \/ reset[ByTimeout] = NoReset
    PROVE  ColdInv'
BY DEF ColdInv

\* An attempt that ends late leaves no duration behind, one that ends in time is the first
\* and the only one before the invocations.
LEMMA ReportCold ==
    ASSUME Typed, FlowInv, ColdInv, Alive, conf' = conf, InitReport
    PROVE  ColdInv'
<1>1. att \in AttRecs /\ ev \in EventRecs /\ FirstFatalError \in ErrorTypes
  BY FatalTyped DEF Typed, DomainType, ErrorTypes
<1>2. PICK e : e = RuntimeDone(ev)
  OBVIOUS
<1>3. e \in EventRecs /\ e.timedOut = ev.timedOut /\ e.cold = ev.cold
  BY <1>1, <1>2 DEF InitReport, RuntimeDone, SendInitRuntimeDone, EventRecs, ErrorTypes
<1>4. /\ ev' = SendInitReport(e, att.phase) /\ att'.phase = att.phase /\ att'.pc = "deliver"
      /\ inv' = inv /\ reset' = reset
  BY <1>1, <1>2 DEF InitReport, AttRecs, resetVars
<1>5. CASE att.phase = "init"
  <2>1. \A k \in Invokes : inv[k] = NoInv
    BY <1>5 DEF FlowInv, Alive
  <2>2. CASE e.timedOut
    <3>1. ev' = [e EXCEPT !.timedOut = FALSE]
      BY <1>4, <1>5, <2>2 DEF SendInitReport
    <3>2. ev'.cold = ev.cold
      BY <1>3, <3>1 DEF EventRecs
    <3> QED
      BY <1>4, <3>2 DEF ColdInv
  <2>3. CASE ~e.timedOut
    <3>1. reset[ByTimeout] = NoReset
      BY <1>3, <1>5, <2>3 DEF ColdInv, InitReport
    <3>2. ev'.cold => ev.cold \/ conf.onDemand
      BY <1>3, <1>4, <1>5, <2>3 DEF SendInitReport, EventRecs
    <3> QED
      BY <1>4, <2>1, <3>1, <3>2 DEF ColdInv
  <2> QED
    BY <2>2, <2>3
<1>6. CASE att.phase # "init"
  <2>1. ev'.cold => ev.cold
    BY <1>3, <1>4, <1>6 DEF SendInitReport, EventRecs
  <2> QED
    BY <1>4, <1>6, <2>1 DEF ColdInv
<1> QED
  BY <1>5, <1>6

LEMMA AttemptCold ==
    ASSUME Typed, FlowInv, ColdInv, Alive, conf' = conf, Attempt
    PROVE  ColdInv'
<1>1. att \in AttRecs /\ ev \in EventRecs
  BY DEF Typed, DomainType
<1> USE <1>1 DEF mainVars, resetVars
<1>2. CASE HandleInit
  <2>1. ev'.cold = ev.cold /\ ev'.timedOut = ev.timedOut
    BY <1>2 DEF HandleInit, SendInitStart, EventRecs
  <2> QED
    BY <1>2, <2>1, ColdKept DEF HandleInit
<1>3. CASE RuntimeStarted
  BY <1>3, ColdKept DEF RuntimeStarted
<1>4. CASE BootCanceled \/ RunCanceled
  BY <1>4, ColdKept DEF BootCanceled, RunCanceled, Ends, AttRecs
<1>5. CASE InitReport
  BY <1>5, ReportCold
<1>6. CASE InitDelivered
  BY <1>6, ColdKept DEF InitDelivered, NoAtt
<1> QED
  BY <1>2, <1>3, <1>4, <1>5, <1>6 DEF Attempt

LEMMA MainCold ==
    ASSUME Typed, FlowInv, ColdInv, conf' = conf, Main
    PROVE  ColdInv'
<1>1. CASE StartInit
  <2>1. reset[ByTimeout] = NoReset
    BY <1>1 DEF StartInit, FlowInv
  <2> QED
    BY <1>1, <2>1, ColdKept DEF StartInit, resetVars
<1>2. CASE TakeToken
  BY <1>2, ColdKept DEF TakeToken, domainVars
<1>3. CASE ~StartInit /\ ~TakeToken
  <2>1. UNCHANGED <<domainVars, resetVars, inv>>
    BY <1>3 DEF Main, AwaitInitialized, AwaitInitializedReleases, InitSucceeded, InitFailureFolded,
                InitFailureReportedAndExit, InitWasReset, InitTimeoutReset, DiscardResult, SendReady,
                ExitChan
  <2> QED
    BY <2>1, ColdKept DEF domainVars, resetVars
<1> QED
  BY <1>1, <1>2, <1>3

LEMMA InvokeStepCold ==
    ASSUME Typed, FlowInv, ColdInv, Alive, conf' = conf, NEW k \in Invokes, InvokeStep(k)
    PROVE  ColdInv'
<1>1. ev \in EventRecs /\ inv \in [Invokes -> InvRecs]
  BY DEF Typed, DomainType, InvType
<1>2. ev'.cold = ev.cold /\ ev'.timedOut = ev.timedOut
  BY <1>1 DEF InvokeStep, SetReplyStream, HandleInvoke, SendInitStart, InlineInitReturns,
              HandlerCanceled, InvokeFails, ReservationDone, InvokeReturns, domainVars, EventRecs
<1>3. inv'[k].cold = inv[k].cold
  <2>1. CASE \/ SetReplyStream(k) \/ HandleInvoke(k) \/ HandlerCanceled(k)
    BY <2>1, SetFields DEF SetReplyStream, HandleInvoke, HandlerCanceled
  <2>2. CASE InlineInitReturns(k)
    <3>1. CASE Set(k, "handle")
      BY <3>1, SetFields
    <3>2. CASE inv' = [inv EXCEPT ![k].pc = After(k, att.res), ![k].failed = "Init"]
      BY <1>1, <3>2, ZenonT(60) DEF InvRecs
    <3> QED
      BY <2>2, <3>1, <3>2 DEF InlineInitReturns
  <2>3. CASE InvokeFails(k)
    BY <1>1, <2>3, ZenonT(60) DEF InvokeFails, InvRecs
  <2>4. CASE ReservationDone(k) \/ InvokeReturns(k)
    BY <2>4, PrintFields DEF ReservationDone, InvokeReturns
  <2> QED
    BY <2>1, <2>2, <2>3, <2>4 DEF InvokeStep
<1>4. att'.phase = "init" => att' = att
  <2>1. CASE HandleInvoke(k) \/ InlineInitReturns(k)
    <3>1. att' = att \/ att' = NoAtt \/ att' = [NoAtt EXCEPT !.phase = "invoke", !.pc = "start"]
      BY <2>1 DEF HandleInvoke, InlineInitReturns
    <3>2. NoAtt.phase = "none" /\ [NoAtt EXCEPT !.phase = "invoke", !.pc = "start"].phase = "invoke"
      BY DEF NoAtt
    <3> QED
      BY <3>1, <3>2
  <2>2. CASE ~HandleInvoke(k) /\ ~InlineInitReturns(k)
    BY <2>2 DEF InvokeStep, SetReplyStream, HandlerCanceled, InvokeFails, ReservationDone,
                InvokeReturns, domainVars
  <2> QED
    BY <2>1, <2>2
<1>5. inv[k] # NoInv
  BY InvokeFrame, Fresh
<1> QED
  BY <1>2, <1>3, <1>4, <1>5, InvokeFrame, Names, ColdKept

LEMMA OthersCold ==
    ASSUME Typed, FlowInv, ColdInv, Alive, conf' = conf, World \/ Timer \/ Fault
    PROVE  ColdInv'
<1>1. att \in AttRecs /\ ev \in EventRecs /\ reset \in [Resets -> ResetRecs]
      /\ inv \in [Invokes -> InvRecs]
  BY DEF Typed, DomainType, ResetType, InvType
<1> USE <1>1, Names DEF mainVars, domainVars, resetVars
<1>2. CASE RuntimeReady
  BY <1>2, ColdKept DEF RuntimeReady, Ends
<1>3. ASSUME NEW j \in Reloads, HotReload(j) PROVE ColdInv'
  BY <1>3, ColdKept DEF HotReload, StartReset
<1>4. ASSUME NEW k \in Invokes, Dispatch(k) PROVE ColdInv'
  <2>1. ev'.cold = FALSE /\ ev'.timedOut = ev.timedOut
    BY <1>4 DEF Dispatch, TakeColdStartInitDuration, EventRecs
  <2>2. inv'[k].cold = ev.cold /\ \A l \in Invokes : l # k => inv'[l] = inv[l]
    BY <1>4 DEF Dispatch, InvRecs
  <2>3. ev.cold => k = 1
    <3>1. SUFFICES ASSUME ev.cold, k # 1 PROVE FALSE
      OBVIOUS
    <3>2. k - 1 \in Invokes /\ inv[k - 1].pc = "done"
      BY <1>4, <3>1, InitProgramAssumption DEF Dispatch, Invokes
    <3> QED
      BY <3>1, <3>2, Fresh DEF ColdInv
  <2> QED
    BY <1>4, <2>1, <2>2, <2>3 DEF Dispatch, ColdInv
<1>5. ASSUME NEW k \in Invokes, HandlerOk(k) PROVE ColdInv'
  <2>1. inv[k] # NoInv
    BY <1>5, Fresh DEF HandlerOk
  <2>2. inv'[k].cold = inv[k].cold /\ \A l \in Invokes : l # k => inv'[l] = inv[l]
    BY <1>5, SetFields, PrintFields DEF HandlerOk
  <2> QED
    BY <1>5, <2>1, <2>2, ColdKept DEF HandlerOk
<1>6. CASE InitTimerFires
  <2>1. ev'.cold = FALSE /\ ev'.timedOut
    BY <1>6 DEF InitTimerFires, SetInitPhaseTimedOut, EventRecs
  <2>2. \A k \in Invokes : inv[k] = NoInv
    BY <1>6 DEF InitTimerFires, FlowInv
  <2> QED
    BY <1>6, <2>1, <2>2, Fresh DEF InitTimerFires, ColdInv
<1>7. CASE ExtendedInitTimesOut
  BY <1>7, ColdKept DEF ExtendedInitTimesOut
<1>8. ASSUME NEW k \in Invokes, InvokeTimesOut(k) PROVE ColdInv'
  <2>1. inv[k] # NoInv
    BY <1>8, Fresh DEF InvokeTimesOut
  <2>2. inv'[k].cold = inv[k].cold /\ \A l \in Invokes : l # k => inv'[l] = inv[l]
    BY <1>8 DEF InvokeTimesOut, InvRecs
  <2> QED
    BY <1>8, <2>1, <2>2, ColdKept DEF InvokeTimesOut, StartReset
<1>9. CASE InitRefused
  BY <1>9, ColdKept DEF InitRefused
<1>10. CASE BootFails \/ ExecFails
  BY <1>10, ColdKept DEF BootFails, ExecFails, Ends, AttRecs
<1>11. CASE InitError \/ RuntimeExits
  BY <1>11, ColdKept DEF InitError, RuntimeExits
<1>12. CASE SettingsRefused \/ DownloadCodeArchivesFails \/ NoRuntimeAPI \/ SendReadyFails
  BY <1>12, ColdKept DEF SettingsRefused, DownloadCodeArchivesFails, NoRuntimeAPI, SendReadyFails
<1>13. CASE Signal
  BY <1>13, ColdKept DEF Signal, StartReset
<1> QED
  BY <1>2, <1>3, <1>4, <1>5, <1>6, <1>7, <1>8, <1>9, <1>10, <1>11, <1>12, <1>13
     DEF World, Timer, Fault

LEMMA NextCold ==
    ASSUME Typed, FlowInv, ColdInv, [Next]_vars
    PROVE  ColdInv'
<1>1. CASE UNCHANGED vars
  BY <1>1 DEF vars, ColdInv
<1>2. ASSUME NEW r \in Resets, ResetStep(r), conf' = conf PROVE ColdInv'
  BY <1>2, ResetFrame, ColdKept, Names
<1>3. CASE Next
  BY <1>2, <1>3, Steps, AttemptCold, MainCold, InvokeStepCold, OthersCold DEF Stepped
<1> QED
  BY <1>1, <1>3

-----------------------------------------------------------------------------
\* One invocation at a time

LEMMA InitTurn == Init => TurnInv
<1>1. NoAtt.phase = "none"
  BY DEF NoAtt
<1> QED
  BY <1>1, Fresh DEF Init, TurnInv

LEMMA TurnKept ==
    ASSUME Typed, TurnInv, inv' = inv, att'.phase = "invoke" <=> att.phase = "invoke"
    PROVE  TurnInv'
BY DEF TurnInv

\* While an invocation is under way the others are over or have not begun.
LEMMA Alone ==
    ASSUME TurnInv, NEW k \in Invokes, inv[k].pc \notin {"idle", "done"},
           NEW l \in Invokes, l # k
    PROVE  inv[l].pc \in {"idle", "done"}
<1>1. k < l \/ l < k
  BY Names
<1> QED
  BY <1>1 DEF TurnInv

\* So that it may go anywhere without breaking the order.
LEMMA Order ==
    ASSUME TurnInv, NEW k \in Invokes, inv[k].pc \notin {"idle", "done"},
           \A l \in Invokes : l # k => inv'[l] = inv[l]
    PROVE  \A i, l \in Invokes : i < l /\ inv'[l].pc # "idle" => inv'[i].pc = "done"
<1>1. SUFFICES ASSUME NEW i \in Invokes, NEW l \in Invokes, i < l, inv'[l].pc # "idle"
               PROVE  inv'[i].pc = "done"
  OBVIOUS
<1>2. CASE i = k
  <2>1. l # k /\ inv[l].pc # "idle"
    BY <1>1, <1>2, Names
  <2> QED
    BY <1>1, <1>2, <2>1 DEF TurnInv
<1>3. CASE i # k
  BY <1>1, <1>3 DEF TurnInv
<1> QED
  BY <1>2, <1>3

LEMMA NextTurn ==
    ASSUME Typed, FlowInv, TurnInv, [Next]_vars
    PROVE  TurnInv'
<1>1. att \in AttRecs /\ inv \in [Invokes -> InvRecs]
  BY DEF Typed, DomainType, InvType
<1>2. CASE UNCHANGED vars
  BY <1>2 DEF vars, TurnInv
<1>3. CASE Attempt
  <2>1. att'.phase = "invoke" <=> att.phase = "invoke"
    <3>1. CASE InitDelivered
      BY <3>1 DEF InitDelivered, NoAtt
    <3>2. CASE ~InitDelivered
      BY <1>1, <1>3, <3>2 DEF Attempt, HandleInit, RuntimeStarted, BootCanceled, RunCanceled, Ends,
                              InitReport, AttRecs
    <3> QED
      BY <3>1, <3>2
  <2> QED
    BY <1>3, <2>1, TurnKept DEF Attempt, HandleInit, RuntimeStarted, BootCanceled, RunCanceled,
                                InitReport, InitDelivered
<1>4. CASE Main
  <2>1. att'.phase = "invoke" <=> att.phase = "invoke"
    <3>1. CASE StartInit
      BY <3>1 DEF StartInit, FlowInv, NoAtt
    <3>2. CASE ~StartInit
      BY <1>4, <3>2 DEF Main, AwaitInitialized, AwaitInitializedReleases, InitSucceeded,
              InitFailureFolded, InitFailureReportedAndExit, InitWasReset, TakeToken,
              InitTimeoutReset, DiscardResult, SendReady, ExitChan, domainVars
    <3> QED
      BY <3>1, <3>2
  <2>2. inv' = inv
    BY <1>4 DEF Main, StartInit, AwaitInitialized, AwaitInitializedReleases, InitSucceeded,
                InitFailureFolded, InitFailureReportedAndExit, InitWasReset, TakeToken,
                InitTimeoutReset, DiscardResult, SendReady, ExitChan
  <2> QED
    BY <2>1, <2>2, TurnKept
<1>5. ASSUME NEW r \in Resets, ResetStep(r) PROVE TurnInv'
  BY <1>5, ResetFrame, TurnKept
<1>6. ASSUME NEW k \in Invokes, InvokeStep(k) PROVE TurnInv'
  <2>1. \A i, l \in Invokes : i < l /\ inv'[l].pc # "idle" => inv'[i].pc = "done"
    BY <1>6, InvokeFrame, Order
  <2>2. CASE HandleInvoke(k)
    <3>1. CASE inv'[k].pc = "handle" /\ UNCHANGED att
      BY <1>6, <2>1, <2>2, <3>1, InvokeFrame DEF TurnInv, HandleInvoke
    <3>2. CASE inv'[k].pc = "inline" /\ att'.phase = "invoke"
      BY <2>1, <3>2 DEF TurnInv
    <3>3. [NoAtt EXCEPT !.phase = "invoke", !.pc = "start"].phase = "invoke"
      BY DEF NoAtt
    <3> QED
      BY <2>2, <3>1, <3>2, <3>3, SetFields DEF HandleInvoke
  <2>3. CASE InlineInitReturns(k)
    <3>1. att'.phase = "none"
      BY <2>3 DEF InlineInitReturns, NoAtt
    <3>2. inv'[k].pc # "inline"
      <4>1. CASE Set(k, "handle")
        BY <4>1, SetFields
      <4>2. CASE inv' = [inv EXCEPT ![k].pc = After(k, att.res), ![k].failed = "Init"]
        BY <1>1, <4>2 DEF InvRecs, After
      <4> QED
        BY <2>3, <4>1, <4>2 DEF InlineInitReturns
    <3>3. \A l \in Invokes : inv'[l].pc # "inline"
      BY <1>6, <3>2, InvokeFrame, Alone
    <3> QED
      BY <2>1, <3>1, <3>3 DEF TurnInv
  <2>4. CASE ~HandleInvoke(k) /\ ~InlineInitReturns(k)
    <3>1. UNCHANGED att /\ inv[k].pc # "inline"
      BY <1>6, <2>4 DEF InvokeStep, SetReplyStream, HandlerCanceled, InvokeFails, ReservationDone,
                        InvokeReturns, domainVars
    <3>2. inv'[k].pc # "inline"
      <4>1. CASE SetReplyStream(k) \/ HandlerCanceled(k)
        BY <4>1, SetFields DEF SetReplyStream, HandlerCanceled, After
      <4>2. CASE InvokeFails(k)
        BY <1>1, <4>2 DEF InvokeFails, InvRecs
      <4>3. CASE ReservationDone(k) \/ InvokeReturns(k)
        BY <4>3, PrintFields DEF ReservationDone, InvokeReturns
      <4> QED
        BY <1>6, <2>4, <4>1, <4>2, <4>3 DEF InvokeStep
    <3> QED
      BY <1>6, <2>1, <3>1, <3>2, InvokeFrame DEF TurnInv
  <2> QED
    BY <2>2, <2>3, <2>4
<1>7. CASE RuntimeReady \/ BootFails \/ ExecFails \/ InitRefused
  <2>1. att'.phase = att.phase
    BY <1>1, <1>7 DEF RuntimeReady, BootFails, ExecFails, InitRefused, Ends, AttRecs
  <2> QED
    BY <1>7, <2>1, TurnKept DEF RuntimeReady, BootFails, ExecFails, InitRefused
<1>8. ASSUME NEW j \in Reloads, HotReload(j) PROVE TurnInv'
  BY <1>8, TurnKept DEF HotReload, domainVars
<1>9. CASE \/ InitError \/ RuntimeExits \/ SettingsRefused \/ DownloadCodeArchivesFails \/ NoRuntimeAPI
           \/ SendReadyFails \/ Signal \/ InitTimerFires \/ ExtendedInitTimesOut
  BY <1>9, TurnKept DEF InitError, RuntimeExits, SettingsRefused, DownloadCodeArchivesFails,
                        NoRuntimeAPI, SendReadyFails, Signal, InitTimerFires, ExtendedInitTimesOut,
                        domainVars
<1>10. ASSUME NEW k \in Invokes, Dispatch(k) PROVE TurnInv'
  <2>1. inv'[k].pc = "await" /\ UNCHANGED att /\ inv[k].pc = "idle"
    <3>1. PICK b : b = ev.cold
      OBVIOUS
    <3>2. inv' = [inv EXCEPT ![k].pc = "await", ![k].cold = b]
      BY <1>10, <3>1 DEF Dispatch
    <3>3. inv'[k].pc = "await"
      BY <1>1, <3>2, ZenonT(60) DEF InvRecs
    <3> QED
      BY <1>10, <3>3, Fresh DEF Dispatch
  <2>2. \A l \in Invokes : l # k => inv'[l] = inv[l]
    BY <1>1, <1>10 DEF Dispatch
  <2>3. \A i \in Invokes : i < k => inv[i].pc = "done"
    <3>1. SUFFICES ASSUME NEW i \in Invokes, i < k PROVE inv[i].pc = "done"
      OBVIOUS
    <3>2. k - 1 \in Invokes /\ inv[k - 1].pc = "done" /\ (i = k - 1 \/ i < k - 1)
      BY <1>10, <3>1, InitProgramAssumption DEF Dispatch, Invokes
    <3> QED
      BY <3>2 DEF TurnInv
  <2>4. \A l \in Invokes : k < l => inv[l].pc = "idle"
    BY <2>1 DEF TurnInv
  <2> QED
    BY <2>1, <2>2, <2>3, <2>4, Names DEF TurnInv
<1>11. ASSUME NEW k \in Invokes, HandlerOk(k) PROVE TurnInv'
  <2>1. /\ inv[k].pc = "handle" /\ inv'[k].pc # "inline" /\ UNCHANGED att
        /\ \A l \in Invokes : l # k => inv'[l] = inv[l]
    BY <1>11, SetFields, PrintFields DEF HandlerOk
  <2>2. \A i, l \in Invokes : i < l /\ inv'[l].pc # "idle" => inv'[i].pc = "done"
    BY <2>1, Order
  <2> QED
    BY <2>1, <2>2 DEF TurnInv
<1>12. ASSUME NEW k \in Invokes, InvokeTimesOut(k) PROVE TurnInv'
  <2>1. UNCHANGED att /\ \A l \in Invokes : inv'[l].pc = inv[l].pc
    BY <1>1, <1>12 DEF InvokeTimesOut, domainVars, InvRecs
  <2> QED
    BY <2>1 DEF TurnInv
<1>13. CASE Next
  <2>1. Stepped
    BY <1>13, Steps
  <2> QED
    BY <2>1, <1>3, <1>4, <1>5, <1>6, <1>7, <1>8, <1>9, <1>10, <1>11, <1>12
       DEF Stepped, World, Timer, Fault
<1> QED
  BY <1>2, <1>13

-----------------------------------------------------------------------------
\* The error of the last init

LEMMA InitEvents == Init => EventsInv
<1>1. /\ NewEventsAPI.initError = "" /\ NewEventsAPI.status = "" /\ NewEventsAPI.type = ""
      /\ NoAtt.pc = "idle"
  BY DEF NewEventsAPI, NoAtt
<1> QED
  BY <1>1 DEF Init, EventsInv

LEMMA EventsKept ==
    ASSUME EventsInv, att' = att, rapid'.ready => rapid.ready,
           ev'.initError = ev.initError, ev'.status = ev.status, ev'.type = ev.type
    PROVE  EventsInv'
BY DEF EventsInv

\* The report names an error if and only if the attempt has failed, unless main has declared
\* the eager init timed out.
LEMMA ReportEvents ==
    ASSUME Typed, EventsInv, InitReport
    PROVE  EventsInv'
<1>1. att \in AttRecs /\ ev \in EventRecs /\ rapid \in RapidRecs /\ EndsKnown
  BY DEF Typed, DomainType
<1>2. /\ att'.pc = "deliver" /\ att'.res = att.res /\ att'.phase = att.phase /\ rapid' = rapid
      /\ ev' = SendInitReport(RuntimeDone(ev), att.phase)
  BY <1>1 DEF InitReport, AttRecs
<1>3. ev.initError = "" /\ ev.status = "" /\ ev.type = ""
  BY DEF EventsInv, InitReport
<1>4. CASE att.res = "ok"
  <2>1. att.pc = "done"
    BY <1>4 DEF EventsInv, InitReport
  <2>2. PICK e : e = [ev EXCEPT !.status = "success", !.type = ""]
    OBVIOUS
  <2>3. e \in EventRecs /\ e.status = "success" /\ e.initError = ""
    BY <1>1, <1>3, <2>2 DEF EventRecs, ErrorTypes
  <2>4. ev' = SendInitReport(e, att.phase)
    BY <1>2, <1>4, <2>1, <2>2 DEF RuntimeDone, SendInitRuntimeDone
  <2>5. ev'.initError = ""
    BY <2>3, <2>4 DEF SendInitReport, EventRecs
  <2> QED
    BY <1>2, <1>4, <2>5 DEF EventsInv
<1>5. CASE att.res # "ok"
  <2>1. PICK e : e = RuntimeDone(ev)
    OBVIOUS
  <2>2. FirstFatalError \in ErrorTypes
    BY FatalTyped DEF ErrorTypes
  <2>3. e \in EventRecs /\ e.status # "success"
    BY <1>1, <1>3, <1>5, <2>1, <2>2
       DEF RuntimeDone, InitReport, SendInitRuntimeDone, EventRecs
  <2>4. att.phase # "init" => ev'.initError # ""
    BY <1>2, <2>1, <2>3 DEF SendInitReport, EventRecs
  <2>5. ~rapid.ready
    BY <1>5 DEF EventsInv, InitReport
  <2> QED
    BY <1>2, <1>5, <2>4, <2>5 DEF EventsInv
<1> QED
  BY <1>4, <1>5

LEMMA AttemptEvents ==
    ASSUME Typed, EventsInv, Attempt
    PROVE  EventsInv'
<1>1. att \in AttRecs /\ ev \in EventRecs /\ rapid \in RapidRecs
  BY DEF Typed, DomainType
<1>2. CASE HandleInit
  <2>1. ev'.initError = "" /\ ev'.status = "" /\ ev'.type = ""
    BY <1>1, <1>2 DEF HandleInit, SendInitStart, EventRecs
  <2>2. att'.pc = "start" /\ rapid'.ready = rapid.ready /\ ~rapid.ready
    BY <1>1, <1>2 DEF HandleInit, EventsInv, AttRecs, RapidRecs
  <2> QED
    BY <2>1, <2>2 DEF EventsInv
<1>3. CASE RuntimeStarted
  BY <1>1, <1>3 DEF RuntimeStarted, EventsInv, AttRecs
<1>4. CASE BootCanceled \/ RunCanceled
  <2>1. Cause # "ok"
    BY DEF Cause
  <2>2. ~rapid.ready
    BY <1>4 DEF BootCanceled, RunCanceled, EventsInv
  <2> QED
    BY <1>1, <1>4, <2>1, <2>2 DEF BootCanceled, RunCanceled, Ends, EventsInv, AttRecs
<1>5. CASE InitReport
  BY <1>5, ReportEvents
<1>6. CASE InitDelivered
  <2>1. att'.pc = "idle" /\ rapid'.ready = rapid.ready /\ ev' = ev
    BY <1>1, <1>6 DEF InitDelivered, NoAtt, RapidRecs
  <2> QED
    BY <2>1 DEF EventsInv
<1> QED
  BY <1>2, <1>3, <1>4, <1>5, <1>6 DEF Attempt

LEMMA NextEvents ==
    ASSUME Typed, FlowInv, EventsInv, [Next]_vars
    PROVE  EventsInv'
<1>1. att \in AttRecs /\ ev \in EventRecs /\ rapid \in RapidRecs
  BY DEF Typed, DomainType
<1>2. CASE UNCHANGED vars
  BY <1>2 DEF vars, EventsInv
<1>3. CASE Main
  <2>1. CASE StartInit
    <3>1. ~rapid.ready
      BY <2>1 DEF StartInit, FlowInv
    <3>2. att'.pc = "queued"
      BY <2>1 DEF StartInit, NoAtt
    <3> QED
      BY <2>1, <3>1, <3>2 DEF StartInit, EventsInv
  <2>2. CASE ~StartInit
    <3>1. UNCHANGED domainVars
      BY <1>3, <2>2 DEF Main, AwaitInitialized, AwaitInitializedReleases, InitSucceeded,
              InitFailureFolded, InitFailureReportedAndExit, InitWasReset, TakeToken,
              InitTimeoutReset, DiscardResult, SendReady, ExitChan
    <3> QED
      BY <3>1, EventsKept DEF domainVars
  <2> QED
    BY <2>1, <2>2
<1>4. ASSUME NEW r \in Resets, ResetStep(r) PROVE EventsInv'
  BY <1>4, ResetFrame, EventsKept
<1>5. ASSUME NEW k \in Invokes, InvokeStep(k) PROVE EventsInv'
  <2>1. rapid'.ready = rapid.ready
    BY <1>5, InvokeFrame
  <2>2. CASE HandleInvoke(k)
    <3>1. CASE rapid.ready /\ UNCHANGED <<att, ev>>
      BY <2>1, <3>1, EventsKept
    <3>2. CASE ~rapid.ready /\ att' = [NoAtt EXCEPT !.phase = "invoke", !.pc = "start"]
               /\ ev' = SendInitStart(ev)
      <4>1. att'.pc = "start"
        BY <3>2 DEF NoAtt
      <4>2. ev'.initError = "" /\ ev'.status = "" /\ ev'.type = ""
        BY <1>1, <3>2 DEF SendInitStart, EventRecs
      <4> QED
        BY <2>1, <3>2, <4>1, <4>2 DEF EventsInv
    <3> QED
      BY <2>2, <3>1, <3>2 DEF HandleInvoke
  <2>3. CASE InlineInitReturns(k)
    <3>1. att'.pc = "idle" /\ ev' = ev
      BY <2>3 DEF InlineInitReturns, NoAtt
    <3> QED
      BY <2>1, <3>1 DEF EventsInv
  <2>4. CASE ~HandleInvoke(k) /\ ~InlineInitReturns(k)
    <3>1. UNCHANGED <<att, ev>>
      BY <1>5, <2>4 DEF InvokeStep, SetReplyStream, HandlerCanceled, InvokeFails, ReservationDone,
                        InvokeReturns, domainVars
    <3> QED
      BY <2>1, <3>1, EventsKept
  <2> QED
    BY <2>2, <2>3, <2>4
<1>6. CASE RuntimeReady
  BY <1>1, <1>6 DEF RuntimeReady, Ends, EventsInv, AttRecs
<1>7. CASE BootFails \/ ExecFails
  <2>1. rapid'.ready = rapid.ready /\ ~rapid.ready
    BY <1>1, <1>7 DEF BootFails, ExecFails, EventsInv, RapidRecs
  <2> QED
    BY <1>1, <1>7, <2>1 DEF BootFails, ExecFails, Ends, EventsInv, AttRecs
<1>8. CASE InitRefused
  <2>1. rapid'.ready = rapid.ready /\ ~rapid.ready
    BY <1>1, <1>8 DEF InitRefused, EventsInv, RapidRecs
  <2> QED
    BY <1>1, <1>8, <2>1 DEF InitRefused, EventsInv, AttRecs
<1>9. CASE InitError \/ RuntimeExits
  <2>1. rapid'.ready = rapid.ready
    BY <1>1, <1>9 DEF InitError, RuntimeExits, RapidRecs
  <2> QED
    BY <1>9, <2>1, EventsKept DEF InitError, RuntimeExits
<1>10. CASE \/ SettingsRefused \/ DownloadCodeArchivesFails \/ NoRuntimeAPI \/ SendReadyFails
            \/ Signal \/ ExtendedInitTimesOut
            \/ (\E j \in Reloads : HotReload(j)) \/ (\E k \in Invokes : InvokeTimesOut(k))
  BY <1>10, EventsKept DEF SettingsRefused, DownloadCodeArchivesFails, NoRuntimeAPI, SendReadyFails,
                           Signal, ExtendedInitTimesOut, HotReload, InvokeTimesOut, domainVars
<1>11. CASE InitTimerFires
  <2>1. ev'.initError = ev.initError /\ ev'.status = ev.status /\ ev'.type = ev.type
    BY <1>1, <1>11 DEF InitTimerFires, SetInitPhaseTimedOut, EventRecs
  <2> QED
    BY <1>11, <2>1, EventsKept DEF InitTimerFires
<1>12. ASSUME NEW k \in Invokes, Dispatch(k) PROVE EventsInv'
  <2>1. ev'.initError = ev.initError /\ ev'.status = ev.status /\ ev'.type = ev.type
    BY <1>1, <1>12 DEF Dispatch, TakeColdStartInitDuration, EventRecs
  <2> QED
    BY <1>12, <2>1, EventsKept DEF Dispatch
<1>13. ASSUME NEW k \in Invokes, HandlerOk(k) PROVE EventsInv'
  <2>1. rapid'.ready = rapid.ready
    BY <1>1, <1>13 DEF HandlerOk, RapidRecs
  <2> QED
    BY <1>13, <2>1, EventsKept DEF HandlerOk
<1>14. CASE Next
  <2>1. Stepped
    BY <1>14, Steps
  <2> QED
    BY <2>1, AttemptEvents, <1>3, <1>4, <1>5, <1>6, <1>7, <1>8, <1>9, <1>10, <1>11, <1>12, <1>13
       DEF Stepped, World, Timer, Fault
<1> QED
  BY <1>2, <1>14

LEMMA InitBlames == Init => \A k \in Invokes : Blames(k)
BY Fresh DEF Init, Blames

LEMMA BlamesKept ==
    ASSUME NEW k \in Invokes, Blames(k), inv'[k] = inv[k],
           inv[k].pc \in {"handle", "failing", "resetting"} => ev'.initError = ev.initError
    PROVE  Blames(k)'
BY DEF Blames

\* While an attempt runs nobody depends on how the last one ended.
LEMMA NobodyBlames ==
    ASSUME Typed, FlowInv, TurnInv, Alive, att.pc # "idle", NEW k \in Invokes
    PROVE  inv[k].pc \notin {"handle", "failing", "resetting"}
<1>1. CASE att.phase = "init"
  BY <1>1, Fresh DEF FlowInv, Alive
<1>2. CASE att.phase = "invoke"
  BY <1>2, Alone DEF TurnInv
<1> QED
  BY <1>1, <1>2 DEF FlowInv, Typed, DomainType, AttRecs

\* A step of an invocation leaves what the others say as it was.
LEMMA OthersBlame ==
    ASSUME Typed, TurnInv, NEW k \in Invokes, inv[k].pc \notin {"idle", "done"},
           \A l \in Invokes : Blames(l),
           \A l \in Invokes : l # k => inv'[l] = inv[l],
           Blames(k)'
    PROVE  \A l \in Invokes : Blames(l)'
<1>1. SUFFICES ASSUME NEW l \in Invokes, l # k PROVE Blames(l)'
  OBVIOUS
<1>2. inv[l].pc \in {"idle", "done"} /\ inv'[l] = inv[l]
  BY <1>1, Alone
<1> QED
  BY <1>2, BlamesKept

LEMMA InvokeStepBlames ==
    ASSUME Typed, FlowInv, TurnInv, EventsInv, Alive, \A k \in Invokes : Blames(k),
           NEW k \in Invokes, InvokeStep(k)
    PROVE  \A l \in Invokes : Blames(l)'
<1>1. inv \in [Invokes -> InvRecs] /\ ev \in EventRecs
  BY DEF Typed, InvType, DomainType
<1>2. SUFFICES Blames(k)'
  BY <1>2, InvokeFrame, OthersBlame
<1>3. Blames(k)
  OBVIOUS
<1>4. CASE SetReplyStream(k)
  <2>1. inv'[k].pc \in {"request", "silent"} /\ inv'[k].failed = inv[k].failed
        /\ inv'[k].res = inv[k].res
    BY <1>4, SetFields DEF SetReplyStream
  <2> QED
    BY <1>3, <1>4, <2>1 DEF Blames, SetReplyStream
<1>5. CASE HandleInvoke(k)
  <2>1. inv[k].pc = "request" /\ inv'[k].failed = inv[k].failed /\ inv'[k].res = inv[k].res
    BY <1>5, SetFields DEF HandleInvoke
  <2>2. \/ rapid.ready /\ ev' = ev /\ inv'[k].pc = "handle"
        \/ inv'[k].pc = "inline"
    BY <1>5, SetFields DEF HandleInvoke
  <2>3. rapid.ready => ev.initError = ""
    BY DEF EventsInv
  <2> QED
    BY <1>3, <2>1, <2>2, <2>3 DEF Blames
<1>6. CASE InlineInitReturns(k)
  <2>1. att.phase = "invoke" /\ att.pc = "deliver" /\ ev' = ev
    BY <1>6 DEF InlineInitReturns, TurnInv
  <2>2. CASE att.res = "ok" /\ Set(k, "handle")
    <3>1. inv'[k].pc = "handle" /\ inv'[k].failed = inv[k].failed /\ inv'[k].res = inv[k].res
      BY <2>2, SetFields
    <3> QED
      BY <1>3, <1>6, <2>1, <2>2, <3>1 DEF Blames, EventsInv, InlineInitReturns
  <2>3. CASE att.res # "ok" /\ inv' = [inv EXCEPT ![k].pc = After(k, att.res), ![k].failed = "Init"]
    <3>1. inv'[k].pc \in {"silent", "failing"} /\ inv'[k].failed = "Init" /\ inv'[k].res = inv[k].res
      <4>1. PICK pc \in {"silent", "failing"} : pc = After(k, att.res)
        BY DEF After
      <4>2. PICK q : q = [inv[k] EXCEPT !.pc = pc, !.failed = "Init"]
        OBVIOUS
      <4>3. inv' = [inv EXCEPT ![k] = q]
        BY <2>3, <4>1, <4>2
      <4>4. inv[k] \in InvRecs
        BY <1>1
      <4>5. q.pc = pc /\ q.failed = "Init" /\ q.res = inv[k].res
        BY <4>2, <4>4 DEF InvRecs
      <4> QED
        BY <1>1, <4>3, <4>5
    <3>2. ev.initError # ""
      BY <2>1, <2>3 DEF EventsInv
    <3>3. inv[k].res # "failed"
      BY <1>3, <1>6 DEF Blames, InlineInitReturns
    <3> QED
      BY <2>1, <3>1, <3>2, <3>3 DEF Blames
  <2> QED
    BY <1>6, <2>2, <2>3 DEF InlineInitReturns
<1>7. CASE HandlerCanceled(k)
  <2>1. inv'[k].pc \in {"silent", "failing"} /\ inv'[k].failed = inv[k].failed
        /\ inv'[k].res = inv[k].res
    BY <1>7, SetFields DEF HandlerCanceled, After
  <2> QED
    BY <1>3, <1>7, <2>1 DEF Blames, HandlerCanceled
<1>8. CASE InvokeFails(k)
  <2>1. CASE inv' = inv
    BY <1>3, <1>8, <2>1, BlamesKept DEF InvokeFails, domainVars
  <2>2. CASE inv' = [inv EXCEPT ![k].pc = "resetting", ![k].res = "failed"]
    <3>1. inv'[k].pc = "resetting" /\ inv'[k].failed = inv[k].failed
      BY <1>1, <2>2, ZenonT(60) DEF InvRecs
    <3> QED
      BY <1>3, <1>8, <3>1 DEF Blames, InvokeFails, domainVars
  <2> QED
    BY <1>8, <2>1, <2>2 DEF InvokeFails
<1>9. CASE ReservationDone(k)
  <2>1. inv'[k].pc = "done" /\ inv'[k].res = "empty"
    BY <1>9, PrintFields DEF ReservationDone
  <2> QED
    BY <2>1 DEF Blames
<1>10. CASE InvokeReturns(k)
  <2>1. inv'[k].pc = "done" /\ inv'[k].res = inv[k].res /\ inv'[k].failed = inv[k].failed
        /\ inv'[k].report = Outcome(inv[k].res)
    BY <1>10, PrintFields DEF InvokeReturns
  <2>2. inv[k].res = "failed" => inv[k].pc = "resetting"
    BY <1>10 DEF InvokeReturns
  <2>3. inv[k].res = "failed" => (inv'[k].report.error # "" <=> ev.initError # "")
    <3>1. SUFFICES ASSUME inv[k].res = "failed"
                   PROVE  Outcome("failed").error # "" <=> ev.initError # ""
      BY <2>1
    <3>2. CASE ev.initError # ""
      BY <3>2 DEF Outcome
    <3>3. CASE ev.initError = ""
      BY <3>3 DEF Outcome
    <3> QED
      BY <3>2, <3>3
  <2> QED
    BY <1>3, <2>1, <2>2, <2>3 DEF Blames
<1> QED
  BY <1>4, <1>5, <1>6, <1>7, <1>8, <1>9, <1>10 DEF InvokeStep

LEMMA NextBlames ==
    ASSUME Typed, FlowInv, TurnInv, EventsInv, \A k \in Invokes : Blames(k), [Next]_vars
    PROVE  \A k \in Invokes : Blames(k)'
<1>1. inv \in [Invokes -> InvRecs] /\ ev \in EventRecs
  BY DEF Typed, InvType, DomainType
<1>2. CASE UNCHANGED vars
  BY <1>2, BlamesKept DEF vars
<1>3. ASSUME Attempt, Alive PROVE \A k \in Invokes : Blames(k)'
  <2>1. inv' = inv
    BY <1>3 DEF Attempt, HandleInit, RuntimeStarted, BootCanceled, RunCanceled, InitReport,
                InitDelivered
  <2>2. att.pc # "idle"
    BY <1>3 DEF Attempt, HandleInit, RuntimeStarted, BootCanceled, RunCanceled, InitReport,
                InitDelivered
  <2> QED
    BY <1>3, <2>1, <2>2, NobodyBlames, BlamesKept
<1>4. CASE Main
  <2>1. inv' = inv /\ ev' = ev
    BY <1>4 DEF Main, StartInit, AwaitInitialized, AwaitInitializedReleases, InitSucceeded,
                InitFailureFolded, InitFailureReportedAndExit, InitWasReset, TakeToken,
                InitTimeoutReset, DiscardResult, SendReady, ExitChan, domainVars
  <2> QED
    BY <2>1, BlamesKept
<1>5. ASSUME NEW r \in Resets, ResetStep(r) PROVE \A k \in Invokes : Blames(k)'
  BY <1>5, ResetFrame, BlamesKept
<1>6. ASSUME NEW k \in Invokes, Dispatch(k) PROVE \A l \in Invokes : Blames(l)'
  <2>1. ev'.initError = ev.initError
    BY <1>1, <1>6 DEF Dispatch, TakeColdStartInitDuration, EventRecs
  <2>2. PICK b : b = ev.cold
    OBVIOUS
  <2>3. inv' = [inv EXCEPT ![k].pc = "await", ![k].cold = b]
    BY <1>6, <2>2 DEF Dispatch
  <2>4. inv'[k].pc = "await" /\ inv'[k].failed = inv[k].failed /\ inv'[k].res = inv[k].res
    BY <1>1, <2>3, ZenonT(60) DEF InvRecs
  <2>5. inv[k].failed = "" /\ inv[k].res = "none"
    BY <1>6, Fresh DEF Dispatch
  <2>6. Blames(k)'
    BY <2>4, <2>5 DEF Blames
  <2>7. \A l \in Invokes : l # k => inv'[l] = inv[l]
    BY <1>1, <2>3
  <2> QED
    BY <2>1, <2>6, <2>7, BlamesKept
<1>7. ASSUME NEW k \in Invokes, HandlerOk(k) PROVE \A l \in Invokes : Blames(l)'
  <2>1. /\ inv[k].pc = "handle" /\ ev' = ev
        /\ \/ inv'[k].pc = "done" /\ inv'[k].res = "ok"
           \/ inv'[k].pc = "silent" /\ inv'[k].failed = inv[k].failed /\ inv'[k].res = inv[k].res
        /\ \A l \in Invokes : l # k => inv'[l] = inv[l]
    BY <1>7, SetFields, PrintFields DEF HandlerOk
  <2>2. Blames(k)'
    BY <2>1 DEF Blames
  <2> QED
    BY <2>1, <2>2, OthersBlame
<1>8. ASSUME NEW k \in Invokes, InvokeTimesOut(k) PROVE \A l \in Invokes : Blames(l)'
  <2>1. /\ inv[k].pc \in {"inline", "handle"} /\ ev' = ev
        /\ inv'[k].pc = inv[k].pc /\ inv'[k].res = "timeout" /\ inv'[k].failed = inv[k].failed
        /\ \A l \in Invokes : l # k => inv'[l] = inv[l]
    BY <1>1, <1>8 DEF InvokeTimesOut, domainVars, InvRecs
  <2>2. Blames(k)'
    BY <2>1 DEF Blames
  <2> QED
    BY <2>1, <2>2, OthersBlame
<1>9. CASE InitTimerFires
  <2>1. ev'.initError = ev.initError /\ inv' = inv
    BY <1>1, <1>9 DEF InitTimerFires, SetInitPhaseTimedOut, EventRecs
  <2> QED
    BY <2>1, BlamesKept
<1>10. CASE \/ RuntimeReady \/ (\E j \in Reloads : HotReload(j)) \/ ExtendedInitTimesOut \/ Fault
  <2>1. inv' = inv /\ ev' = ev
    BY <1>10 DEF RuntimeReady, HotReload, ExtendedInitTimesOut, Fault, InitRefused, BootFails,
                 ExecFails, InitError, RuntimeExits, SettingsRefused, DownloadCodeArchivesFails,
                 NoRuntimeAPI, SendReadyFails, Signal, domainVars
  <2> QED
    BY <2>1, BlamesKept
<1>11. CASE Next
  <2>1. Stepped /\ Alive
    BY <1>11, Steps
  <2> QED
    BY <2>1, InvokeStepBlames, <1>3, <1>4, <1>5, <1>6, <1>7, <1>8, <1>9, <1>10
       DEF Stepped, World, Timer
<1> QED
  BY <1>2, <1>11

-----------------------------------------------------------------------------
\* The calls of Reset

LEMMA InitCalls == Init => CallsInv
<1>1. NoReset.caller = "idle"
  BY DEF NoReset
<1> QED
  BY <1>1 DEF Init, CallsInv

LEMMA CallsKept ==
    ASSUME CallsInv, UNCHANGED <<reset, token, took, crossed>>
    PROVE  CallsInv'
BY DEF CallsInv

\* A call that starts disturbs no token, for the reload it may be has none yet.
LEMMA StartCalls ==
    ASSUME Typed, CallsInv, UNCHANGED <<token, took, crossed>>, NEW r \in Resets, StartReset(r),
           r \in Reloads => reset[r] = NoReset
    PROVE  CallsInv'
<1>1. reset \in [Resets -> ResetRecs]
  BY DEF Typed, ResetType
<1>2. reset'[r].go = "cancel" /\ reset'[r].caller = "wait"
      /\ \A x \in Resets : x # r => reset'[x] = reset[x]
  BY <1>1 DEF StartReset, ResetRecs
<1>3. r \in Reloads => reset[r].caller = "idle"
  BY DEF NoReset
<1>4. token # Nobody => token \in Resets /\ token # r
  BY <1>3, Names DEF CallsInv
<1>5. took # Nobody => took \in Resets /\ took # r
  BY <1>3, Names DEF CallsInv
<1> QED
  BY <1>2, <1>4, <1>5 DEF CallsInv

LEMMA ResetStepCalls ==
    ASSUME Typed, CallsInv, NEW r \in Resets, ResetStep(r)
    PROVE  /\ CallsInv'
           /\ \A x \in Resets : reset[x].caller \in {"idle", "returned"} =>
                                    reset'[x].caller = reset[x].caller
<1>1. reset \in [Resets -> ResetRecs]
  BY DEF Typed, ResetType
<1>2. \A x \in Resets : x \in Reloads \/ reset[x].caller # "token"
  BY DEF CallsInv
<1>3. ASSUME NEW to \in {"lock", "rearm", "clear", "offer"}, NEW from \in {"cancel", "lock", "rearm", "clear"},
             Go(r, from, to), UNCHANGED <<token, took, crossed>>
      PROVE  /\ CallsInv'
             /\ \A x \in Resets : reset[x].caller \in {"idle", "returned"} =>
                                      reset'[x].caller = reset[x].caller
  <2>1. /\ reset[r].go = from /\ reset'[r].go = to /\ reset'[r].caller = reset[r].caller
        /\ \A x \in Resets : x # r => reset'[x] = reset[x]
    BY <1>1, <1>3 DEF Go, ResetRecs
  <2>2. \A x \in Resets : reset'[x].caller = reset[x].caller
    BY <2>1
  <2>3. reset[r].caller # "idle"
    BY <2>1 DEF CallsInv, NoReset
  <2> QED
    BY <1>3, <2>1, <2>2, <2>3, Names, ZenonT(60) DEF CallsInv
<1>4. CASE ResetCancel(r)
  BY <1>3, <1>4 DEF ResetCancel
<1>5. CASE HandleReset(r)
  BY <1>3, <1>5 DEF HandleReset
<1>6. CASE ResetRearm(r)
  BY <1>3, <1>6 DEF ResetRearm
<1>7. CASE ResetClear(r)
  BY <1>3, <1>7 DEF ResetClear
<1>8. CASE CallerReleases(r)
  <2>1. /\ reset[r].caller = "release" /\ reset'[r].go = reset[r].go
        /\ reset'[r].caller = IF r \in Reloads THEN "token" ELSE "returned"
        /\ \A x \in Resets : x # r => reset'[x] = reset[x]
    BY <1>1, <1>8 DEF CallerReleases, ResetRecs
  <2> QED
    BY <1>8, <2>1, Names DEF CallsInv, CallerReleases
<1>9. CASE SendResetDone(r)
  <2>1. /\ reset[r].caller = "token" /\ reset'[r].go = reset[r].go
        /\ reset'[r].caller = "returned"
        /\ \A x \in Resets : x # r => reset'[x] = reset[x]
    BY <1>1, <1>9 DEF SendResetDone, ResetRecs
  <2>2. token' \in {token, r} /\ took' = took /\ crossed' = crossed
    BY <1>9 DEF SendResetDone
  <2> QED
    BY <1>2, <2>1, <2>2, Names, ZenonT(60) DEF CallsInv
<1>10. ASSUME NEW w \in Resets, ResetHandoff(r, w)
       PROVE  /\ CallsInv'
              /\ \A x \in Resets : reset[x].caller \in {"idle", "returned"} =>
                                       reset'[x].caller = reset[x].caller
  <2>1. /\ reset[r].go = "offer" /\ reset[w].caller = "wait"
        /\ reset'[w].caller = "release" /\ reset'[r].go = "end"
        /\ \A x \in Resets : x # w => reset'[x].caller = reset[x].caller
        /\ \A x \in Resets : x # r => reset'[x].go = reset[x].go
        /\ \A x \in Resets : x # r /\ x # w => reset'[x] = reset[x]
    BY <1>1, <1>10 DEF ResetHandoff, ResetRecs
  <2>2. token' = token /\ took' = took /\ (~crossed' => ~crossed /\ r = w)
    BY <1>10 DEF ResetHandoff
  <2>3. reset[r].caller # "idle"
    BY <2>1 DEF CallsInv, NoReset
  <2>4. ASSUME ~crossed', NEW x \in Resets, reset'[x].caller \in {"release", "token", "returned"}
        PROVE  reset'[x].go = "end"
    BY <2>1, <2>2, <2>4 DEF CallsInv
  <2>5. \A x \in Resets : reset'[x].caller = "token" => x \in Reloads
    BY <2>1 DEF CallsInv
  <2>6. \A x \in Resets : reset'[x].caller = "idle" => reset'[x] = NoReset
    BY <2>1, <2>3 DEF CallsInv
  <2>7. \A x \in Resets : reset[x].caller \in {"idle", "returned"} => reset'[x].caller = reset[x].caller
    BY <2>1
  <2> QED
    BY <2>2, <2>4, <2>5, <2>6, <2>7, Names DEF CallsInv
<1> QED
  BY <1>4, <1>5, <1>6, <1>7, <1>8, <1>9, <1>10 DEF ResetStep

LEMMA InvokeStepCalls ==
    ASSUME Typed, CallsInv, NEW k \in Invokes, InvokeStep(k)
    PROVE  CallsInv'
<1>1. reset \in [Resets -> ResetRecs]
  BY DEF Typed, ResetType
<1>2. CASE SetReplyStream(k) \/ HandleInvoke(k) \/ InlineInitReturns(k) \/ HandlerCanceled(k)
           \/ ReservationDone(k)
  BY <1>2, CallsKept DEF SetReplyStream, HandleInvoke, InlineInitReturns, HandlerCanceled,
                         ReservationDone, resetVars
<1>3. CASE InvokeFails(k)
  BY <1>3, CallsKept, StartCalls, Names DEF InvokeFails
<1>4. CASE InvokeReturns(k)
  <2>1. reset'[ByInvoke] \in {NoReset, reset[ByInvoke]}
        /\ \A x \in Resets : x # ByInvoke => reset'[x] = reset[x]
    BY <1>1, <1>4, Names DEF InvokeReturns
  <2>2. NoReset.caller = "idle"
    BY DEF NoReset
  <2>3. UNCHANGED <<token, took, crossed>>
    BY <1>4 DEF InvokeReturns
  <2> QED
    BY <2>1, <2>2, <2>3, Names DEF CallsInv
<1> QED
  BY <1>2, <1>3, <1>4 DEF InvokeStep

LEMMA NextCalls ==
    ASSUME Typed, FlowInv, CallsInv, [Next]_vars
    PROVE  CallsInv'
<1>1. CASE UNCHANGED vars
  BY <1>1, CallsKept DEF vars
<1>2. CASE Attempt
  BY <1>2, CallsKept DEF Attempt, HandleInit, RuntimeStarted, BootCanceled, RunCanceled, InitReport,
                         InitDelivered, resetVars
<1>3. CASE Main
  <2>1. CASE TakeToken
    <3>1. took' = token /\ token' = Nobody /\ UNCHANGED <<reset, crossed>>
      BY <2>1 DEF TakeToken
    <3> QED
      BY <3>1 DEF CallsInv
  <2>2. CASE ~TakeToken
    <3>1. UNCHANGED resetVars
      BY <1>3, <2>2 DEF Main, StartInit, AwaitInitialized, AwaitInitializedReleases, InitSucceeded,
              InitFailureFolded, InitFailureReportedAndExit, InitWasReset,
              InitTimeoutReset, DiscardResult, SendReady, ExitChan
    <3> QED
      BY <3>1, CallsKept DEF resetVars
  <2> QED
    BY <2>1, <2>2
<1>4. ASSUME NEW j \in Reloads, HotReload(j) PROVE CallsInv'
  BY <1>4, StartCalls, Names DEF HotReload
<1>5. CASE Signal
  BY <1>5, StartCalls, Names DEF Signal
<1>6. CASE InitTimerFires
  BY <1>6, StartCalls, Names DEF InitTimerFires
<1>7. ASSUME NEW k \in Invokes, InvokeTimesOut(k) PROVE CallsInv'
  BY <1>7, StartCalls, Names DEF InvokeTimesOut
<1>8. CASE \/ RuntimeReady \/ (\E k \in Invokes : Dispatch(k) \/ HandlerOk(k)) \/ ExtendedInitTimesOut
           \/ InitRefused \/ BootFails \/ ExecFails \/ InitError \/ RuntimeExits
           \/ SettingsRefused \/ DownloadCodeArchivesFails \/ NoRuntimeAPI \/ SendReadyFails
  BY <1>8, CallsKept DEF RuntimeReady, Dispatch, HandlerOk, ExtendedInitTimesOut, InitRefused,
          BootFails, ExecFails, InitError, RuntimeExits, SettingsRefused, DownloadCodeArchivesFails,
          NoRuntimeAPI, SendReadyFails, resetVars
<1>9. CASE Next
  <2>1. Stepped
    BY <1>9, Steps
  <2> QED
    BY <2>1, ResetStepCalls, InvokeStepCalls, <1>2, <1>3, <1>4, <1>5, <1>6, <1>7, <1>8
       DEF Stepped, World, Timer, Fault
<1> QED
  BY <1>1, <1>9

-----------------------------------------------------------------------------
\* The reset that aborted the eager init

LEMMA FreshRapid == Init => rapid.cancel = Nobody /\ rapid.ready = FALSE
<1>1. \A f \in BOOLEAN :
          LET x == [holder |-> "none", cancel |-> Nobody, fatal |-> "", ready |-> f, wiped |-> f]
          IN  x.cancel = Nobody /\ x.ready = f
  OBVIOUS
<1> QED
  BY <1>1, Zenon DEF Init

LEMMA InitAbort == Init => AbortInv
<1>1. NoReset.caller = "idle"
  BY DEF NoReset
<1> QED
  BY <1>1, FreshRapid, Names DEF Init, AbortInv, Told

LEMMA AbortKept ==
    ASSUME AbortInv, UNCHANGED <<status, initDone, failures, att, aborter, took>>,
           main' \in {main, "exited"},
           rapid'.cancel = ByTimeout => rapid.cancel = ByTimeout,
           reset'[ByTimeout] = reset[ByTimeout]
    PROVE  AbortInv'
BY DEF AbortInv, Told

\* A step that ends an attempt: a reset that aborts the eager init is in what it delivers.
LEMMA EndsAbort ==
    ASSUME Typed, FlowInv, AbortInv, Alive, att.pc \in {"start", "run"}, NEW p, NEW s, Ends(p, s),
           UNCHANGED <<main, status, initDone, failures, took, reset>>, rapid'.cancel = rapid.cancel
    PROVE  AbortInv'
<1>1. att \in AttRecs /\ att'.res = s /\ att'.phase = att.phase
  BY DEF Ends, Typed, DomainType, AttRecs
<1>2. att.res = "none"
  BY DEF FlowInv
<1>3. CASE att.phase = "init"
  <2>1. initDone = "wait" /\ failures = "open"
    BY <1>3 DEF FlowInv
  <2>2. ~Told
    BY <2>1 DEF FlowInv, Told, Alive
  <2>3. aborter = Nobody
    BY <1>2, <2>1 DEF AbortInv
  <2>4. aborter' # Nobody => s = "reset" /\ aborter' = rapid.cancel
    BY <2>3 DEF Ends
  <2>5. status = "ready" => main \in {"ready", "exited"}
    BY DEF FlowInv
  <2> QED
    BY <1>1, <1>3, <2>2, <2>3, <2>4, Names DEF AbortInv, Told
<1>4. CASE att.phase # "init"
  <2>1. aborter' = aborter
    BY <1>4 DEF Ends
  <2> QED
    BY <1>1, <1>4, <2>1 DEF AbortInv, Told
<1> QED
  BY <1>3, <1>4

LEMMA AttemptAbort ==
    ASSUME Typed, FlowInv, AbortInv, Alive, Attempt
    PROVE  AbortInv'
<1>1. att \in AttRecs /\ rapid \in RapidRecs
  BY DEF Typed, DomainType
<1> USE DEF mainVars, resetVars
<1>2. CASE HandleInit
  <2>1. att'.phase = att.phase /\ att'.res = att.res /\ rapid'.cancel = rapid.cancel
    BY <1>1, <1>2 DEF HandleInit, AttRecs, RapidRecs
  <2> QED
    BY <1>2, <2>1 DEF HandleInit, AbortInv, Told
<1>3. CASE RuntimeStarted \/ InitReport
  <2>1. att'.phase = att.phase /\ att'.res = att.res
    BY <1>1, <1>3 DEF RuntimeStarted, InitReport, AttRecs
  <2> QED
    BY <1>3, <2>1 DEF RuntimeStarted, InitReport, AbortInv, Told
<1>4. CASE BootCanceled
  BY <1>4, EndsAbort DEF BootCanceled
<1>5. CASE RunCanceled
  BY <1>5, EndsAbort DEF RunCanceled
<1>6. CASE InitDelivered
  <2>1. rapid'.cancel = rapid.cancel
    BY <1>1, <1>6 DEF InitDelivered, RapidRecs
  <2>2. initDone = "wait" /\ failures = "open"
    BY <1>6 DEF InitDelivered, FlowInv
  <2>3. aborter # Nobody => failures' = "reset"
    BY <1>6, <2>2 DEF InitDelivered, AbortInv
  <2> QED
    BY <1>6, <2>1, <2>3 DEF InitDelivered, AbortInv, Told
<1> QED
  BY <1>2, <1>3, <1>4, <1>5, <1>6 DEF Attempt

LEMMA MainAbort ==
    ASSUME Typed, FlowInv, CallsInv, AbortInv, Main
    PROVE  AbortInv'
<1> USE DEF mainVars, domainVars, resetVars
<1>1. CASE StartInit
  <2>1. aborter = Nobody
    BY <1>1 DEF StartInit, FlowInv, AbortInv
  <2> QED
    BY <1>1, <2>1, Names DEF StartInit, AbortInv, Told, FlowInv
<1>2. CASE AwaitInitialized
  BY <1>2 DEF AwaitInitialized, AbortInv, Told, FlowInv
<1>3. CASE AwaitInitializedReleases
  BY <1>3 DEF AwaitInitializedReleases, AbortInv, Told, FlowInv
<1>4. CASE InitSucceeded \/ InitFailureFolded
  <2>1. initDone \in {"nilDone", "failDone"} /\ main = "select"
    BY <1>4 DEF InitSucceeded, InitFailureFolded
  <2>2. aborter = Nobody
    BY <2>1 DEF FlowInv, AbortInv
  <2>3. reset[ByTimeout] = NoReset /\ NoReset.caller = "idle"
    BY <2>1 DEF FlowInv, NoReset
  <2> QED
    BY <1>4, <2>2, <2>3 DEF InitSucceeded, InitFailureFolded, AbortInv, Told
<1>5. CASE InitFailureReportedAndExit
  <2>1. status' # "ready"
    BY <1>5 DEF InitFailureReportedAndExit, ReportInitFailure, Typed, DomainType, EventRecs, ErrorTypes
  <2> QED
    BY <1>5, <2>1 DEF InitFailureReportedAndExit, AbortInv, Told
<1>6. CASE InitWasReset
  BY <1>6 DEF InitWasReset, AbortInv, Told, FlowInv
<1>7. CASE TakeToken
  <2>1. main = "token" /\ main' = "decided" /\ took' # Nobody
    BY <1>7 DEF TakeToken
  <2>2. reset[ByTimeout] = NoReset /\ NoReset.caller = "idle"
    BY <2>1 DEF FlowInv, NoReset
  <2> QED
    BY <1>7, <2>1, <2>2 DEF TakeToken, AbortInv, Told
<1>8. CASE InitTimeoutReset
  BY <1>8 DEF InitTimeoutReset, AbortInv, Told, FlowInv
<1>9. CASE DiscardResult
  <2>1. reset[ByTimeout] # NoReset
    BY <1>9 DEF DiscardResult, FlowInv
  <2> QED
    BY <1>9, <2>1 DEF DiscardResult, AbortInv, Told
<1>10. CASE SendReady
  BY <1>10 DEF SendReady, AbortInv, Told
<1>11. CASE ExitChan
  BY <1>11, AbortKept DEF ExitChan
<1> QED
  BY <1>1, <1>2, <1>3, <1>4, <1>5, <1>6, <1>7, <1>8, <1>9, <1>10, <1>11 DEF Main

LEMMA ResetStepAbort ==
    ASSUME Typed, CallsInv, AbortInv, NEW r \in Resets, ResetStep(r)
    PROVE  AbortInv'
<1>1. rapid \in RapidRecs
  BY DEF Typed, DomainType
<1>2. rapid'.cancel = ByTimeout => rapid.cancel = ByTimeout \/ reset[ByTimeout] # NoReset
  <2>1. CASE ResetCancel(r)
    <3>1. reset[r] # NoReset
      BY <2>1 DEF ResetCancel, Go, NoReset
    <3>2. rapid'.cancel \in {rapid.cancel, r}
      BY <1>1, <2>1 DEF ResetCancel, RapidRecs
    <3> QED
      BY <3>1, <3>2
  <2>2. CASE ResetRearm(r)
    <3>1. rapid'.cancel = Nobody
      BY <1>1, <2>2 DEF ResetRearm, RapidRecs
    <3> QED
      BY <3>1, Names
  <2>3. CASE ~ResetCancel(r) /\ ~ResetRearm(r)
    BY <2>3 DEF ResetStep, HandleReset, ResetClear, CallerReleases, SendResetDone, ResetHandoff,
                domainVars
  <2> QED
    BY <2>1, <2>2, <2>3
<1>3. /\ reset'[ByTimeout] = NoReset <=> reset[ByTimeout] = NoReset
      /\ UNCHANGED <<main, status, initDone, failures, att, aborter, took>>
  BY ResetFrame, Names DEF mainVars
<1>4. reset[ByTimeout].caller \in {"idle", "returned"} =>
          reset'[ByTimeout].caller = reset[ByTimeout].caller
  BY ResetStepCalls, Names
<1> QED
  BY <1>2, <1>3, <1>4 DEF AbortInv, Told

LEMMA InvokeStepAbort ==
    ASSUME Typed, FlowInv, AbortInv, Alive, NEW k \in Invokes, InvokeStep(k)
    PROVE  AbortInv'
<1>1. initDone = "taken"
  <2>1. inv[k] # NoInv
    BY InvokeFrame, Fresh
  <2> QED
    BY <2>1 DEF FlowInv, Alive
<1> QED
  BY <1>1, InvokeFrame, Names DEF AbortInv, Told

LEMMA NextAbort ==
    ASSUME Typed, FlowInv, CallsInv, AbortInv, [Next]_vars
    PROVE  AbortInv'
<1>1. att \in AttRecs /\ rapid \in RapidRecs /\ reset \in [Resets -> ResetRecs]
  BY DEF Typed, DomainType, ResetType
<1> USE DEF mainVars, resetVars, domainVars
<1>2. CASE UNCHANGED vars
  BY <1>2, AbortKept DEF vars
<1>3. ASSUME Alive, RuntimeReady PROVE AbortInv'
  <2>1. rapid'.cancel = rapid.cancel
    BY <1>1, <1>3 DEF RuntimeReady, RapidRecs
  <2> QED
    BY <1>3, <2>1, EndsAbort DEF RuntimeReady
<1>4. ASSUME Alive, BootFails PROVE AbortInv'
  BY <1>4, EndsAbort DEF BootFails
<1>5. ASSUME Alive, ExecFails PROVE AbortInv'
  <2>1. rapid'.cancel = rapid.cancel
    BY <1>1, <1>5 DEF ExecFails, RapidRecs
  <2> QED
    BY <1>5, <2>1, EndsAbort DEF ExecFails
<1>6. CASE InitRefused
  <2>1. att.res = "none" /\ att.phase = "init" /\ failures = "open" /\ initDone = "wait"
    BY <1>6 DEF InitRefused, FlowInv
  <2>2. aborter = Nobody
    BY <2>1 DEF AbortInv
  <2>3. rapid'.cancel = rapid.cancel
    BY <1>1, <1>6 DEF InitRefused, RapidRecs
  <2> QED
    BY <1>6, <2>2, <2>3 DEF InitRefused, AbortInv, Told
<1>7. CASE InitError \/ RuntimeExits
  <2>1. rapid'.cancel \in {rapid.cancel, Exit}
    BY <1>1, <1>7 DEF InitError, RuntimeExits, RapidRecs
  <2> QED
    BY <1>7, <2>1, AbortKept, Names DEF InitError, RuntimeExits
<1>8. CASE SettingsRefused \/ DownloadCodeArchivesFails \/ NoRuntimeAPI \/ SendReadyFails
  BY <1>8, AbortKept DEF SettingsRefused, DownloadCodeArchivesFails, NoRuntimeAPI, SendReadyFails
<1>9. CASE Signal
  BY <1>1, <1>9, AbortKept, Names DEF Signal, StartReset
<1>10. ASSUME NEW j \in Reloads, HotReload(j) PROVE AbortInv'
  BY <1>1, <1>10, AbortKept, Names DEF HotReload, StartReset
<1>11. CASE InitTimerFires
  <2>1. reset'[ByTimeout] # NoReset
    BY <1>1, <1>11, Names DEF InitTimerFires, StartReset, NoReset
  <2>2. main' = "resetting" /\ status # "ready"
    BY <1>11 DEF InitTimerFires, FlowInv
  <2> QED
    BY <1>11, <2>1, <2>2 DEF InitTimerFires, AbortInv, Told
<1>12. CASE ExtendedInitTimesOut
  BY <1>12 DEF ExtendedInitTimesOut, ReportInitFailure, AbortInv, Told
<1>13. ASSUME NEW k \in Invokes, InvokeTimesOut(k) PROVE AbortInv'
  BY <1>1, <1>13, AbortKept, Names DEF InvokeTimesOut, StartReset
<1>14. ASSUME NEW k \in Invokes, Dispatch(k) PROVE AbortInv'
  BY <1>14, AbortKept DEF Dispatch
<1>15. ASSUME NEW k \in Invokes, HandlerOk(k) PROVE AbortInv'
  <2>1. rapid'.cancel = rapid.cancel
    BY <1>1, <1>15 DEF HandlerOk, RapidRecs
  <2> QED
    BY <1>15, <2>1, AbortKept DEF HandlerOk
<1>16. CASE Next
  <2>1. Stepped /\ Alive
    BY <1>16, Steps
  <2> QED
    BY <2>1, AttemptAbort, MainAbort, ResetStepAbort, InvokeStepAbort, <1>3, <1>4, <1>5, <1>6,
       <1>7, <1>8, <1>9, <1>10, <1>11, <1>12, <1>13, <1>14, <1>15 DEF Stepped, World, Timer, Fault
<1> QED
  BY <1>2, <1>16

-----------------------------------------------------------------------------
\* The theorems

LEMMA InitFlow == Init => FlowInv
<1>1. NoAtt.phase = "none" /\ NoAtt.pc = "idle"
  BY DEF NoAtt
<1> QED
  BY <1>1, FreshRapid, Names DEF Init, FlowInv

ProgramInv ==
    Typed /\ conf \in Confs /\ faults \in 0 .. MaxFaults /\ FlowInv

LEMMA InitProgramInv == Init => ProgramInv
<1>1. 0 \in 0 .. MaxFaults
  BY InitProgramAssumption
<1>2. Init => conf \in Confs /\ faults \in 0 .. MaxFaults
  BY <1>1, Zenon DEF Init
<1> QED
  BY <1>2, InitType, InitFlow DEF ProgramInv

LEMMA NextProgramInv == ProgramInv /\ [Next]_vars => ProgramInv'
BY NextType, NextFlow DEF ProgramInv

\* The cold start duration goes into the REPORT of the first invocation, once, and never when
\* main has declared the init timed out (takeColdStartInitDuration, SetInitPhaseTimedOut),
\* whichever of the timer and the end of the init comes first.
THEOREM ColdStartReportedOnce == Spec => []ColdStartOnce
<1>1. Init => ProgramInv /\ ColdInv
  BY InitProgramInv, InitCold
<1>2. ProgramInv /\ ColdInv /\ [Next]_vars => (ProgramInv /\ ColdInv)'
  BY NextProgramInv, NextCold DEF ProgramInv
<1>3. ColdInv => ColdStartOnce
  BY DEF ColdInv, ColdStartOnce
<1> QED
  BY <1>1, <1>2, <1>3, PTL DEF Spec

\* The REPORT of a failed invocation names an init error exactly when the init it ran itself
\* has failed (invokeReportOutcome): an error of the eager init, which SendInitStart clears,
\* taints no later invocation, and no init error of its own is lost.
THEOREM InitErrorsAreOwn == Spec => []InitErrorIsOwn
<1> DEFINE Inv == ProgramInv /\ TurnInv /\ ErrorInv
<1>1. Init => Inv
  BY InitProgramInv, InitTurn, InitEvents, InitBlames DEF ErrorInv
<1>2. Inv /\ [Next]_vars => Inv'
  BY NextProgramInv, NextTurn, NextEvents, NextBlames DEF ProgramInv, ErrorInv
<1>3. Inv => InitErrorIsOwn
  BY DEF ErrorInv, Blames, InitErrorIsOwn
<1> QED
  BY <1>1, <1>2, <1>3, PTL DEF Spec

\* main sends ready only when the reset that aborted the eager init has released the server
\* (the reset of its own timeout, or a reload whose token it took), whatever else resets the
\* sandbox meanwhile, as long as no Done and no token went to the wrong party.
THEOREM ReadyAfterReset == Spec => []ReadyAfterRelease
<1> DEFINE Inv == ProgramInv /\ CallsInv /\ AbortInv
<1>1. Init => Inv
  BY InitProgramInv, InitCalls, InitAbort
<1>2. Inv /\ [Next]_vars => Inv'
  BY NextProgramInv, NextCalls, NextAbort DEF ProgramInv
<1>3. Inv => ReadyAfterRelease
  <2>1. SUFFICES ASSUME Inv, NEW r \in Resets, status = "ready", aborter = r,
                        r = ByTimeout \/ (r \in Reloads /\ reset[ByTimeout] = NoReset),
                        took \in {Nobody, r}, ~crossed
                 PROVE  reset[r].go = "end" /\ reset[r].caller \in {"token", "returned"}
    BY DEF ReadyAfterRelease
  <2>2. aborter # Nobody /\ Told
    BY <2>1, Names DEF Told
  <2>3. reset[r].caller = "returned"
    <3>1. CASE r = ByTimeout
      <4>1. reset[ByTimeout] # NoReset /\ reset[ByTimeout].caller \in {"idle", "returned"}
        BY <2>1, <2>2, <3>1 DEF AbortInv
      <4> QED
        BY <2>1, <3>1, <4>1 DEF CallsInv
    <3>2. CASE r \in Reloads /\ reset[ByTimeout] = NoReset
      <4>1. took = r
        BY <2>1, <2>2, <3>2 DEF AbortInv
      <4> QED
        BY <2>1, <2>2, <4>1 DEF CallsInv
    <3> QED
      BY <2>1, <3>1, <3>2
  <2> QED
    BY <2>1, <2>3 DEF CallsInv
<1> QED
  BY <1>1, <1>2, <1>3, PTL DEF Spec

=============================================================================
