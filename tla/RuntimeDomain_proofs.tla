------------------------ MODULE RuntimeDomain_proofs ------------------------
(***************************************************************************)
(* Theorems about RuntimeDomain, for every number of extensions, resetters *)
(* and processes and for every value of the bounds.                        *)
(***************************************************************************)
EXTENDS RuntimeDomain, Gates_proofs, FiniteSetTheorems

\* The counts the handlers give to SetCount are numbers.
LEMMA CountType ==
    /\ Cardinality(ExtAgents) \in Nat
    /\ CountAgents \in Nat
    /\ Cardinality(Subscribed("INVOKE")) \in Nat
<1>1. ASSUME NEW S \in SUBSET Agents PROVE Cardinality(S) \in Nat
  BY DomainAssumption, FS_CardinalityType, FS_Subset
<1> QED
  BY <1>1 DEF CountAgents, Registered, Subscribed, Agents

\* Fresh records have the types of runtimes (PreregisterRuntime) ...
LEMMA FreshRuntime ==
    ASSUME NEW g \in Nat
    PROVE  NewRuntime(g) \in RuntimeRec /\ NilRuntime \in RuntimeRec
BY DEF NewRuntime, NilRuntime, RuntimeRec, RuntimeStates

\* ... and of agents (CreateExternalAgent, CreateInternalAgent).
LEMMA FreshAgent ==
    ASSUME NEW g \in Nat
    PROVE  /\ NewAgent(g) \in AgentRec /\ NewAgent(g).subs = {}
           /\ NoAgent \in AgentRec /\ NoAgent.subs = {}
           /\ [NewAgent(g) EXCEPT !.state = "LaunchError"] \in AgentRec
           /\ [NewAgent(g) EXCEPT !.state = "LaunchError"].subs = {}
           /\ \A subs \in SUBSET {"INVOKE"} :
                /\ [NewAgent(g) EXCEPT !.state = "Registered", !.subs = subs] \in AgentRec
                /\ [NewAgent(g) EXCEPT !.state = "Registered", !.subs = subs].subs = subs
BY DEF NewAgent, NoAgent, AgentRec, AgentStates

\* The start of an init sets the count of the registration gate only.
LEMMA BeginInitFlow ==
    ASSUME FlowType, BeginInit
    PROVE  FlowType'
<1>1. SetCount(gate["extRegistered"], Cardinality(ExtAgents)) \in Gate
  BY SetCountType, CountType DEF FlowType, GateNames, InitGates
<1> QED
  BY <1>1 DEF FlowType, BeginInit, GateNames, InitGates

\* An agent put in place of another, and what a release or a registration makes of one.
LEMMA AgentUpdate ==
    ASSUME AgentType, NEW a \in Agents, NEW new \in AgentRec,
           a \in IntAgents => new.subs \subseteq {"INVOKE"},
           agent' = [agent EXCEPT ![a] = new]
    PROVE  AgentType'
BY DEF AgentType, Agents

\* Releasing agents changes nothing but flags.
LEMMA ReleaseType ==
    ASSUME AgentType, NEW S
    PROVE  /\ Release(S) \in [Agents -> AgentRec]
           /\ \A a \in IntAgents : Release(S)[a].subs \subseteq {"INVOKE"}
<1>1. ASSUME NEW x \in AgentRec
      PROVE  [x EXCEPT !.flag = TRUE] \in AgentRec /\ [x EXCEPT !.flag = TRUE].subs = x.subs
  BY DEF AgentRec
<1> QED
  BY <1>1 DEF AgentType, Release, Agents

\* A registration leaves the agents well-typed.
LEMMA RegisterType ==
    ASSUME AgentType, NEW a \in ExtAgents, NEW subs \in SUBSET {"INVOKE", "SHUTDOWN"},
           agent' = [agent EXCEPT ![a].state = "Registered", ![a].subs = subs]
    PROVE  AgentType'
<1> DEFINE new == [agent[a] EXCEPT !.state = "Registered", !.subs = subs]
<1>1. a \in Agents /\ a \notin IntAgents
  BY DomainAssumption DEF Agents
<1>2. agent[a] \in AgentRec
  BY <1>1 DEF AgentType
<1>3. new \in AgentRec
  BY <1>2 DEF AgentRec, AgentStates
<1>4. agent' = [agent EXCEPT ![a] = new]
  BY <1>1 DEF AgentType
<1> HIDE DEF new
<1> QED
  BY <1>1, <1>3, <1>4, AgentUpdate

\* CancelFlows keeps the gates gates.
LEMMA CancelFlowType ==
    ASSUME FlowType, NEW e \in CancelErrors, CancelFlows(e), overtaken' \in BOOLEAN
    PROVE  FlowType'
BY CancelType DEF FlowType, CancelFlows

\* Every step keeps the types (all handlers, Runtime API requests and goroutines).
LEMMA TypeStep == TypeOK /\ [Next]_vars => TypeOK'
<1> SUFFICES ASSUME TypeOK, [Next]_vars PROVE TypeOK'
  OBVIOUS
<1> USE DEF TypeOK, FlowType, RuntimeType, AgentType, HandlerType, ProcType, DownType, RestType,
            flowVars, partyVars, hdlVars, procVars, downVars, bounds, othersOfParty
<1>1. CASE HandleInit
  <2>1. FlowType'
    BY <1>1, BeginInitFlow DEF HandleInit
  <2>2. RuntimeType' /\ AgentType' /\ HandlerType' /\ ProcType' /\ DownType' /\ RestType'
    BY <1>1 DEF HandleInit, BeginInit, Return, HandlerPlaces, Results
  <2> QED
    BY <2>1, <2>2
<1>2. CASE HandleInvoke
  <2>1. FlowType'
    BY <1>2, BeginInitFlow DEF HandleInvoke
  <2>2. RuntimeType' /\ AgentType' /\ HandlerType' /\ ProcType' /\ DownType' /\ RestType'
    BY <1>2 DEF HandleInvoke, BeginInit, Return, HandlerPlaces, Results
  <2> QED
    BY <2>1, <2>2
<1>3. ASSUME NEW a \in ExtAgents, LaunchExtension(a) PROVE TypeOK'
  <2>1. a \in Agents /\ a \notin IntAgents
    BY DomainAssumption DEF Agents
  <2>2. /\ NewAgent(gen) \in AgentRec
        /\ [NewAgent(gen) EXCEPT !.state = "LaunchError"] \in AgentRec
    BY FreshAgent
  <2>3. \/ UNCHANGED agent
        \/ agent' = [agent EXCEPT ![a] = NewAgent(gen)]
        \/ agent' = [agent EXCEPT ![a] = [NewAgent(gen) EXCEPT !.state = "LaunchError"]]
    BY <1>3 DEF LaunchExtension, MayCreateExternal
  <2>4. AgentType'
    BY <2>1, <2>2, <2>3, AgentUpdate
  <2>5. FlowType' /\ RuntimeType' /\ HandlerType' /\ ProcType' /\ DownType' /\ RestType'
    BY <1>3 DEF LaunchExtension, MayCreateExternal, Return, StoreFirstFatalError, FatalErrors, HandlerPlaces,
       Results, ProcIds, Procs
  <2> QED
    BY <2>4, <2>5
<1>4. ASSUME NEW a \in ExtAgents, ExtensionChannel(a) PROVE TypeOK'
  BY <1>4 DEF ExtensionChannel, CreateExitedChannel, Panics, HandlerPlaces, Results,
     ProcIds, Procs
<1>5. CASE AwaitExternalAgentsRegistered
  <2>1. HandlerType'
    BY <1>5, AwaitErrorType DEF AwaitExternalAgentsRegistered, Await, Return, GateNames,
       InitGates, InvokeGates, HandlerPlaces, Results, CancelErrors
  <2>2. FlowType' /\ RuntimeType' /\ AgentType' /\ ProcType' /\ DownType' /\ RestType'
    BY <1>5 DEF AwaitExternalAgentsRegistered
  <2> QED
    BY <2>1, <2>2
<1>6. CASE LaunchRuntime
  <2>1. RuntimeType'
    BY <1>6, FreshRuntime DEF LaunchRuntime
  <2>2. FlowType' /\ AgentType' /\ HandlerType' /\ ProcType' /\ DownType' /\ RestType'
    BY <1>6 DEF LaunchRuntime, Return, StoreFirstFatalError, FatalErrors, HandlerPlaces,
       Results, ProcIds, Procs
  <2> QED
    BY <2>1, <2>2
<1>7. CASE RuntimeChannel
  BY <1>7 DEF RuntimeChannel, CreateExitedChannel, Panics, HandlerPlaces, Results, ProcIds,
     Procs
<1>8. CASE AwaitRuntimeRestoreReady
  <2>1. SetCount(gate["initAgents"], CountAgents) \in Gate
    BY <1>8, SetCountType, CountType DEF AwaitRuntimeRestoreReady, GateNames, InitGates,
       InvokeGates
  <2>2. FlowType'
    BY <1>8, <2>1 DEF AwaitRuntimeRestoreReady
  <2>3. HandlerType'
    BY <1>8, AwaitErrorType DEF AwaitRuntimeRestoreReady, Return, GateNames, InitGates,
       InvokeGates, HandlerPlaces, Results, CancelErrors
  <2>4. RuntimeType' /\ AgentType' /\ ProcType' /\ DownType' /\ RestType'
    BY <1>8 DEF AwaitRuntimeRestoreReady
  <2> QED
    BY <2>1, <2>2, <2>3, <2>4
<1>9. CASE InitAwaitAgentsReady
  <2>1. HandlerType'
    BY <1>9, AwaitErrorType DEF InitAwaitAgentsReady, Return, GateNames, InitGates,
       InvokeGates, HandlerPlaces, Results, CancelErrors
  <2>2. FlowType' /\ RuntimeType' /\ AgentType' /\ ProcType' /\ DownType' /\ RestType'
    BY <1>9 DEF InitAwaitAgentsReady
  <2> QED
    BY <2>1, <2>2
<1>10. CASE ReleaseParties
  <2>1. InitializeBarriers \in [GateNames -> Gate]
    BY ResetType DEF InitializeBarriers
  <2>2. SetCount(InitializeBarriers["invokeAgents"], Cardinality(Subscribed("INVOKE"))) \in Gate
    BY <2>1, SetCountType, CountType DEF GateNames, InvokeGates
  <2>3. FlowType'
    BY <1>10, <2>1, <2>2 DEF ReleaseParties
  <2>4. RuntimeType'
    BY <1>10, ZenonT(60) DEF ReleaseParties, RuntimeRec
  <2>5. AgentType'
    BY <1>10, ReleaseType DEF ReleaseParties
  <2>6. HandlerType' /\ ProcType' /\ DownType' /\ RestType'
    BY <1>10 DEF ReleaseParties, Return, Panics, HandlerPlaces, Results
  <2> QED
    BY <2>3, <2>4, <2>5, <2>6
<1>11. CASE AwaitRuntimeResponse
  <2>1. HandlerType'
    BY <1>11, AwaitErrorType DEF AwaitRuntimeResponse, Await, Return, GateNames, InitGates,
       InvokeGates, HandlerPlaces, Results, CancelErrors
  <2>2. FlowType' /\ RuntimeType' /\ AgentType' /\ ProcType' /\ DownType' /\ RestType'
    BY <1>11 DEF AwaitRuntimeResponse
  <2> QED
    BY <2>1, <2>2
<1>12. CASE AwaitRuntimeReady
  <2>1. HandlerType'
    BY <1>12, AwaitErrorType DEF AwaitRuntimeReady, InvokeSucceeds, Return, GateNames,
       InitGates, InvokeGates, HandlerPlaces, Results, CancelErrors
  <2>2. FlowType' /\ RuntimeType' /\ AgentType' /\ ProcType' /\ DownType' /\ RestType'
    BY <1>12 DEF AwaitRuntimeReady, InvokeSucceeds, Panics
  <2> QED
    BY <2>1, <2>2
<1>13. CASE InvokeAwaitAgentsReady
  <2>1. HandlerType'
    BY <1>13, AwaitErrorType DEF InvokeAwaitAgentsReady, InvokeSucceeds, Return, GateNames,
       InitGates, InvokeGates, HandlerPlaces, Results, CancelErrors
  <2>2. FlowType' /\ RuntimeType' /\ AgentType' /\ ProcType' /\ DownType' /\ RestType'
    BY <1>13 DEF InvokeAwaitAgentsReady, InvokeSucceeds, Panics
  <2> QED
    BY <2>1, <2>2
<1>14. CASE RuntimeNext
  <2>1. FlowType'
    BY <1>14, WalkThroughType DEF RuntimeNext, StartedReady, ResponseSentReady, ReadyReady, GateNames, InitGates, InvokeGates
  <2>2. RuntimeType'
    <3> USE DEF RuntimeRec, RuntimeStates
    <3>1. CASE StartedReady
      BY <1>14, <3>1, ZenonT(60) DEF RuntimeNext, StartedReady, WalkOK
    <3>2. CASE ResponseSentReady
      BY <1>14, <3>2 DEF RuntimeNext, ResponseSentReady, WalkOK
    <3>3. CASE ReadyReady
      BY <1>14, <3>3 DEF RuntimeNext, ReadyReady
    <3> QED
      BY <1>14, <3>1, <3>2, <3>3 DEF RuntimeNext
  <2>3. AgentType' /\ HandlerType' /\ ProcType' /\ DownType' /\ RestType'
    BY <1>14 DEF RuntimeNext, StartedReady, ResponseSentReady, ReadyReady
  <2> QED
    BY <2>1, <2>2, <2>3
<1>15. CASE RuntimeResume
  BY <1>15 DEF RuntimeResume, RuntimeRec, RuntimeStates
<1>16. CASE RuntimeRespond
  BY <1>16 DEF RuntimeRespond, Respond, RuntimeRec, RuntimeStates
<1>17. CASE RuntimeRespondRefused
  BY <1>17 DEF RuntimeRespondRefused, Respond, RuntimeRec, RuntimeStates
<1>18. CASE RuntimeResponseSent
  <2>1. FlowType'
    BY <1>18, WalkThroughType DEF RuntimeResponseSent, GateNames, InitGates, InvokeGates
  <2>2. RuntimeType' /\ AgentType' /\ HandlerType' /\ ProcType' /\ DownType' /\ RestType'
    BY <1>18 DEF RuntimeResponseSent, RuntimeRec, RuntimeStates
  <2> QED
    BY <2>1, <2>2
<1>19. CASE StaleResponseSent
  BY <1>19, WalkThroughType DEF StaleResponseSent, GateNames, InitGates, InvokeGates
<1>20. CASE RuntimeInitError
  BY <1>20 DEF RuntimeInitError, RuntimeRec, RuntimeStates
<1>21. ASSUME NEW a \in Agents, RegisterExternal(a) PROVE TypeOK'
  <2>1. FlowType'
    BY <1>21, WalkThroughType DEF RegisterExternal, StartedRegister, GateNames, InitGates, InvokeGates
  <2>2. AgentType'
    BY <1>21, RegisterType, DomainAssumption DEF RegisterExternal, StartedRegister, Agents
  <2>3. RuntimeType' /\ HandlerType' /\ ProcType' /\ DownType' /\ RestType'
    BY <1>21 DEF RegisterExternal, StartedRegister
  <2> QED
    BY <2>1, <2>2, <2>3
<1>22. ASSUME NEW a \in Agents, RegisterInternal(a) PROVE TypeOK'
  <2>1. PICK subs \in SUBSET {"INVOKE"} :
          agent' = [agent EXCEPT ![a] = [NewAgent(runtime.gen) EXCEPT !.state = "Registered",
                                                                     !.subs = subs]]
    BY <1>22 DEF RegisterInternal, MayCreateInternal, InternalEvents
  <2>2. runtime.gen \in Nat
    BY DEF RuntimeRec
  <2> DEFINE new == [NewAgent(runtime.gen) EXCEPT !.state = "Registered", !.subs = subs]
  <2>3. new \in AgentRec /\ new.subs = subs
    BY <2>2, FreshAgent
  <2>4. new.subs \subseteq {"INVOKE"}
    BY <2>3
  <2>5. agent' = [agent EXCEPT ![a] = new]
    BY <2>1
  <2> HIDE DEF new
  <2>6. AgentType'
    BY <2>3, <2>4, <2>5, AgentUpdate
  <2>7. FlowType' /\ RuntimeType' /\ HandlerType' /\ ProcType' /\ DownType' /\ RestType'
    BY <1>22 DEF RegisterInternal, MayCreateInternal
  <2> QED
    BY <2>6, <2>7
<1>23. ASSUME NEW a \in Agents, AgentNext(a) PROVE TypeOK'
  <2>1. FlowType'
    BY <1>23, WalkThroughType DEF AgentNext, ReadyGate, GateNames, InitGates, InvokeGates
  <2>2. RuntimeType' /\ AgentType' /\ HandlerType' /\ ProcType' /\ DownType' /\ RestType'
    BY <1>23 DEF AgentNext, ReadyGate, AgentRec, AgentStates, Agents
  <2> QED
    BY <2>1, <2>2
<1>24. ASSUME NEW a \in Agents, AgentResume(a) PROVE TypeOK'
  BY <1>24 DEF AgentResume, AgentRec, AgentStates, Agents
<1>25. ASSUME NEW a \in Agents, AgentError(a) PROVE TypeOK'
  BY <1>25 DEF AgentError, AgentInitError, AgentExitError, AgentRec, AgentStates, Agents, StoreFirstFatalError, FatalErrors
<1>26. ASSUME NEW p \in alive, ProcessExit(p) PROVE TypeOK'
  BY <1>26 DEF ProcessExit
<1>27. ASSUME NEW p \in exits, WatchEvent(p) PROVE TypeOK'
  BY <1>27 DEF WatchEvent, StoreFirstFatalError, FatalErrors, CancelErrors, NoErr, ProcIds,
     Procs
<1>28. CASE HandleProcessExit
  <2>1. FlowType'
    BY <1>28 DEF HandleProcessExit
  <2>2. AgentType'
    BY <1>28 DEF HandleProcessExit, AgentRec, AgentStates, Agents
  <2>3. RuntimeType' /\ HandlerType' /\ ProcType' /\ DownType' /\ RestType'
    BY <1>28 DEF HandleProcessExit, CancelErrors, NoErr, ProcIds, Procs, Panics
  <2> QED
    BY <2>1, <2>2, <2>3
<1>29. CASE WatcherCancelFlows
  <2>1. FlowType'
    BY <1>29, CancelFlowType DEF WatcherCancelFlows
  <2>2. RuntimeType' /\ AgentType' /\ HandlerType' /\ ProcType' /\ DownType' /\ RestType'
    BY <1>29 DEF WatcherCancelFlows
  <2> QED
    BY <2>1, <2>2
<1>30. ASSUME NEW r \in Resetters, BeginReset(r) PROVE TypeOK'
  <2>1. FlowType'
    BY <1>30, CancelFlowType DEF BeginReset, CancelErrors
  <2>2. RuntimeType' /\ AgentType' /\ HandlerType' /\ ProcType' /\ DownType' /\ RestType'
    BY <1>30 DEF BeginReset, ResetPlaces
  <2> QED
    BY <2>1, <2>2
<1>31. ASSUME NEW r \in Resetters, BeginShutdown(r) PROVE TypeOK'
  BY <1>31 DEF BeginShutdown, ResetPlaces
<1>32. ASSUME NEW r \in Resetters, ShutdownBegin(r) PROVE TypeOK'
  BY <1>32 DEF ShutdownBegin, ResetPlaces, FatalErrors
<1>33. ASSUME NEW r \in Resetters, ShutdownRuntime(r) PROVE TypeOK'
  BY <1>33 DEF ShutdownRuntime, Kill, ResetPlaces
<1>34. ASSUME NEW r \in Resetters, ShutdownAgents(r) PROVE TypeOK'
  <2>1. AgentType'
    BY <1>34, ReleaseType DEF ShutdownAgents
  <2>2. FlowType' /\ RuntimeType' /\ HandlerType' /\ ProcType' /\ DownType' /\ RestType'
    BY <1>34 DEF ShutdownAgents, Kill, Launched, ResetPlaces
  <2> QED
    BY <2>1, <2>2
<1>35. ASSUME NEW r \in Resetters, ShutdownAgentsDeadline(r) PROVE TypeOK'
  BY <1>35 DEF ShutdownAgentsDeadline, Kill, ResetPlaces
<1>36. ASSUME NEW r \in Resetters, ClearExitedChannel(r) PROVE TypeOK'
  <2>1. ProcType'
    BY <1>36 DEF ClearExitedChannel
  <2>2. FlowType' /\ RuntimeType' /\ AgentType' /\ HandlerType' /\ DownType' /\ RestType'
    BY <1>36 DEF ClearExitedChannel, ResetPlaces
  <2> QED
    BY <2>1, <2>2
<1>37. ASSUME NEW r \in Resetters, ClearRegistrations(r) PROVE TypeOK'
  <2>1. RuntimeType'
    BY <1>37, FreshRuntime DEF ClearRegistrations, RegistrationsCleared
  <2>2. AgentType'
    BY <1>37, FreshAgent DEF ClearRegistrations, RegistrationsCleared, Agents
  <2>3. RestType'
    BY <1>37, DomainAssumption DEF ClearRegistrations, RegistrationsCleared, FatalErrors
  <2>4. FlowType' /\ HandlerType' /\ ProcType' /\ DownType'
    BY <1>37 DEF ClearRegistrations, RegistrationsCleared, ResetPlaces
  <2> QED
    BY <2>1, <2>2, <2>3, <2>4
<1>38. ASSUME NEW r \in Resetters, ClearGates(r) PROVE TypeOK'
  BY <1>38, ClearType DEF ClearGates, ResetPlaces
<1>39. CASE UNCHANGED vars
  BY <1>39 DEF vars
<1> QED
  BY <1>1, <1>2, <1>3, <1>4, <1>5, <1>6, <1>7, <1>8, <1>9, <1>10, <1>11, <1>12, <1>13,
     <1>14, <1>15, <1>16, <1>17, <1>18, <1>19, <1>20, <1>21, <1>22, <1>23, <1>24, <1>25,
     <1>26, <1>27, <1>28, <1>29, <1>30, <1>31, <1>32, <1>33, <1>34, <1>35, <1>36, <1>37,
     <1>38, <1>39 DEF Next, Handler, Watcher, Resetter, Resume, Cooperate, Misbehave

\* Type correctness of the model in every reachable state (TypeOK).
THEOREM TypeCorrect == Spec => []TypeOK
<1>1. Init => TypeOK
  <2> SUFFICES ASSUME Init PROVE TypeOK
    OBVIOUS
  <2>1. FlowType
    BY NewGateType, LimitAssumption DEF Init, FlowType, GateNames, InitGates, InvokeGates
  <2>2. RuntimeType /\ AgentType
    BY FreshRuntime, FreshAgent DEF Init, RuntimeType, AgentType, Agents
  <2>3. HandlerType /\ ProcType /\ DownType /\ RestType
    BY DEF Init, HandlerType, HandlerPlaces, Results, ProcType, ProcIds, Procs, CancelErrors,
           NoErr, DownType, ResetPlaces, RestType, FatalErrors, Panics
  <2> QED
    BY <2>1, <2>2, <2>3 DEF TypeOK
<1> QED
  BY <1>1, TypeStep, PTL DEF Spec

-----------------------------------------------------------------------------
(* How a step changes the gates: most steps leave the cancellations alone,  *)
(* the others are CancelFlows and the two halves of a reset's Clear.        *)

GatesKept ==
    /\ canceled' = canceled
    /\ \A g \in GateNames : /\ gate'[g].canceled = gate[g].canceled
                            /\ Sound(gate[g]) => Sound(gate'[g])

\* A step on one gate that keeps its cancellation and its soundness.
LEMMA OneGateKept ==
    ASSUME FlowType, canceled' = canceled, NEW g \in GateNames, NEW new \in Gate,
           new.canceled = gate[g].canceled, Sound(gate[g]) => Sound(new),
           gate' = [gate EXCEPT ![g] = new]
    PROVE  GatesKept
BY DEF FlowType, GatesKept

\* The start of an init only sets a count.
LEMMA BeginInitKeeps ==
    ASSUME FlowType, BeginInit
    PROVE  GatesKept
<1>1. CASE UNCHANGED gate
  BY <1>1 DEF BeginInit, GatesKept
<1>2. CASE gate' = [gate EXCEPT !["extRegistered"] = SetCount(@, Cardinality(ExtAgents))]
  <2>1. "extRegistered" \in GateNames /\ gate["extRegistered"] \in Gate
    BY DEF FlowType, GateNames, InitGates
  <2>2. gate' = [gate EXCEPT !["extRegistered"] =
                    SetCount(gate["extRegistered"], Cardinality(ExtAgents))]
    BY <1>2, <2>1 DEF FlowType
  <2> QED
    BY <2>1, <2>2, SetCountType, CountType, OneGateKept DEF BeginInit
<1> QED
  BY <1>1, <1>2 DEF BeginInit

\* Every step keeps the gates, cancels all of them, or is part of a Clear (all actions).
LEMMA FlowStep ==
    ASSUME TypeOK, [Next]_vars
    PROVE  \/ GatesKept
           \/ /\ WatcherCancelFlows
              /\ \E e \in CancelErrors : CancelFlows(e)
           \/ \E r \in Resetters : BeginReset(r) /\ CancelFlows("reset")
           \/ \E r \in Resetters : ClearRegistrations(r) \/ ClearGates(r)
<1> USE DEF TypeOK, FlowType, flowVars
<1>1. CASE UNCHANGED flowVars
  BY <1>1 DEF GatesKept
<1>2. CASE HandleInit
  BY <1>2, BeginInitKeeps DEF HandleInit
<1>3. CASE HandleInvoke
  BY <1>3, <1>1, BeginInitKeeps DEF HandleInvoke
<1>4. CASE AwaitRuntimeRestoreReady
  <2>1. "initAgents" \in GateNames
    BY DEF GateNames, InitGates
  <2> DEFINE new == SetCount(gate["initAgents"], CountAgents)
  <2>2. /\ new \in Gate /\ new.canceled = gate["initAgents"].canceled
        /\ Sound(gate["initAgents"]) => Sound(new)
    BY <2>1, SetCountType, CountType
  <2>3. canceled' = canceled /\ (UNCHANGED gate \/ gate' = [gate EXCEPT !["initAgents"] = new])
    BY <1>4 DEF AwaitRuntimeRestoreReady
  <2> HIDE DEF new
  <2> QED
    BY <1>1, <2>1, <2>2, <2>3, OneGateKept
<1>5. CASE ReleaseParties
  <2>1. /\ InitializeBarriers \in [GateNames -> Gate]
        /\ \A g \in GateNames :
              /\ InitializeBarriers[g].canceled = gate[g].canceled
              /\ Sound(gate[g]) => Sound(InitializeBarriers[g])
    BY ResetType DEF InitializeBarriers
  <2> DEFINE new == SetCount(InitializeBarriers["invokeAgents"],
                             Cardinality(Subscribed("INVOKE")))
  <2>2. /\ new \in Gate /\ new.canceled = InitializeBarriers["invokeAgents"].canceled
        /\ Sound(InitializeBarriers["invokeAgents"]) => Sound(new)
    BY <2>1, SetCountType, CountType DEF GateNames, InvokeGates
  <2>3. /\ canceled' = canceled
        /\ \/ gate' = InitializeBarriers
           \/ gate' = [InitializeBarriers EXCEPT !["invokeAgents"] = new]
    BY <1>5 DEF ReleaseParties
  <2> HIDE DEF new
  <2> QED
    BY <2>1, <2>2, <2>3 DEF GatesKept
<1>6. CASE RuntimeNext
  BY <1>6, WalkThroughType DEF RuntimeNext, StartedReady, ResponseSentReady, ReadyReady, GatesKept, GateNames, InitGates, InvokeGates
<1>7. CASE RuntimeResponseSent \/ StaleResponseSent
  BY <1>7, WalkThroughType DEF RuntimeResponseSent, StaleResponseSent, GatesKept, GateNames,
                               InvokeGates
<1>8. ASSUME NEW a \in Agents, RegisterExternal(a) PROVE GatesKept
  BY <1>8, WalkThroughType DEF RegisterExternal, StartedRegister, GatesKept, GateNames, InitGates
<1>9. ASSUME NEW a \in Agents, AgentNext(a) PROVE GatesKept
  BY <1>9, WalkThroughType DEF AgentNext, ReadyGate, GatesKept, GateNames, InitGates, InvokeGates
<1>10. CASE HandleProcessExit \/ WatcherCancelFlows
  BY <1>1, <1>10 DEF HandleProcessExit, WatcherCancelFlows, ProcType
<1>11. ASSUME NEW r \in Resetters, BeginReset(r) PROVE CancelFlows("reset")
  BY <1>11 DEF BeginReset
<1>12. CASE \/ Handler /\ ~(HandleInit \/ AwaitRuntimeRestoreReady \/ ReleaseParties)
            \/ \E p \in exits : WatchEvent(p)
            \/ RuntimeResume \/ \E a \in Agents : AgentResume(a)
            \/ RuntimeRespond \/ \E a \in Agents : RegisterInternal(a)
            \/ Misbehave
  BY <1>1, <1>12
     DEF Handler, AwaitExternalAgentsRegistered, LaunchExtension, MayCreateExternal, ExtensionChannel,
         LaunchRuntime, RuntimeChannel, InitAwaitAgentsReady, AwaitRuntimeResponse,
         AwaitRuntimeReady, InvokeAwaitAgentsReady, WatchEvent, RuntimeResume, AgentResume,
         RuntimeRespond, RuntimeRespondRefused, Respond, RegisterInternal, MayCreateInternal, Misbehave,
         RuntimeInitError, AgentError, AgentInitError, AgentExitError, ProcessExit
<1>13. ASSUME NEW r \in Resetters,
              BeginShutdown(r) \/ (Resetter(r) /\ ~ClearRegistrations(r) /\ ~ClearGates(r))
       PROVE  UNCHANGED flowVars
  BY <1>13 DEF BeginShutdown, Resetter, ShutdownBegin, ShutdownRuntime, ShutdownAgents,
               ShutdownAgentsDeadline, ClearExitedChannel
<1>14. CASE UNCHANGED vars
  BY <1>1, <1>14 DEF vars
<1> QED
  BY <1>1, <1>2, <1>3, <1>4, <1>5, <1>6, <1>7, <1>8, <1>9, <1>10, <1>11, <1>12, <1>13, <1>14
     DEF Next, Handler, Watcher, Resetter, Resume, Cooperate

\* No gate is ever passed by more parties than it expects (GatesSound): neither a
\* lowered count nor late arrivals, resets or cancellations can break it.
THEOREM GatesAlwaysSound == Spec => []GatesSound
<1>1. Init => GatesSound
  <2>1. ASSUME Init, NEW g \in GateNames PROVE \E n \in Nat : gate[g] = NewGate(n)
    BY <2>1, LimitAssumption DEF Init, GateNames, InitGates, InvokeGates
  <2> QED
    BY <2>1, NewGateType DEF GatesSound
<1>2. TypeOK /\ GatesSound /\ [Next]_vars => GatesSound'
  <2> SUFFICES ASSUME TypeOK, GatesSound, [Next]_vars PROVE GatesSound'
    OBVIOUS
  <2>1. CASE GatesKept
    BY <2>1 DEF GatesSound, GatesKept
  <2>2. ASSUME NEW e \in CancelErrors, CancelFlows(e) PROVE GatesSound'
    BY <2>2, CancelType DEF GatesSound, CancelFlows, TypeOK, FlowType
  <2>3. ASSUME NEW r \in Resetters, ClearRegistrations(r) \/ ClearGates(r) PROVE GatesSound'
    BY <2>3, ClearType DEF GatesSound, ClearRegistrations, RegistrationsCleared, ClearGates,
                           TypeOK, FlowType
  <2> QED
    BY <2>1, <2>2, <2>3, FlowStep DEF CancelErrors
<1> QED
  BY <1>1, <1>2, TypeCorrect, PTL DEF Spec
-----------------------------------------------------------------------------
(* The cancellation of the flows.  CancelSticks is not inductive: while a   *)
(* reset is between its two Clears a second one may cancel, and the gates   *)
(* it cancelled are cleared under it.  It will clear everything once more.  *)
(* The watcher that cancels at that point is the exception, overtaken.      *)

AllCanceled  == \A g \in GateNames : gate[g].canceled
WillClear(r) == kind[r] = "reset" /\ rpc[r] \notin {"idle", "clearGates"}

CancelInv ==
    /\ canceled => AllCanceled \/ overtaken \/ \E r \in Resetters : WillClear(r)
    /\ canceled /\ (\E r \in Resetters : rpc[r] = "clearGates")
          => overtaken \/ \E r \in Resetters : WillClear(r)

\* Which steps change the places of the resetters.
LEMMA DownStep ==
    ASSUME TypeOK, [Next]_vars
    PROVE  \/ UNCHANGED <<rpc, kind>>
           \/ \E r \in Resetters : BeginReset(r) \/ BeginShutdown(r) \/ Resetter(r)
<1> USE DEF flowVars, partyVars, hdlVars, procVars, downVars, bounds, othersOfParty
<1>1. CASE Handler \/ HandleInvoke
  BY <1>1 DEF Handler, HandleInvoke, HandleInit, AwaitExternalAgentsRegistered, LaunchExtension, MayCreateExternal,
              ExtensionChannel, LaunchRuntime, RuntimeChannel, AwaitRuntimeRestoreReady,
              InitAwaitAgentsReady, ReleaseParties, AwaitRuntimeResponse, AwaitRuntimeReady,
              InvokeAwaitAgentsReady
<1>2. CASE Watcher
  BY <1>2 DEF Watcher, WatchEvent, HandleProcessExit, WatcherCancelFlows, TypeOK, ProcType
<1>3. CASE Resume \/ Cooperate \/ Misbehave
  BY <1>3 DEF Resume, Cooperate, Misbehave, RuntimeResume, RuntimeResponseSent,
              StaleResponseSent, AgentResume, RuntimeNext, StartedReady, ResponseSentReady, ReadyReady, RuntimeRespond, RegisterExternal, StartedRegister,
              RegisterInternal, MayCreateInternal, AgentNext, ReadyGate, RuntimeInitError, RuntimeRespondRefused, Respond,
              AgentError, AgentInitError, AgentExitError, ProcessExit
<1>4. CASE UNCHANGED vars
  BY <1>4 DEF vars
<1> QED
  BY <1>1, <1>2, <1>3, <1>4 DEF Next

\* A reset that will clear the flows still will after any step but its own Clear.
LEMMA WillClearStep ==
    ASSUME TypeOK, [Next]_vars, NEW r \in Resetters, WillClear(r), ~ClearRegistrations(r)
    PROVE  WillClear(r)'
<1> USE DEF WillClear, TypeOK, DownType
<1>1. CASE UNCHANGED <<rpc, kind>>
  BY <1>1
<1>2. ASSUME NEW s \in Resetters, BeginReset(s) \/ BeginShutdown(s) PROVE WillClear(r)'
  BY <1>2 DEF BeginReset, BeginShutdown, ResetPlaces
<1>3. ASSUME NEW s \in Resetters, Resetter(s), ~ClearRegistrations(s) \/ s # r
      PROVE WillClear(r)'
  BY <1>3 DEF Resetter, ShutdownBegin, ShutdownRuntime, ShutdownAgents, ShutdownAgentsDeadline,
              ClearExitedChannel, ClearRegistrations, RegistrationsCleared, ClearGates,
              ResetPlaces
<1> QED
  BY <1>1, <1>2, <1>3, DownStep DEF Resetter

\* A resetter comes between its two Clears only by the first one.
LEMMA ClearGatesStep ==
    ASSUME TypeOK, [Next]_vars, NEW r \in Resetters, rpc'[r] = "clearGates",
           rpc[r] # "clearGates"
    PROVE  ClearRegistrations(r)
<1> USE DEF TypeOK, DownType, ResetPlaces
<1>1. ASSUME NEW s \in Resetters, BeginReset(s) \/ BeginShutdown(s) PROVE FALSE
  BY <1>1 DEF BeginReset, BeginShutdown
<1>2. ASSUME NEW s \in Resetters, Resetter(s), ~(s = r /\ ClearRegistrations(s)) PROVE FALSE
  BY <1>2 DEF Resetter, ShutdownBegin, ShutdownRuntime, ShutdownAgents, ShutdownAgentsDeadline,
              ClearExitedChannel, ClearRegistrations, RegistrationsCleared, ClearGates
<1> QED
  BY <1>1, <1>2, DownStep

\* A CancelFlows that does something leaves every gate canceled.
LEMMA CancelFlowsAll ==
    ASSUME FlowType, NEW e \in CancelErrors, CancelFlows(e)
    PROVE  canceled' /\ (IF canceled THEN gate' = gate ELSE AllCanceled')
BY CancelType DEF FlowType, CancelFlows, AllCanceled

\* Only the first half of a Clear forgets that the watcher was overtaken.
LEMMA OvertakenStep ==
    ASSUME TypeOK, [Next]_vars, \A r \in Resetters : ~ClearRegistrations(r), overtaken
    PROVE  overtaken'
<1> USE DEF flowVars, partyVars, hdlVars, procVars, downVars, bounds, othersOfParty
<1>1. CASE Handler
  BY <1>1 DEF Handler, HandleInit, BeginInit, AwaitExternalAgentsRegistered, LaunchExtension,
              ExtensionChannel, LaunchRuntime, RuntimeChannel, AwaitRuntimeRestoreReady,
              InitAwaitAgentsReady, ReleaseParties, AwaitRuntimeResponse, AwaitRuntimeReady,
              InvokeAwaitAgentsReady
<1>2. CASE HandleInvoke
  BY <1>2 DEF HandleInvoke, BeginInit
<1>3. CASE Watcher
  BY <1>3 DEF Watcher, WatchEvent, HandleProcessExit, WatcherCancelFlows
<1>4. CASE Resume \/ Cooperate \/ Misbehave
  BY <1>4 DEF Resume, Cooperate, Misbehave, RuntimeResume, RuntimeResponseSent,
              StaleResponseSent, AgentResume, RuntimeNext, RuntimeRespond, RegisterExternal,
              RegisterInternal, AgentNext, RuntimeInitError, RuntimeRespondRefused, Respond,
              AgentError, ProcessExit
<1>5. ASSUME NEW r \in Resetters, BeginReset(r) \/ BeginShutdown(r) \/ Resetter(r)
      PROVE  overtaken'
  BY <1>5 DEF BeginReset, BeginShutdown, Resetter, ShutdownBegin, ShutdownRuntime,
              ShutdownAgents, ShutdownAgentsDeadline, ClearExitedChannel, ClearGates
<1>6. CASE UNCHANGED vars
  BY <1>6 DEF vars
<1> QED
  BY <1>1, <1>2, <1>3, <1>4, <1>5, <1>6 DEF Next

\* Every step keeps what ties cancelOnce to the gates.
LEMMA CancelInvStep ==
    ASSUME TypeOK, CancelInv, [Next]_vars
    PROVE  CancelInv'
<1>1. ASSUME \A r \in Resetters : ~ClearRegistrations(r), overtaken PROVE CancelInv'
  BY <1>1, OvertakenStep DEF CancelInv
<1>2. ASSUME NEW r \in Resetters, ClearRegistrations(r) PROVE CancelInv'
  BY <1>2 DEF CancelInv, ClearRegistrations, RegistrationsCleared
<1>3. ASSUME \A r \in Resetters : ~ClearRegistrations(r),
             canceled, \E r \in Resetters : WillClear(r)
      PROVE  CancelInv'
  BY <1>3, WillClearStep DEF CancelInv
<1>4. ASSUME \A r \in Resetters : ~ClearRegistrations(r),
             canceled' = canceled, AllCanceled => AllCanceled'
      PROVE  CancelInv'
  BY <1>1, <1>3, <1>4, ClearGatesStep DEF CancelInv
<1>5. CASE GatesKept
  BY <1>2, <1>4, <1>5 DEF GatesKept, AllCanceled
<1>6. CASE canceled /\ \E e \in CancelErrors : CancelFlows(e)
  BY <1>2, <1>4, <1>6, CancelFlowsAll DEF TypeOK, AllCanceled
<1>7. ASSUME ~canceled, NEW r \in Resetters, BeginReset(r), CancelFlows("reset")
      PROVE  CancelInv'
  <2>1. WillClear(r)'
    BY <1>7 DEF BeginReset, WillClear, TypeOK, DownType
  <2> QED
    BY <2>1 DEF CancelInv
<1>8. ASSUME ~canceled, WatcherCancelFlows, NEW e \in CancelErrors, CancelFlows(e)
      PROVE  CancelInv'
  <2>1. (\E r \in Resetters : rpc'[r] = "clearGates") => overtaken'
    BY <1>8 DEF WatcherCancelFlows, downVars
  <2>2. AllCanceled'
    BY <1>8, CancelFlowsAll DEF TypeOK
  <2> QED
    BY <2>1, <2>2 DEF CancelInv
<1>9. ASSUME NEW r \in Resetters, ClearGates(r) PROVE CancelInv'
  <2>1. \A s \in Resetters : ~ClearRegistrations(s)
    BY <1>9 DEF ClearGates, ClearRegistrations, RegistrationsCleared, TypeOK, DownType
  <2>2. CASE canceled
    BY <1>1, <1>3, <1>9, <2>1, <2>2 DEF CancelInv, ClearGates
  <2>3. CASE ~canceled
    BY <1>9, <2>3 DEF CancelInv, ClearGates
  <2> QED
    BY <2>2, <2>3
<1> QED
  BY <1>2, <1>5, <1>6, <1>7, <1>8, <1>9, FlowStep DEF CancelErrors

\* Once CancelFlows is used up and no reset is under way, every gate turns its parties
\* away, unless the watcher's CancelFlows fell into a reset's Clear (CancelSticks).
THEOREM CancellationSticks == Spec => []CancelSticks
<1>1. Init => CancelInv
  BY DEF Init, CancelInv
<1>2. TypeOK /\ CancelInv /\ [Next]_vars => CancelInv'
  BY CancelInvStep
<1>3. CancelInv => CancelSticks
  BY DEF CancelInv, CancelSticks, AllCanceled, WillClear
<1> QED
  BY <1>1, <1>2, <1>3, TypeCorrect, PTL DEF Spec

\* With one Invoke or Reset of the interop server at a time, a handler at work shares
\* the sandbox only with resets that wait for it, and a cancellation reaches it.
HandlerInv ==
    pc # "idle" => /\ \A r \in Resetters : rpc[r] \in {"idle", "lock"}
                   /\ canceled => AllCanceled \/ overtaken

\* Only HandleInvoke starts a handler, and a handler at work does not move resetters.
LEMMA PcStep ==
    ASSUME TypeOK, [Next]_vars, pc' # "idle"
    PROVE  pc # "idle" \/ HandleInvoke
<1> USE DEF flowVars, partyVars, hdlVars, procVars, downVars, bounds, othersOfParty
<1>1. CASE Handler
  BY <1>1 DEF Handler, HandleInit, AwaitExternalAgentsRegistered, LaunchExtension, MayCreateExternal,
              ExtensionChannel, LaunchRuntime, RuntimeChannel, AwaitRuntimeRestoreReady,
              InitAwaitAgentsReady, ReleaseParties, AwaitRuntimeResponse, AwaitRuntimeReady,
              InvokeAwaitAgentsReady
<1>2. CASE Watcher
  BY <1>2 DEF Watcher, WatchEvent, HandleProcessExit, WatcherCancelFlows
<1>3. CASE Resume \/ Cooperate \/ Misbehave
  BY <1>3 DEF Resume, Cooperate, Misbehave, RuntimeResume, RuntimeResponseSent,
              StaleResponseSent, AgentResume, RuntimeNext, StartedReady, ResponseSentReady, ReadyReady, RuntimeRespond, RegisterExternal, StartedRegister,
              RegisterInternal, MayCreateInternal, AgentNext, ReadyGate, RuntimeInitError, RuntimeRespondRefused, Respond,
              AgentError, AgentInitError, AgentExitError, ProcessExit
<1>4. ASSUME NEW r \in Resetters, BeginReset(r) \/ BeginShutdown(r) \/ Resetter(r)
      PROVE  pc # "idle"
  BY <1>4 DEF BeginReset, BeginShutdown, Resetter, ShutdownBegin, ShutdownRuntime,
              ShutdownAgents, ShutdownAgentsDeadline, ClearExitedChannel, ClearRegistrations,
              RegistrationsCleared, ClearGates
<1>5. CASE UNCHANGED vars
  BY <1>5 DEF vars
<1> QED
  BY <1>1, <1>2, <1>3, <1>4, <1>5 DEF Next

\* Every step keeps what is known about the handler's place.
LEMMA HandlerInvStep ==
    ASSUME Exclusive, TypeOK, CancelInv, HandlerInv, [Next]_vars
    PROVE  HandlerInv'
<1> SUFFICES ASSUME pc' # "idle"
             PROVE  /\ \A r \in Resetters : rpc'[r] \in {"idle", "lock"}
                    /\ canceled' => AllCanceled' \/ overtaken'
  BY DEF HandlerInv
<1>1. /\ \A r \in Resetters : rpc[r] \in {"idle", "lock"}
      /\ canceled => AllCanceled \/ overtaken
  <2>1. CASE HandleInvoke
    BY <2>1 DEF HandleInvoke, CancelInv, WillClear
  <2> QED
    BY <2>1, PcStep DEF HandlerInv
<1>2. ASSUME NEW r \in Resetters, Resetter(r) PROVE FALSE
  <2>1. rpc[r] = "lock" /\ ShutdownBegin(r)
    BY <1>1, <1>2 DEF Resetter, ShutdownBegin, ShutdownRuntime, ShutdownAgents,
                      ShutdownAgentsDeadline, ClearExitedChannel, ClearRegistrations,
                      RegistrationsCleared, ClearGates
  <2> QED
    BY <2>1 DEF ShutdownBegin, MutexFree, hdlVars
<1>3. \A r \in Resetters : rpc'[r] \in {"idle", "lock"}
  BY <1>1, <1>2, DownStep DEF BeginReset, BeginShutdown, TypeOK, DownType
<1>4. overtaken => overtaken'
  BY <1>2, OvertakenStep DEF Resetter
<1>5. CASE GatesKept
  BY <1>1, <1>3, <1>4, <1>5 DEF GatesKept, AllCanceled
<1>7. ASSUME NEW e \in CancelErrors, CancelFlows(e) PROVE AllCanceled' \/ overtaken'
  BY <1>1, <1>4, <1>7, CancelFlowsAll DEF AllCanceled, TypeOK
<1>6. ASSUME NEW r \in Resetters, ClearRegistrations(r) \/ ClearGates(r) PROVE FALSE
  BY <1>2, <1>6 DEF Resetter
<1> QED
  BY <1>3, <1>5, <1>6, <1>7, FlowStep DEF CancelErrors

\* A handler that returns with every gate canceled does not return success.
LEMMA CanceledReturn ==
    ASSUME TypeOK, [Next]_vars, AllCanceled, pc # "idle", pc' = "idle"
    PROVE  res' # "ok"
<1> USE DEF TypeOK, FlowType, AllCanceled, GateNames, InitGates, InvokeGates, Return, hdlVars,
            othersOfParty
<1>1. CASE HandleInit \/ HandleInvoke
  BY <1>1 DEF HandleInit, HandleInvoke, BeginInit, MutexFree
<1>2. CASE AwaitExternalAgentsRegistered \/ AwaitRuntimeResponse
  BY <1>2, AwaitErrorType DEF AwaitExternalAgentsRegistered, AwaitRuntimeResponse, Await
<1>3. ASSUME NEW a \in ExtAgents, LaunchExtension(a) \/ ExtensionChannel(a) PROVE res' # "ok"
  BY <1>3 DEF LaunchExtension, MayCreateExternal, ExtensionChannel
<1>4. CASE LaunchRuntime \/ RuntimeChannel
  BY <1>4 DEF LaunchRuntime, RuntimeChannel
<1>5. CASE AwaitRuntimeRestoreReady
  BY <1>5, AwaitErrorType DEF AwaitRuntimeRestoreReady
<1>6. CASE InitAwaitAgentsReady
  BY <1>6, AwaitErrorType DEF InitAwaitAgentsReady
<1>7. CASE ReleaseParties
  BY <1>7 DEF ReleaseParties
<1>8. CASE AwaitRuntimeReady
  BY <1>8, AwaitErrorType DEF AwaitRuntimeReady
<1>9. CASE InvokeAwaitAgentsReady
  BY <1>9, AwaitErrorType DEF InvokeAwaitAgentsReady
<1>10. CASE Watcher \/ Resume \/ Cooperate \/ Misbehave
  BY <1>10 DEF Watcher, WatchEvent, HandleProcessExit, WatcherCancelFlows, Resume, Cooperate,
               Misbehave, RuntimeResume, RuntimeResponseSent, StaleResponseSent, AgentResume,
               RuntimeNext, StartedReady, ResponseSentReady, ReadyReady, RuntimeRespond, RegisterExternal, StartedRegister, RegisterInternal, MayCreateInternal, AgentNext, ReadyGate,
               RuntimeInitError, RuntimeRespondRefused, Respond, AgentError, AgentInitError, AgentExitError, ProcessExit
<1>11. ASSUME NEW r \in Resetters, BeginReset(r) \/ BeginShutdown(r) \/ Resetter(r)
       PROVE  pc' = pc
  BY <1>11 DEF BeginReset, BeginShutdown, Resetter, ShutdownBegin, ShutdownRuntime,
               ShutdownAgents, ShutdownAgentsDeadline, ClearExitedChannel, ClearRegistrations,
               RegistrationsCleared, ClearGates
<1>12. CASE UNCHANGED vars
  BY <1>12 DEF vars
<1> QED
  BY <1>1, <1>2, <1>3, <1>4, <1>5, <1>6, <1>7, <1>8, <1>9, <1>10, <1>11, <1>12
     DEF Next, Handler

\* A handler whose flow was canceled, by a reset or by the death of a process, never
\* reports success (CanceledNeverOk), provided that the interop server runs one Invoke
\* or Reset at a time.
THEOREM CanceledHandlersFail ==
    ASSUME Exclusive
    PROVE  Spec => CanceledNeverOk
<1>1. Init => CancelInv /\ HandlerInv
  BY DEF Init, CancelInv, HandlerInv
<1>2. TypeOK /\ CancelInv /\ HandlerInv /\ [Next]_vars => (CancelInv /\ HandlerInv)'
  BY CancelInvStep, HandlerInvStep
<1>3. TypeOK /\ HandlerInv /\ [Next]_vars
         => [(canceled /\ ~overtaken /\ pc # "idle" /\ pc' = "idle") => res' # "ok"]_vars
  BY CanceledReturn DEF HandlerInv
<1> QED
  BY <1>1, <1>2, <1>3, TypeCorrect, PTL DEF Spec, CanceledNeverOk
-----------------------------------------------------------------------------
(* The steps by what they leave alone.                                       *)

\* The requests of the Runtime API, and the ends of those that were suspended.
PartyStep ==
    \/ RuntimeNext \/ RuntimeResume \/ RuntimeRespond \/ RuntimeRespondRefused
    \/ RuntimeResponseSent \/ StaleResponseSent \/ RuntimeInitError
    \/ \E a \in Agents : \/ RegisterExternal(a) \/ RegisterInternal(a) \/ AgentNext(a)
                         \/ AgentResume(a) \/ AgentError(a)

\* The steps of the specification, one by one.
LEMMA StepCases ==
    ASSUME [Next]_vars
    PROVE  \/ Handler \/ HandleInvoke \/ PartyStep
           \/ (\E p \in alive : ProcessExit(p)) \/ (\E p \in exits : WatchEvent(p))
           \/ HandleProcessExit \/ WatcherCancelFlows
           \/ (\E r \in Resetters : \/ BeginReset(r) \/ BeginShutdown(r) \/ ShutdownBegin(r)
                                    \/ ShutdownRuntime(r) \/ ShutdownAgents(r)
                                    \/ ShutdownAgentsDeadline(r) \/ ClearExitedChannel(r)
                                    \/ ClearRegistrations(r) \/ ClearGates(r))
           \/ UNCHANGED vars
BY Zenon DEF Next, Watcher, Resume, Cooperate, Misbehave, Resetter, PartyStep

\* A request changes its party, the gates, the fatal error and nothing else.
LEMMA PartyFrame ==
    ASSUME PartyStep
    PROVE  /\ UNCHANGED <<canceled, regOn, pc, op, todo, res, initDone>>
           /\ UNCHANGED <<gen, alive, exits, chans, closed, watch>>
           /\ UNCHANGED <<rpc, kind, shuttingDown, awaiting, panicked>>
<1> USE DEF othersOfParty, hdlVars, procVars, downVars, flowVars, partyVars
<1>1. CASE RuntimeNext \/ RuntimeResume \/ RuntimeRespond \/ RuntimeRespondRefused
  BY <1>1 DEF RuntimeNext, RuntimeResume, RuntimeRespond, RuntimeRespondRefused, Respond
<1>2. CASE RuntimeResponseSent \/ StaleResponseSent \/ RuntimeInitError
  BY <1>2 DEF RuntimeResponseSent, StaleResponseSent, RuntimeInitError
<1>3. CASE \E a \in Agents : RegisterExternal(a) \/ RegisterInternal(a) \/ AgentNext(a)
  BY <1>3 DEF RegisterExternal, RegisterInternal, AgentNext
<1>4. CASE \E a \in Agents : AgentResume(a) \/ AgentError(a)
  BY <1>4 DEF AgentResume, AgentError
<1> QED
  BY <1>1, <1>2, <1>3, <1>4 DEF PartyStep

\* A handler at work moves neither resets nor the watcher.
LEMMA HandlerFrame ==
    ASSUME Handler
    PROVE  /\ pc # "idle"
           /\ UNCHANGED <<canceled, op, exits, closed, watch>>
           /\ UNCHANGED <<rpc, kind, shuttingDown, awaiting, stale>>
<1> USE DEF hdlVars, procVars, downVars, flowVars, partyVars
<1>1. CASE HandleInit
  BY <1>1 DEF HandleInit, BeginInit
<1>2. CASE \E a \in ExtAgents : LaunchExtension(a) \/ ExtensionChannel(a)
  BY <1>2 DEF LaunchExtension, ExtensionChannel, CreateExitedChannel
<1>3. CASE LaunchRuntime \/ RuntimeChannel
  BY <1>3 DEF LaunchRuntime, RuntimeChannel, CreateExitedChannel
<1>4. CASE AwaitExternalAgentsRegistered \/ AwaitRuntimeRestoreReady \/ InitAwaitAgentsReady
  BY <1>4 DEF AwaitExternalAgentsRegistered, AwaitRuntimeRestoreReady, InitAwaitAgentsReady
<1>5. CASE ReleaseParties \/ AwaitRuntimeResponse \/ AwaitRuntimeReady \/ InvokeAwaitAgentsReady
  BY <1>5 DEF ReleaseParties, AwaitRuntimeResponse, AwaitRuntimeReady, InvokeAwaitAgentsReady
<1> QED
  BY <1>1, <1>2, <1>3, <1>4, <1>5 DEF Handler

\* The supervisor's events touch neither the handler's place nor the resets.
LEMMA WatcherFrame ==
    ASSUME TypeOK, \/ \E p \in alive : ProcessExit(p)
                   \/ \E p \in exits : WatchEvent(p)
                   \/ HandleProcessExit \/ WatcherCancelFlows
    PROVE  /\ UNCHANGED <<regOn, runtime, pc, op, todo, res, initDone>>
           /\ UNCHANGED <<gen, chans, rpc, kind, shuttingDown, awaiting, stale>>
           /\ \/ UNCHANGED <<gate, canceled>>
              \/ \E e \in CancelErrors : CancelFlows(e)
<1> USE DEF hdlVars, procVars, downVars, flowVars, partyVars
<1>1. ASSUME NEW p \in alive, ProcessExit(p)
      PROVE  UNCHANGED <<regOn, runtime, pc, op, todo, res, initDone, gen, chans, rpc, kind,
                         shuttingDown, awaiting, stale, gate, canceled>>
  BY <1>1 DEF ProcessExit
<1>2. ASSUME NEW p \in exits, WatchEvent(p)
      PROVE  UNCHANGED <<regOn, runtime, pc, op, todo, res, initDone, gen, chans, rpc, kind,
                         shuttingDown, awaiting, stale, gate, canceled>>
  BY <1>2 DEF WatchEvent
<1>3. watch.err \in CancelErrors
  BY DEF TypeOK, ProcType
<1>4. CASE HandleProcessExit
  BY <1>3, <1>4 DEF HandleProcessExit
<1>5. CASE WatcherCancelFlows
  BY <1>3, <1>5 DEF WatcherCancelFlows
<1> QED
  BY <1>1, <1>2, <1>4, <1>5

\* The steps of the resets: where they lead, and what they leave alone.
ResetStep(r) ==
    \/ BeginReset(r) \/ BeginShutdown(r) \/ ShutdownBegin(r) \/ ShutdownRuntime(r)
    \/ ShutdownAgents(r) \/ ShutdownAgentsDeadline(r) \/ ClearExitedChannel(r)
    \/ ClearRegistrations(r) \/ ClearGates(r)

\* A resetter follows the code of Reset or Shutdown and leaves the other ones alone.
LEMMA ResetFrame ==
    ASSUME NEW r \in Resetters, ResetStep(r), DownType
    PROVE  /\ UNCHANGED <<pc, op, todo, res, watch, panicked>>
           /\ \A s \in Resetters : s # r => rpc'[s] = rpc[s] /\ kind'[s] = kind[s]
           /\ rpc'[r] = CASE rpc[r] = "idle" -> "lock"
                          [] rpc[r] = "lock" -> IF CountAgents = 0 THEN "killRuntime"
                                                                   ELSE "termRuntime"
                          [] rpc[r] = "killRuntime" -> "waitExits"
                          [] rpc[r] = "termRuntime" -> "agents"
                          [] rpc[r] = "agents" -> "agentsDeadline"
                          [] rpc[r] = "agentsDeadline" -> "waitExits"
                          [] rpc[r] = "waitExits" -> IF kind[r] = "reset" THEN "clear" ELSE "idle"
                          [] rpc[r] = "clear" -> "clearGates"
                          [] OTHER -> "idle"
<1> USE DEF hdlVars, procVars, downVars, flowVars, partyVars, DownType
<1>1. CASE BeginReset(r) \/ BeginShutdown(r)
  BY <1>1 DEF BeginReset, BeginShutdown
<1>2. CASE ShutdownBegin(r) \/ ShutdownRuntime(r)
  BY <1>2 DEF ShutdownBegin, ShutdownRuntime
<1>3. CASE ShutdownAgents(r) \/ ShutdownAgentsDeadline(r)
  BY <1>3 DEF ShutdownAgents, ShutdownAgentsDeadline
<1>4. CASE ClearExitedChannel(r)
  BY <1>4 DEF ClearExitedChannel
<1>5. CASE ClearRegistrations(r)
  BY <1>5 DEF ClearRegistrations, RegistrationsCleared
<1>6. CASE ClearGates(r)
  BY <1>6 DEF ClearGates, ResetPlaces
<1> QED
  BY <1>1, <1>2, <1>3, <1>4, <1>5, <1>6 DEF ResetStep

-----------------------------------------------------------------------------
(* Who is at work, when the interop server starts no invoke during a reset. *)

Clearing == \E r \in Resetters : rpc[r] = "clearGates"

\* Nobody is registered and nobody's request is suspended.
Nobody == /\ runtime.state = "nil" /\ ~runtime.waiting
          /\ \A a \in Agents : agent[a].state = "none" /\ ~agent[a].waiting /\ ~agent[a].flag

\* A handler at work shares the sandbox only with resets that wait for the mutex, one
\* reset at a time has the mutex, and between its two Clears nobody is registered.
TurnInv ==
    /\ pc # "idle" => \A r \in Resetters : rpc[r] \in {"idle", "lock"}
    /\ \A r, s \in Resetters : InReset(r) /\ InReset(s) => r = s
    /\ Clearing => Nobody /\ ~initDone
    /\ \A r \in Resetters : rpc[r] # "idle" /\ ~canceled => ~initDone /\ pc = "idle"
    /\ op = "init" /\ initDone => pc = "idle" /\ res = "ok"
    /\ pc = "new" => op = "init"

\* The fields of the parties that are not there.
LEMMA EmptyRecords ==
    /\ NilRuntime.state = "nil" /\ ~NilRuntime.waiting /\ ~NilRuntime.flag
    /\ ~NilRuntime.sending /\ NilRuntime.gen = 0
    /\ NoAgent.state = "none" /\ ~NoAgent.waiting /\ ~NoAgent.flag /\ NoAgent.subs = {}
BY DEF NilRuntime, NewRuntime, NoAgent, NewAgent

\* Nobody can ask for anything: the only request that may end is that of a runtime that
\* a reset has dropped.
LEMMA NobodyActs ==
    ASSUME TypeOK, Nobody, PartyStep
    PROVE  UNCHANGED <<runtime, agent>>
<1> USE DEF Nobody, TypeOK, RuntimeType, AgentType
<1>1. CASE \/ RuntimeNext \/ RuntimeResume \/ RuntimeRespond \/ RuntimeRespondRefused
           \/ RuntimeResponseSent \/ RuntimeInitError
  BY <1>1 DEF RuntimeNext, RuntimeResume, RuntimeRespond, RuntimeRespondRefused, Respond,
              RuntimeResponseSent, RuntimeInitError, RuntimeUp
<1>2. CASE StaleResponseSent
  BY <1>2 DEF StaleResponseSent, partyVars
<1>3. ASSUME NEW a \in Agents, RegisterExternal(a) \/ RegisterInternal(a) \/ AgentNext(a)
      PROVE  FALSE
  BY <1>3 DEF RegisterExternal, StartedRegister, RegisterInternal, AgentNext, RuntimeUp
<1>4. ASSUME NEW a \in Agents, AgentResume(a) \/ AgentError(a)
      PROVE  FALSE
  BY <1>4 DEF AgentResume, AgentError, AgentInitError, AgentExitError
<1> QED
  BY <1>1, <1>2, <1>3, <1>4 DEF PartyStep

\* Every step keeps the turns.
LEMMA TurnStep ==
    ASSUME Exclusive, TypeOK, TurnInv, [Next]_vars
    PROVE  TurnInv'
<1> USE DEF TypeOK
<1>1. CASE Handler
  <2>1. /\ \A r \in Resetters : rpc'[r] = rpc[r] /\ rpc[r] \in {"idle", "lock"}
        /\ pc # "idle" /\ canceled' = canceled /\ op' = op
    BY <1>1, HandlerFrame DEF TurnInv
  <2>2. \A r \in Resetters : rpc'[r] # "idle" => canceled'
    BY <2>1 DEF TurnInv, FlowType
  <2>3. op = "init" => ~initDone
    BY <2>1 DEF TurnInv
  <2>4. pc' # "new" /\ (op = "init" /\ initDone' => pc' = "idle" /\ res' = "ok")
    <3> USE DEF hdlVars, procVars, partyVars, flowVars, Return
    <3>1. CASE HandleInit
      BY <1>1, <2>3, <3>1 DEF HandleInit, BeginInit
    <3>2. CASE \E a \in ExtAgents : LaunchExtension(a) \/ ExtensionChannel(a)
      BY <1>1, <2>3, <3>2 DEF LaunchExtension, ExtensionChannel
    <3>3. CASE LaunchRuntime \/ RuntimeChannel \/ AwaitRuntimeRestoreReady
      BY <1>1, <2>3, <3>3 DEF LaunchRuntime, RuntimeChannel, AwaitRuntimeRestoreReady
    <3>4. CASE AwaitExternalAgentsRegistered \/ AwaitRuntimeResponse
      BY <1>1, <2>3, <3>4 DEF AwaitExternalAgentsRegistered, AwaitRuntimeResponse, Await
    <3>5. CASE InitAwaitAgentsReady
      BY <1>1, <2>3, <3>5 DEF InitAwaitAgentsReady
    <3>6. CASE ReleaseParties \/ AwaitRuntimeReady \/ InvokeAwaitAgentsReady
      BY <1>1, <2>3, <3>6 DEF ReleaseParties, AwaitRuntimeReady, InvokeAwaitAgentsReady,
                              InvokeSucceeds
    <3> QED
      BY <1>1, <3>1, <3>2, <3>3, <3>4, <3>5, <3>6 DEF Handler
  <2> QED
    BY <2>1, <2>2, <2>4 DEF TurnInv, Clearing, InReset
<1>2. CASE HandleInvoke
  BY <1>2 DEF HandleInvoke, TurnInv, Clearing, InReset, downVars, BeginInit, Return
<1>3. CASE PartyStep
  <2>1. Clearing => UNCHANGED <<runtime, agent>>
    BY <1>3, NobodyActs DEF TurnInv
  <2> QED
    BY <1>3, <2>1, PartyFrame DEF TurnInv, Clearing, InReset, Nobody
<1>4. CASE \/ \E p \in alive : ProcessExit(p)
           \/ \E p \in exits : WatchEvent(p)
           \/ HandleProcessExit \/ WatcherCancelFlows
  <2>1. Nobody => Nobody'
    <3>1. CASE UNCHANGED agent
      BY <1>4, <3>1, WatcherFrame DEF Nobody
    <3>2. CASE HandleProcessExit
      BY <1>4, <3>2, WatcherFrame DEF Nobody, HandleProcessExit
    <3> QED
      BY <1>4, <3>1, <3>2 DEF ProcessExit, WatchEvent, WatcherCancelFlows, partyVars
  <2>2. canceled => canceled'
    BY <1>4, WatcherFrame DEF CancelFlows
  <2> QED
    BY <1>4, <2>1, <2>2, WatcherFrame DEF TurnInv, Clearing, InReset
<1>5. ASSUME NEW r \in Resetters, ResetStep(r) PROVE TurnInv'
  <2>1. CASE BeginReset(r)
    BY <1>5, <2>1, ResetFrame
       DEF BeginReset, CancelFlows, TurnInv, Clearing, InReset, Nobody, hdlVars, partyVars, DownType
  <2>2. CASE BeginShutdown(r)
    BY <1>5, <2>2, ResetFrame
       DEF BeginShutdown, TurnInv, Clearing, InReset, Nobody, hdlVars, partyVars, flowVars, DownType
  <2>3. CASE ShutdownBegin(r)
    BY <1>5, <2>3, ResetFrame
       DEF ShutdownBegin, MutexFree, TurnInv, Clearing, InReset, Nobody, hdlVars, partyVars, flowVars, DownType
  <2>4. CASE ShutdownRuntime(r) \/ ShutdownAgentsDeadline(r) \/ ClearExitedChannel(r)
    BY <1>5, <2>4, ResetFrame
       DEF ShutdownRuntime, ShutdownAgentsDeadline, ClearExitedChannel, TurnInv, Clearing, InReset,
           Nobody, hdlVars, partyVars, flowVars, DownType
  <2>5. CASE ShutdownAgents(r)
    <3>1. ASSUME Nobody PROVE Nobody'
      <4>1. awaiting' = {}
        BY <2>5, <3>1 DEF ShutdownAgents, Launched, Nobody, Agents
      <4>2. \A a \in Agents : agent'[a] = agent[a]
        BY <2>5, <4>1 DEF ShutdownAgents, Release
      <4> QED
        BY <2>5, <3>1, <4>2 DEF ShutdownAgents, Nobody
    <3> QED
      BY <1>5, <2>5, <3>1, ResetFrame
         DEF ShutdownAgents, TurnInv, Clearing, InReset, hdlVars, flowVars, DownType
  <2>6. CASE ClearRegistrations(r)
    BY <1>5, <2>6, ResetFrame, EmptyRecords
       DEF ClearRegistrations, RegistrationsCleared, TurnInv, Clearing, InReset,
           Nobody, DownType
  <2>7. CASE ClearGates(r)
    BY <1>5, <2>7, ResetFrame
       DEF ClearGates, TurnInv, Clearing, InReset, Nobody, hdlVars, partyVars, DownType
  <2> QED
    BY <1>5, <2>1, <2>2, <2>3, <2>4, <2>5, <2>6, <2>7 DEF ResetStep
<1>6. CASE UNCHANGED vars
  BY <1>6 DEF vars, hdlVars, partyVars, flowVars, downVars, TurnInv, Clearing, InReset, Nobody
<1> QED
  BY <1>1, <1>2, <1>3, <1>4, <1>5, <1>6, StepCases DEF ResetStep

-----------------------------------------------------------------------------
(* The processes of the current generation, and what a shutdown does to them. *)

Current == {p \in alive : p[2] = gen}

LaunchedNow(a) == agent[a].state # "none" /\ agent[a].gen = gen

\* No process is newer than the generation; those of the current one have their channel,
\* except the one between Exec and createExitedChannel, and an extension that runs is
\* registered.
ProcInv ==
    /\ \A p \in alive : p[2] <= gen
    /\ \A p \in Current : p[1] \in ExtAgents => agent[p[1]].state # "none"
    /\ pc \notin {"extChannel", "rtChannel"} => Current \subseteq chans
    /\ pc \in {"extensions", "extChannel", "runtime"} => <<Rt, gen>> \notin alive
    /\ pc = "extensions"
          => \A a \in ExtAgents \ todo : LaunchedNow(a) => <<a, gen>> \in chans
    /\ pc = "extChannel"
          => /\ \E b \in ExtAgents \ todo : \A a \in ExtAgents \ todo :
                   a # b /\ LaunchedNow(a) => <<a, gen>> \in chans
             /\ \A p \in Current : \/ p \in chans
                                   \/ p[1] \in ExtAgents \ todo /\ LaunchedNow(p[1])
    /\ pc = "rtChannel" => Current \subseteq chans \cup {<<Rt, gen>>}

\* How far the shutdown sequence has come with them.
KillInv ==
    \A r \in Resetters :
       /\ rpc[r] = "killRuntime" => \A p \in Current : p[1] \notin ExtAgents
       /\ rpc[r] = "agents" => <<Rt, gen>> \notin alive
       /\ rpc[r] = "agentsDeadline" => \A p \in Current : p[1] \in awaiting
       /\ rpc[r] = "waitExits" => Current = {}
       /\ rpc[r] = "clear" => \A p \in alive : p[2] # gen /\ p[2] # gen - 1

SameLaunched == \A a \in ExtAgents : /\ agent'[a].state = "none" <=> agent[a].state = "none"
                                     /\ agent'[a].gen = agent[a].gen

\* Who only makes processes go away keeps what is known about them.
LEMMA ProcKept ==
    ASSUME ProcInv, SameLaunched, alive' \subseteq alive, UNCHANGED <<gen, chans, pc, todo>>
    PROVE  ProcInv'
<1>1. Current' \subseteq Current
  BY DEF Current
<1>2. \A a \in ExtAgents : LaunchedNow(a)' <=> LaunchedNow(a)
  BY DEF LaunchedNow, SameLaunched
<1>3. \A p \in Current' : p[1] \in ExtAgents => agent'[p[1]].state # "none"
  BY <1>1 DEF ProcInv, SameLaunched
<1>4. ASSUME pc = "extChannel", NEW p \in Current', p \notin chans
      PROVE  p[1] \in ExtAgents \ todo /\ LaunchedNow(p[1])'
  <2>1. p[1] \in ExtAgents \ todo /\ LaunchedNow(p[1])
    BY <1>1, <1>4 DEF ProcInv
  <2> QED
    BY <2>1 DEF LaunchedNow, SameLaunched
<1>5. pc = "extChannel" => \E b \in ExtAgents \ todo : \A a \in ExtAgents \ todo :
                   a # b /\ LaunchedNow(a)' => <<a, gen>> \in chans
  BY <1>2 DEF ProcInv
<1>6. pc = "extensions"
          => \A a \in ExtAgents \ todo : LaunchedNow(a)' => <<a, gen>> \in chans
  BY <1>2 DEF ProcInv
<1> QED
  BY <1>1, <1>3, <1>4, <1>5, <1>6 DEF ProcInv

\* ... and what the reset at work knows about them.
LEMMA KillKept ==
    ASSUME KillInv, alive' \subseteq alive, UNCHANGED <<gen, rpc, awaiting>>
    PROVE  KillInv'
BY DEF KillInv, Current

\* Requests launch nothing, and they unregister nobody.
LEMMA PartyLaunched ==
    ASSUME TypeOK, PartyStep
    PROVE  SameLaunched
<1> USE DEF TypeOK, AgentType, SameLaunched
<1>a. \A a \in ExtAgents : a \in Agents /\ a \notin IntAgents /\ agent[a] \in AgentRec
  BY DomainAssumption DEF Agents
<1>1. CASE UNCHANGED agent
  BY <1>1
<1>2. ASSUME NEW a \in Agents, RegisterExternal(a) PROVE SameLaunched
  BY <1>2, <1>a DEF RegisterExternal, StartedRegister, AgentRec
<1>3. ASSUME NEW a \in Agents, RegisterInternal(a) PROVE SameLaunched
  BY <1>3, <1>a DEF RegisterInternal
<1>4. ASSUME NEW a \in Agents, AgentNext(a) PROVE SameLaunched
  BY <1>4, <1>a DEF AgentNext, AgentRec
<1>5. ASSUME NEW a \in Agents, AgentResume(a) PROVE SameLaunched
  BY <1>5, <1>a DEF AgentResume, AgentRec
<1>6. ASSUME NEW a \in Agents, AgentError(a) PROVE SameLaunched
  BY <1>6, <1>a DEF AgentError, AgentInitError, AgentExitError, AgentRec
<1> QED
  BY <1>1, <1>2, <1>3, <1>4, <1>5, <1>6 DEF PartyStep, RuntimeNext, RuntimeResume, RuntimeRespond,
     RuntimeRespondRefused, Respond, RuntimeResponseSent, StaleResponseSent, RuntimeInitError, partyVars

\* The handler's steps: launches and their channels; the rest leaves the processes alone.
LEMMA HandlerProc ==
    ASSUME TypeOK, TurnInv, ProcInv, Handler
    PROVE  ProcInv'
<1> USE DEF TypeOK, AgentType, ProcType, hdlVars, procVars, partyVars
<1>a. \A a \in ExtAgents : a \in Agents /\ a \notin IntAgents /\ agent[a] \in AgentRec
  BY DomainAssumption DEF Agents
<1>b. \A p \in alive : p[1] \in Procs /\ p[2] \in Nat /\ p = <<p[1], p[2]>>
  BY DEF ProcIds
<1>c. Rt \notin ExtAgents
  BY DomainAssumption DEF Agents
<1>1. CASE HandleInit
  <2>1. UNCHANGED <<alive, agent, chans>> /\ gen' = gen + 1 /\ pc = "new"
    BY <1>1 DEF HandleInit, BeginInit
  <2>4. pc' = "idle" \/ (pc' = "extensions" /\ todo' = ExtAgents)
    BY <1>1 DEF HandleInit, BeginInit, Return
  <2>2. \A p \in alive : p[2] <= gen + 1 /\ p[2] # gen + 1
    BY <1>b DEF ProcInv
  <2>3. Current' = {} /\ <<Rt, gen'>> \notin alive'
    BY <2>1, <2>2 DEF Current
  <2> QED
    BY <2>1, <2>2, <2>3, <2>4 DEF ProcInv
<1>2. ASSUME NEW a \in ExtAgents, LaunchExtension(a) PROVE ProcInv'
  <2>1. UNCHANGED <<gen, chans>> /\ pc = "extensions" /\ a \in todo
    BY <1>2 DEF LaunchExtension
  <2>2. CASE pc' = "idle"
    <3>1. alive' = alive /\ \A b \in ExtAgents : agent[b].state # "none" => agent'[b].state # "none"
      BY <1>2, <1>a, <2>2 DEF LaunchExtension, MayCreateExternal, NewAgent
    <3>2. Current' = Current
      BY <2>1, <3>1 DEF Current
    <3> QED
      BY <2>1, <2>2, <3>1, <3>2 DEF ProcInv
  <2>3. CASE pc' # "idle"
    <3>1. /\ pc' = "extChannel" /\ todo' = todo \ {a} /\ alive' = alive \cup {<<a, gen>>}
          /\ agent' = [agent EXCEPT ![a] = NewAgent(gen)]
      BY <1>2, <2>3 DEF LaunchExtension, Return
    <3>2. /\ agent'[a].state # "none" /\ agent'[a].gen = gen
          /\ \A b \in ExtAgents : b # a => agent'[b] = agent[b]
      BY <1>a, <3>1 DEF NewAgent
    <3>3. Current' = Current \cup {<<a, gen>>}
      BY <2>1, <3>1 DEF Current
    <3>4. Current \subseteq chans /\ \A b \in ExtAgents \ todo : LaunchedNow(b) => <<b, gen>> \in chans
      BY <2>1 DEF ProcInv
    <3>5. \A p \in Current' : p \in chans' \/ (p[1] \in ExtAgents \ todo' /\ LaunchedNow(p[1])')
      BY <2>1, <3>1, <3>2, <3>3, <3>4 DEF LaunchedNow
    <3>6. \A b \in ExtAgents \ todo' : b # a /\ LaunchedNow(b)' => <<b, gen'>> \in chans'
      BY <2>1, <3>1, <3>2, <3>4 DEF LaunchedNow
    <3>7. \A p \in Current' : p[1] \in ExtAgents => agent'[p[1]].state # "none"
      BY <3>2, <3>3 DEF ProcInv
    <3>8. <<Rt, gen'>> \notin alive' /\ \A p \in alive' : p[2] <= gen'
      BY <1>c, <2>1, <3>1 DEF ProcInv
    <3>9. a \in ExtAgents \ todo'
      BY <3>1
    <3> QED
      BY <3>1, <3>5, <3>6, <3>7, <3>8, <3>9 DEF ProcInv
  <2> QED
    BY <2>2, <2>3
<1>3. ASSUME NEW a \in ExtAgents, ExtensionChannel(a) PROVE ProcInv'
  <2>1. /\ pc = "extChannel" /\ pc' = "extensions" /\ UNCHANGED <<gen, alive, agent, todo>>
        /\ chans' = chans \cup {<<a, gen>>} /\ a \notin todo /\ LaunchedNow(a) /\ <<a, gen>> \notin chans
    BY <1>3 DEF ExtensionChannel, CreateExitedChannel, LaunchedNow
  <2>2. \A b \in ExtAgents \ todo : b # a /\ LaunchedNow(b) => <<b, gen>> \in chans
    BY <2>1 DEF ProcInv
  <2>3. Current' = Current /\ \A b \in ExtAgents : LaunchedNow(b)' <=> LaunchedNow(b)
    BY <2>1 DEF Current, LaunchedNow
  <2>4. ASSUME NEW p \in Current PROVE p \in chans'
    <3>1. CASE p \in chans
      BY <2>1, <3>1
    <3>2. CASE p[1] \in ExtAgents \ todo /\ LaunchedNow(p[1])
      <4>1. p = <<p[1], gen>>
        BY <1>b, <2>4 DEF Current
      <4> QED
        BY <2>1, <2>2, <3>2, <4>1
    <3> QED
      BY <2>1, <3>1, <3>2 DEF ProcInv
  <2>5. \A b \in ExtAgents \ todo : LaunchedNow(b)' => <<b, gen>> \in chans'
    BY <2>1, <2>2, <2>3
  <2> QED
    BY <2>1, <2>3, <2>4, <2>5 DEF ProcInv
<1>4. CASE LaunchRuntime
  <2>1. UNCHANGED <<gen, chans, agent, todo>> /\ pc = "runtime"
    BY <1>4 DEF LaunchRuntime
  <2>2. CASE alive' = alive /\ pc' = "idle"
    BY <2>1, <2>2 DEF ProcInv, Current
  <2>3. CASE alive' = alive \cup {<<Rt, gen>>} /\ pc' = "rtChannel"
    <3>1. Current' = Current \cup {<<Rt, gen>>}
      BY <2>1, <2>3 DEF Current
    <3> QED
      BY <1>c, <2>1, <2>3, <3>1 DEF ProcInv
  <2> QED
    BY <1>4, <2>2, <2>3 DEF LaunchRuntime, Return
<1>5. CASE RuntimeChannel
  <2>1. /\ pc = "rtChannel" /\ pc' = "awaitRuntime" /\ UNCHANGED <<gen, alive, agent, todo>>
        /\ chans' = chans \cup {<<Rt, gen>>}
    BY <1>5 DEF RuntimeChannel, CreateExitedChannel
  <2> QED
    BY <2>1 DEF ProcInv, Current
<1>6. ASSUME UNCHANGED <<gen, alive, chans, todo>>, SameLaunched,
             pc \notin {"extChannel", "rtChannel"}, pc' \notin {"extensions", "extChannel", "rtChannel"},
             pc' = "runtime" => pc = "extensions"
      PROVE  ProcInv'
  BY <1>6 DEF ProcInv, Current, SameLaunched
<1>7. CASE UNCHANGED agent
  <2>1. SameLaunched
    BY <1>7 DEF SameLaunched
  <2>2. CASE AwaitExternalAgentsRegistered \/ AwaitRuntimeResponse
    BY <1>6, <2>1, <2>2 DEF AwaitExternalAgentsRegistered, AwaitRuntimeResponse, Await, Return
  <2>3. CASE AwaitRuntimeRestoreReady \/ InitAwaitAgentsReady
    BY <1>6, <2>1, <2>3 DEF AwaitRuntimeRestoreReady, InitAwaitAgentsReady, Return
  <2>4. CASE AwaitRuntimeReady \/ InvokeAwaitAgentsReady
    BY <1>6, <2>1, <2>4 DEF AwaitRuntimeReady, InvokeAwaitAgentsReady, InvokeSucceeds, Return
  <2> QED
    BY <1>1, <1>2, <1>3, <1>4, <1>5, <1>6, <2>1, <2>2, <2>3, <2>4, Handler DEF Handler, ReleaseParties, Return
<1>8. CASE ReleaseParties
  <2>1. SameLaunched
    BY <1>8, <1>a DEF ReleaseParties, Release, SameLaunched, AgentRec
  <2> QED
    BY <1>6, <1>8, <2>1 DEF ReleaseParties, Return
<1> QED
  BY <1>1, <1>2, <1>3, <1>4, <1>5, <1>7, <1>8 DEF Handler, AwaitExternalAgentsRegistered,
     AwaitRuntimeRestoreReady, InitAwaitAgentsReady, AwaitRuntimeResponse, AwaitRuntimeReady,
     InvokeAwaitAgentsReady

\* One step of a shutdown kills its share of the processes, and ends the generation last.
LEMMA ResetKills ==
    ASSUME TypeOK, TurnInv, ProcInv, KillInv, NEW r \in Resetters, ResetStep(r)
    PROVE  ProcInv' /\ KillInv'
<1> USE DEF TypeOK, AgentType, ProcType, DownType, hdlVars, procVars, partyVars, flowVars
<1>b. \A p \in alive : p[1] \in Procs /\ p[2] \in Nat /\ p = <<p[1], p[2]>>
  BY DEF ProcIds
<1>c. Rt \notin ExtAgents /\ \A a \in ExtAgents : a \in Agents
  BY DomainAssumption DEF Agents
<1>d. UNCHANGED <<pc, todo>> /\ \A s \in Resetters : s # r => rpc'[s] = rpc[s]
  BY ResetFrame
<1>e. ASSUME rpc[r] \notin {"idle", "lock"} PROVE pc = "idle"
  BY <1>e DEF TurnInv
<1>f. ASSUME InReset(r) PROVE \A s \in Resetters : s # r => ~InReset(s)
  BY <1>f DEF TurnInv
<1>1. CASE BeginReset(r) \/ BeginShutdown(r)
  <2>1. UNCHANGED <<alive, gen, chans, agent, awaiting>> /\ rpc'[r] = "lock"
    BY <1>1 DEF BeginReset, BeginShutdown
  <2> QED
    BY <1>d, <2>1, ProcKept DEF KillInv, Current, SameLaunched
<1>2. CASE ShutdownBegin(r)
  <2>1. /\ UNCHANGED <<alive, gen, chans, agent, awaiting>>
        /\ rpc'[r] = IF CountAgents = 0 THEN "killRuntime" ELSE "termRuntime"
    BY <1>2 DEF ShutdownBegin
  <2>2. ASSUME CountAgents = 0 PROVE \A p \in Current : p[1] \notin ExtAgents
    <3>1. Registered = {}
      BY <2>2, DomainAssumption, FS_EmptySet, FS_Subset DEF CountAgents, Registered
    <3> QED
      BY <1>c, <3>1 DEF ProcInv, Registered
  <2> QED
    BY <1>d, <2>1, <2>2, ProcKept DEF KillInv, Current, SameLaunched
<1>3. CASE ShutdownRuntime(r)
  <2>1. /\ UNCHANGED <<gen, chans, agent, awaiting>> /\ alive' = alive \ ({<<Rt, gen>>} \cap chans)
        /\ rpc[r] \in {"killRuntime", "termRuntime"}
        /\ rpc'[r] = IF rpc[r] = "killRuntime" THEN "waitExits" ELSE "agents"
    BY <1>3 DEF ShutdownRuntime, Kill
  <2>2. ProcInv'
    BY <1>d, <2>1, ProcKept DEF SameLaunched
  <2>3. <<Rt, gen>> \notin alive'
    <3>1. Current \subseteq chans
      BY <1>e, <2>1 DEF ProcInv
    <3> QED
      BY <2>1, <3>1 DEF Current
  <2>4. rpc'[r] = "waitExits" => Current' = {}
    BY <1>b, <2>1, <2>3 DEF KillInv, Current, Procs
  <2> QED
    BY <1>d, <2>1, <2>2, <2>3, <2>4 DEF KillInv, Current
<1>4. CASE ShutdownAgents(r)
  <2>1. /\ UNCHANGED <<gen, chans>> /\ rpc[r] = "agents" /\ rpc'[r] = "agentsDeadline"
        /\ awaiting' = Launched \cap Subscribed("SHUTDOWN") /\ agent' = Release(awaiting')
        /\ alive' = alive \ {<<a, gen>> : a \in Launched \ awaiting'}
    BY <1>4 DEF ShutdownAgents, Kill
  <2>2. SameLaunched
    BY <1>c, <2>1 DEF SameLaunched, Release, AgentRec
  <2>3. ProcInv'
    BY <1>d, <2>1, <2>2, ProcKept
  <2>4. ASSUME NEW p \in Current' PROVE p[1] \in awaiting'
    <3>1. p \in Current /\ p \in alive' /\ p = <<p[1], gen>>
      BY <1>b, <2>1 DEF Current
    <3>2. p[1] \in ExtAgents
      BY <1>b, <2>1, <3>1 DEF KillInv, Current, Procs
    <3>3. p[1] \in Launched
      BY <1>e, <2>1, <3>1, <3>2 DEF ProcInv, Launched
    <3> QED
      BY <2>1, <3>1, <3>3
  <2>5. \A s \in Resetters : s # r => ~InReset(s)
    BY <1>f, <2>1 DEF InReset
  <2>6. \A s \in Resetters : s # r => rpc'[s] \in {"idle", "lock", "clear", "clearGates"}
    BY <1>d, <2>5 DEF InReset
  <2> QED
    BY <1>d, <2>1, <2>3, <2>4, <2>6 DEF KillInv, Current
<1>5. CASE ShutdownAgentsDeadline(r)
  <2>1. /\ UNCHANGED <<gen, chans, agent, awaiting>> /\ alive' = alive \ {<<a, gen>> : a \in awaiting}
        /\ rpc[r] = "agentsDeadline" /\ rpc'[r] = "waitExits"
    BY <1>5 DEF ShutdownAgentsDeadline, Kill
  <2>2. ProcInv'
    BY <1>d, <2>1, ProcKept DEF SameLaunched
  <2>3. Current' = {}
    BY <1>b, <2>1 DEF KillInv, Current
  <2> QED
    BY <1>d, <2>1, <2>2, <2>3 DEF KillInv, Current
<1>6. CASE ClearExitedChannel(r)
  <2>1. /\ UNCHANGED <<alive, agent, awaiting>> /\ rpc[r] = "waitExits" /\ pc = "idle"
        /\ rpc'[r] = IF kind[r] = "reset" THEN "clear" ELSE "idle"
        /\ gen' = IF kind[r] = "reset" THEN gen + 1 ELSE gen
    BY <1>6, <1>e DEF ClearExitedChannel
  <2>2. \A p \in alive : p[2] <= gen /\ p[2] # gen
    BY <2>1 DEF ProcInv, KillInv, Current
  <2>3. \A p \in alive : p[2] <= gen' /\ p[2] # gen' /\ p[2] # gen
    BY <1>b, <2>1, <2>2
  <2>4. Current' = {} /\ ProcInv'
    BY <1>d, <2>1, <2>3 DEF ProcInv, Current
  <2>5. \A s \in Resetters : s # r => rpc'[s] \in {"idle", "lock", "clear", "clearGates"}
    BY <1>d, <1>f, <2>1 DEF InReset
  <2>6. ASSUME NEW s \in Resetters, rpc'[s] = "clear"
        PROVE  \A p \in alive' : p[2] # gen' /\ p[2] # gen' - 1
    <3>1. CASE kind[r] = "reset"
      BY <1>b, <2>1, <2>3, <3>1
    <3>2. CASE kind[r] # "reset"
      BY <1>d, <2>1, <2>6, <3>2 DEF KillInv
    <3> QED
      BY <3>1, <3>2
  <2> QED
    BY <2>1, <2>4, <2>5, <2>6 DEF KillInv
<1>7. CASE ClearRegistrations(r)
  <2>1. /\ UNCHANGED <<alive, gen, chans, awaiting>> /\ rpc[r] = "clear" /\ pc = "idle"
        /\ rpc'[r] = "clearGates"
    BY <1>7, <1>e DEF ClearRegistrations, RegistrationsCleared
  <2>2. Current = {} /\ Current' = {}
    BY <2>1 DEF KillInv, Current
  <2> QED
    BY <1>d, <2>1, <2>2 DEF ProcInv, KillInv
<1>8. CASE ClearGates(r)
  <2>1. UNCHANGED <<alive, gen, chans, agent, awaiting>> /\ rpc'[r] = "idle"
    BY <1>8 DEF ClearGates
  <2> QED
    BY <1>d, <2>1, ProcKept DEF KillInv, Current, SameLaunched
<1> QED
  BY <1>1, <1>2, <1>3, <1>4, <1>5, <1>6, <1>7, <1>8 DEF ResetStep

\* Every step keeps what is known about the processes.
LEMMA ProcStep ==
    ASSUME Exclusive, TypeOK, TurnInv, ProcInv, KillInv, [Next]_vars
    PROVE  ProcInv' /\ KillInv'
<1> USE DEF TypeOK, AgentType, ProcType, DownType, hdlVars, procVars, partyVars, flowVars, downVars
<1>1. CASE Handler
  <2>1. \A r \in Resetters : rpc'[r] \in {"idle", "lock"}
    BY <1>1, HandlerFrame DEF TurnInv
  <2> QED
    BY <1>1, <2>1, HandlerProc DEF KillInv
<1>2. CASE HandleInvoke
  <2>1. KillInv'
    BY <1>2 DEF HandleInvoke, KillInv
  <2>2. pc = "idle" /\ UNCHANGED <<alive, agent, chans>>
    BY <1>2 DEF HandleInvoke, MutexFree, BeginInit
  <2>3. CASE initDone
    <3>1. pc' = "barriers" /\ gen' = gen
      BY <1>2, <2>3 DEF HandleInvoke
    <3> QED
      BY <2>1, <2>2, <3>1 DEF ProcInv, Current
  <2>4. CASE ~initDone
    <3>1. gen' = gen + 1 /\ (pc' = "idle" \/ (pc' = "extensions" /\ todo' = ExtAgents))
      BY <1>2, <2>4 DEF HandleInvoke, BeginInit, Return
    <3>2. \A p \in alive : p[2] <= gen + 1 /\ p[2] # gen + 1
      BY DEF ProcInv, ProcIds
    <3>3. Current' = {} /\ <<Rt, gen'>> \notin alive'
      BY <2>2, <3>1, <3>2 DEF Current
    <3> QED
      BY <2>1, <2>2, <3>1, <3>2, <3>3 DEF ProcInv
  <2> QED
    BY <2>3, <2>4
<1>3. CASE PartyStep
  BY <1>3, PartyFrame, PartyLaunched, ProcKept, KillKept
<1>4. CASE \/ \E p \in alive : ProcessExit(p)
           \/ \E p \in exits : WatchEvent(p)
           \/ HandleProcessExit \/ WatcherCancelFlows
  <2>1. alive' \subseteq alive
    <3>1. ASSUME NEW p \in alive, ProcessExit(p) PROVE alive' \subseteq alive
      BY <3>1 DEF ProcessExit
    <3>2. ASSUME NEW p \in exits, WatchEvent(p) PROVE alive' \subseteq alive
      BY <3>2 DEF WatchEvent
    <3>3. CASE HandleProcessExit \/ WatcherCancelFlows
      BY <3>3 DEF HandleProcessExit, WatcherCancelFlows
    <3> QED
      BY <1>4, <3>1, <3>2, <3>3
  <2>2. CASE UNCHANGED agent
    <3>1. SameLaunched
      BY <2>2 DEF SameLaunched
    <3> QED
      BY <1>4, <2>1, <3>1, WatcherFrame, ProcKept, KillKept
  <2>3. CASE HandleProcessExit
    <3>1. SameLaunched
      <4>1. PICK final \in {"Exited", "ShutdownFailed"} :
               agent' = [a \in Agents |->
                  IF a \in awaiting /\ watch.ev = <<a, agent[a].gen>> /\ agent[a].state = "Running"
                  THEN [agent[a] EXCEPT !.state = final] ELSE agent[a]]
        BY <2>3 DEF HandleProcessExit
      <4>2. \A a \in ExtAgents : a \in Agents /\ agent[a] \in AgentRec
        BY DEF Agents
      <4> QED
        BY <4>1, <4>2 DEF SameLaunched, AgentRec
    <3> QED
      BY <1>4, <2>1, <3>1, WatcherFrame, ProcKept, KillKept
  <2> QED
    BY <1>4, <2>2, <2>3 DEF ProcessExit, WatchEvent, WatcherCancelFlows
<1>5. ASSUME NEW r \in Resetters, ResetStep(r) PROVE ProcInv' /\ KillInv'
  BY <1>5, ResetKills
<1>6. CASE UNCHANGED vars
  <2>1. SameLaunched
    BY <1>6 DEF vars, SameLaunched
  <2> QED
    BY <1>6, <2>1, ProcKept, KillKept DEF vars
<1> QED
  BY <1>1, <1>2, <1>3, <1>4, <1>5, <1>6, StepCases DEF ResetStep

-----------------------------------------------------------------------------
(* What the steps do to the numbers of a gate. *)

\* What the methods of a gate do to its count and its arrivals.
LEMMA GateNumbers ==
    ASSUME NEW g \in Gate
    PROVE  /\ \A n \in Nat : SetCount(g, n).arrived = g.arrived
           /\ \A n \in Nat : SetCountOK(g, n) => SetCount(g, n).count = n
           /\ Reset(g).count = g.count /\ Reset(g).arrived <= g.arrived
           /\ ~g.canceled => Reset(g).arrived = 0
           /\ WalkThrough(g).count = g.count
           /\ WalkThrough(g).arrived >= g.arrived /\ WalkThrough(g).arrived <= g.arrived + 1
           /\ \A e \in CancelErrors : /\ CancelWithError(g, e).count = g.count
                                      /\ CancelWithError(g, e).arrived = g.arrived
           /\ Clear(g).count = g.count /\ Clear(g).arrived = 0
<1> USE DEF Gate
<1>1. \A n \in Nat : /\ SetCount(g, n).arrived = g.arrived
                     /\ SetCountOK(g, n) => SetCount(g, n).count = n
  BY DEF SetCount, SetCountOK
<1>2. Reset(g).count = g.count /\ Reset(g).arrived <= g.arrived /\ (~g.canceled => Reset(g).arrived = 0)
  BY DEF Reset
<1>3. /\ WalkThrough(g).count = g.count
      /\ WalkThrough(g).arrived >= g.arrived /\ WalkThrough(g).arrived <= g.arrived + 1
  BY DEF WalkThrough, WalkOK
<1>4. \A e \in CancelErrors : /\ CancelWithError(g, e).count = g.count
                              /\ CancelWithError(g, e).arrived = g.arrived
  BY DEF CancelWithError
<1>5. Clear(g).count = g.count /\ Clear(g).arrived = 0
  BY DEF Clear
<1> QED
  BY <1>1, <1>2, <1>3, <1>4, <1>5

\* CancelFlows leaves counts and arrivals alone, and it never takes a cancellation back.
LEMMA CancelNumbers ==
    ASSUME FlowType, NEW e \in CancelErrors, CancelFlows(e), NEW g \in GateNames
    PROVE  /\ gate'[g].count = gate[g].count /\ gate'[g].arrived = gate[g].arrived
           /\ gate[g].canceled => gate'[g].canceled
BY GateNumbers, CancelType DEF FlowType, CancelFlows

\* A request walks through the gate that stands for it, and through no other one.
LEMMA PartyGates ==
    ASSUME TypeOK, PartyStep, NEW g \in GateNames, gate'[g] # gate[g]
    PROVE  /\ gate'[g] = WalkThrough(gate[g])
           /\ g \in {"restoreReady", "initRuntime"} => RuntimeNext /\ StartedReady
           /\ g = "extRegistered" => \E a \in ExtAgents : RegisterExternal(a)
           /\ g = "initAgents" => \E a \in Agents : AgentNext(a) /\ agent[a].state = "Registered"
           /\ g = "invokeResponse" => RuntimeResponseSent \/ StaleResponseSent
           /\ g = "invokeRuntime" => RuntimeNext /\ ResponseSentReady
           /\ g = "invokeAgents" => \E a \in Agents : AgentNext(a) /\ agent[a].state = "Running"
<1> USE DEF TypeOK, FlowType, GateNames, InitGates, InvokeGates, flowVars
<1>1. CASE RuntimeNext
  BY <1>1 DEF RuntimeNext, StartedReady, ResponseSentReady, ReadyReady
<1>2. CASE RuntimeResponseSent \/ StaleResponseSent
  BY <1>2 DEF RuntimeResponseSent, StaleResponseSent
<1>3. ASSUME NEW a \in Agents, RegisterExternal(a)
      PROVE  gate'[g] = WalkThrough(gate[g]) /\ g = "extRegistered" /\ a \in ExtAgents
  BY <1>3 DEF RegisterExternal, StartedRegister
<1>4. ASSUME NEW a \in Agents, AgentNext(a)
      PROVE  /\ gate'[g] = WalkThrough(gate[g]) /\ agent[a].state \in {"Registered", "Running"}
             /\ g = IF agent[a].state = "Registered" THEN "initAgents" ELSE "invokeAgents"
  BY <1>4 DEF AgentNext, ReadyGate
<1>5. CASE UNCHANGED gate
  BY <1>5
<1> QED
  BY <1>1, <1>2, <1>3, <1>4, <1>5 DEF PartyStep, RuntimeResume, RuntimeRespond,
     RuntimeRespondRefused, Respond, RuntimeInitError, RegisterInternal, AgentResume, AgentError

\* The handlers set the counts of the agents' gates and empty those of the invoke flow.
LEMMA HandlerGates ==
    ASSUME TypeOK, Handler \/ HandleInvoke
    PROVE  /\ gate'["restoreReady"] = gate["restoreReady"]
           /\ gate'["initRuntime"] = gate["initRuntime"]
           /\ gate'["extRegistered"].arrived = gate["extRegistered"].arrived
           /\ gate'["initAgents"].arrived = gate["initAgents"].arrived
           /\ ~AwaitRuntimeRestoreReady => gate'["initAgents"] = gate["initAgents"]
           /\ ~ReleaseParties => \A g \in InvokeGates : gate'[g] = gate[g]
<1> USE DEF TypeOK, FlowType, GateNames, InitGates, InvokeGates, flowVars
<1>1. ASSUME BeginInit
      PROVE  /\ \A g \in GateNames : g # "extRegistered" => gate'[g] = gate[g]
             /\ gate'["extRegistered"].arrived = gate["extRegistered"].arrived
  BY <1>1, GateNumbers, CountType DEF BeginInit
<1>2. CASE HandleInit \/ HandleInvoke
  BY <1>1, <1>2 DEF HandleInit, HandleInvoke
<1>3. CASE AwaitRuntimeRestoreReady
  <2>1. /\ \A g \in GateNames : g # "initAgents" => gate'[g] = gate[g]
        /\ gate'["initAgents"].arrived = gate["initAgents"].arrived
    BY <1>3, GateNumbers, CountType DEF AwaitRuntimeRestoreReady
  <2>2. ~ReleaseParties
    BY <1>3 DEF AwaitRuntimeRestoreReady, ReleaseParties
  <2> QED
    BY <1>3, <2>1, <2>2
<1>4. CASE ReleaseParties
  <2>1. \A g \in GateNames : g \notin InvokeGates => gate'[g] = gate[g]
    BY <1>4 DEF ReleaseParties, InitializeBarriers
  <2> QED
    BY <1>4, <2>1
<1>5. CASE UNCHANGED gate
  BY <1>5
<1> QED
  BY <1>2, <1>3, <1>4, <1>5 DEF Handler, LaunchExtension, ExtensionChannel, LaunchRuntime, RuntimeChannel,
     AwaitExternalAgentsRegistered, InitAwaitAgentsReady, AwaitRuntimeResponse, AwaitRuntimeReady,
     InvokeAwaitAgentsReady

-----------------------------------------------------------------------------
(* The runtime and the gate through which it passes when it first asks for work. *)

Early == {"nil", "Started", "InitError"}
Later == {"awaitAgents", "barriers", "awaitResponse", "awaitReady", "awaitInvokeAgents"}

\* Only a runtime that has asked for work went through the gate, or the gate is canceled or
\* about to be cleared; while registrations are open and no handler waits for a runtime, none
\* runs that could go through.  What comes after the gate finds such a runtime.
RuntimeInv ==
    /\ gate["restoreReady"].count = 1
    /\ runtime.state \in Early
          => /\ gate["restoreReady"].arrived = 0 \/ gate["restoreReady"].canceled \/ Clearing
             /\ ~runtime.waiting
    /\ regOn /\ pc \notin {"rtChannel", "awaitRuntime"}
          => (runtime.state \in Early /\ ~RuntimeUp) \/ gate["restoreReady"].canceled
    /\ initDone \/ pc \in Later => ~regOn /\ runtime.state \notin Early
    /\ pc \in {"rtChannel", "awaitRuntime"} => runtime.state # "nil"
    /\ pc \in {"barriers", "awaitResponse", "awaitReady", "awaitInvokeAgents"} => initDone
    /\ panicked # "nilRuntime"

\* What the invariant looks at stays as it is, or gets better.
LEMMA RuntimeKept ==
    ASSUME RuntimeInv, UNCHANGED <<runtime, regOn, pc, initDone>>, alive' \subseteq alive,
           gate'["restoreReady"].count = gate["restoreReady"].count,
           gate'["restoreReady"].arrived = gate["restoreReady"].arrived,
           gate["restoreReady"].canceled => gate'["restoreReady"].canceled,
           Clearing => Clearing', panicked' # "nilRuntime"
    PROVE  RuntimeInv'
BY DEF RuntimeInv, RuntimeUp

\* The fields of a runtime that was just registered.
LEMMA NewRuntimeFields ==
    ASSUME NEW g \in Nat
    PROVE  NewRuntime(g).state = "Started" /\ ~NewRuntime(g).waiting /\ NewRuntime(g).gen = g
           /\ ~NewRuntime(g).flag
BY DEF NewRuntime

\* The handlers keep what is known about the runtime.
LEMMA HandlerRuntime ==
    ASSUME Exclusive, TypeOK, TurnInv, ProcInv, RuntimeInv, Handler \/ HandleInvoke
    PROVE  RuntimeInv'
<1> USE DEF TypeOK, FlowType, RuntimeType, HandlerType, ProcType, hdlVars, procVars, partyVars, flowVars, Return
<1>g. gate'["restoreReady"] = gate["restoreReady"]
  BY HandlerGates
<1>c. ~Clearing /\ Clearing' = Clearing
  BY HandlerFrame DEF TurnInv, Clearing, HandleInvoke, downVars
<1>1. CASE HandleInit
  <2>1. UNCHANGED <<runtime, regOn, alive, initDone, panicked>> /\ pc = "new" /\ pc' \in {"idle", "extensions"}
    BY <1>1 DEF HandleInit, BeginInit
  <2> QED
    BY <1>g, <1>c, <2>1 DEF RuntimeInv, RuntimeUp, Later
<1>2. CASE HandleInvoke
  <2>1. /\ UNCHANGED <<runtime, regOn, alive, initDone, panicked>> /\ pc = "idle"
        /\ IF initDone THEN pc' = "barriers" ELSE pc' \in {"idle", "extensions"}
    BY <1>2 DEF HandleInvoke, BeginInit, MutexFree
  <2> QED
    BY <1>g, <1>c, <2>1 DEF RuntimeInv, RuntimeUp, Later
<1>3. ASSUME NEW a \in ExtAgents, LaunchExtension(a) PROVE RuntimeInv'
  <2>1. /\ UNCHANGED <<runtime, regOn, initDone, panicked>> /\ pc = "extensions"
        /\ pc' \in {"idle", "extChannel"}
    BY <1>3 DEF LaunchExtension
  <2>2. RuntimeUp' => RuntimeUp
    <3>1. alive' = alive \/ alive' = alive \cup {<<a, gen>>}
      BY <1>3 DEF LaunchExtension
    <3>2. a # Rt
      BY DomainAssumption DEF Agents
    <3> QED
      BY <2>1, <3>1, <3>2 DEF RuntimeUp
  <2> QED
    BY <1>g, <1>c, <2>1, <2>2 DEF RuntimeInv, Later
<1>4. ASSUME NEW a \in ExtAgents, ExtensionChannel(a) PROVE RuntimeInv'
  BY <1>4, <1>g, <1>c DEF ExtensionChannel, CreateExitedChannel, RuntimeInv, RuntimeUp, Later
<1>5. CASE AwaitExternalAgentsRegistered
  BY <1>5, <1>g, <1>c DEF AwaitExternalAgentsRegistered, Await, RuntimeInv, RuntimeUp, Later
<1>6. CASE LaunchRuntime
  <2>1. UNCHANGED <<regOn, initDone, panicked>> /\ pc = "runtime"
    BY <1>6 DEF LaunchRuntime
  <2>2. CASE ~regOn
    BY <1>6, <1>g, <1>c, <2>1, <2>2 DEF LaunchRuntime, RuntimeInv, RuntimeUp, Later
  <2>3. CASE regOn
    <3>1. /\ runtime' = NewRuntime(gen)
          /\ (pc' = "rtChannel" \/ (pc' = "idle" /\ alive' = alive))
      BY <1>6, <2>3 DEF LaunchRuntime
    <3>2. gate["restoreReady"].arrived = 0 \/ gate["restoreReady"].canceled
      BY <1>c, <2>1, <2>3 DEF RuntimeInv
    <3>3. ~initDone /\ gate["restoreReady"].count = 1 /\ panicked # "nilRuntime"
      BY <2>3 DEF RuntimeInv
    <3>4. pc' = "idle" => ~RuntimeUp'
      BY <2>1, <3>1, NewRuntimeFields DEF ProcInv, RuntimeUp
    <3>5. runtime'.state = "Started" /\ ~runtime'.waiting
      BY <3>1, NewRuntimeFields
    <3> QED
      BY <1>g, <1>c, <2>1, <3>1, <3>2, <3>3, <3>4, <3>5 DEF RuntimeInv, Early, Later
  <2> QED
    BY <2>2, <2>3
<1>7. CASE RuntimeChannel
  BY <1>7, <1>g, <1>c DEF RuntimeChannel, CreateExitedChannel, RuntimeInv, RuntimeUp, Later
<1>8. CASE AwaitRuntimeRestoreReady
  <2>1. UNCHANGED <<runtime, initDone, alive, panicked>> /\ pc = "awaitRuntime" /\ Passable(gate["restoreReady"])
    BY <1>8 DEF AwaitRuntimeRestoreReady
  <2>2. CASE gate["restoreReady"].canceled
    <3>1. pc' = "idle" /\ regOn' = regOn
      BY <1>8, <2>2 DEF AwaitRuntimeRestoreReady
    <3> QED
      BY <1>g, <1>c, <2>1, <2>2, <3>1 DEF RuntimeInv, Later
  <2>3. CASE ~gate["restoreReady"].canceled
    <3>1. regOn' = FALSE /\ pc' \in {"idle", "awaitAgents"}
      BY <1>8, <2>3 DEF AwaitRuntimeRestoreReady
    <3>2. gate["restoreReady"].arrived = 1
      BY <2>1, <2>3 DEF Passable, RuntimeInv
    <3>3. runtime.state \notin Early
      BY <1>c, <2>3, <3>2 DEF RuntimeInv
    <3> QED
      BY <1>g, <1>c, <2>1, <3>1, <3>3 DEF RuntimeInv, Later
  <2> QED
    BY <2>2, <2>3
<1>9. CASE InitAwaitAgentsReady
  <2>1. /\ UNCHANGED <<runtime, regOn, alive, panicked>> /\ pc = "awaitAgents"
        /\ (pc' = "idle" \/ (pc' = "barriers" /\ initDone'))
    BY <1>9 DEF InitAwaitAgentsReady
  <2> QED
    BY <1>g, <1>c, <2>1 DEF RuntimeInv, RuntimeUp, Later
<1>10. CASE ReleaseParties
  <2>1. /\ UNCHANGED <<regOn, initDone, alive>> /\ pc = "barriers" /\ pc' \in {"idle", "awaitResponse"}
        /\ initDone /\ ~regOn /\ runtime.state \notin Early
    BY <1>10 DEF ReleaseParties, RuntimeInv, Later
  <2>2. runtime.state # "nil"
    BY <2>1 DEF Early
  <2>3. UNCHANGED panicked /\ runtime' \in {runtime, [runtime EXCEPT !.flag = TRUE]}
    BY <1>10, <2>2 DEF ReleaseParties
  <2>4. runtime'.state = runtime.state
    BY <2>3 DEF RuntimeRec
  <2> QED
    BY <1>g, <1>c, <2>1, <2>3, <2>4 DEF RuntimeInv, Later
<1>11. CASE AwaitRuntimeResponse
  BY <1>11, <1>g, <1>c DEF AwaitRuntimeResponse, Await, RuntimeInv, RuntimeUp, Later
<1>12. CASE AwaitRuntimeReady \/ InvokeAwaitAgentsReady
  <2>1. /\ UNCHANGED <<runtime, regOn, initDone, alive>> /\ pc \in {"awaitReady", "awaitInvokeAgents"}
        /\ pc' \in {"idle", "awaitInvokeAgents"}
    BY <1>12 DEF AwaitRuntimeReady, InvokeAwaitAgentsReady, InvokeSucceeds
  <2>2. runtime.state # "nil"
    BY <2>1 DEF RuntimeInv, Early, Later
  <2>3. panicked' = panicked
    BY <1>12, <2>2 DEF AwaitRuntimeReady, InvokeAwaitAgentsReady, InvokeSucceeds
  <2> QED
    BY <1>g, <1>c, <2>1, <2>3 DEF RuntimeInv, RuntimeUp, Later
<1> QED
  BY <1>1, <1>2, <1>3, <1>4, <1>5, <1>6, <1>7, <1>8, <1>9, <1>10, <1>11, <1>12 DEF Handler

\* The requests of the Runtime API keep it.
LEMMA PartyRuntime ==
    ASSUME TypeOK, RuntimeInv, PartyStep
    PROVE  RuntimeInv'
<1> USE DEF TypeOK, FlowType, RuntimeType
<1>f. UNCHANGED <<regOn, pc, initDone, alive, panicked, rpc>> /\ (Clearing' <=> Clearing)
  BY PartyFrame DEF Clearing
<1>g. gate["restoreReady"] \in Gate /\ "restoreReady" \in GateNames
  BY DEF GateNames, InitGates
<1>1. CASE RuntimeNext /\ StartedReady
  <2>1. gate'["restoreReady"] \in {gate["restoreReady"], WalkThrough(gate["restoreReady"])}
    BY <1>1, <1>g, PartyGates
  <2>2. /\ gate'["restoreReady"].count = 1
        /\ gate'["restoreReady"].canceled = gate["restoreReady"].canceled
    BY <1>g, <2>1, GateNumbers, WalkThroughType DEF RuntimeInv
  <2>3. runtime'.state = "Ready" /\ RuntimeUp
    BY <1>1 DEF RuntimeNext, StartedReady, RuntimeRec
  <2> QED
    BY <1>f, <2>2, <2>3 DEF RuntimeInv, Early
<1>2. ASSUME ~(RuntimeNext /\ StartedReady) PROVE gate'["restoreReady"] = gate["restoreReady"]
  BY <1>2, <1>g, PartyGates
<1>3. ASSUME gate'["restoreReady"] = gate["restoreReady"], runtime.state \notin Early,
             runtime'.state \notin Early
      PROVE  RuntimeInv'
  BY <1>3, <1>f DEF RuntimeInv, Early
<1>4. CASE RuntimeNext /\ (ResponseSentReady \/ ReadyReady)
  <2>1. runtime.state \notin Early /\ runtime'.state \notin Early /\ ~(RuntimeNext /\ StartedReady)
    BY <1>4 DEF ResponseSentReady, ReadyReady, StartedReady, RuntimeRec, Early
  <2> QED
    BY <1>2, <1>3, <2>1
<1>5. CASE RuntimeResume
  <2>1. runtime.state \notin Early /\ runtime'.state \notin Early
    BY <1>5 DEF RuntimeResume, RuntimeRec, RuntimeInv, Early
  <2>2. ~(RuntimeNext /\ StartedReady)
    BY <2>1 DEF StartedReady, Early
  <2> QED
    BY <1>2, <1>3, <2>1, <2>2
<1>6. CASE RuntimeRespond \/ RuntimeRespondRefused \/ RuntimeResponseSent
  <2>1. runtime.state \notin Early /\ runtime'.state \notin Early
    BY <1>6 DEF RuntimeRespond, RuntimeRespondRefused, Respond, RuntimeResponseSent, RuntimeRec, Early
  <2>2. ~(RuntimeNext /\ StartedReady)
    BY <2>1 DEF StartedReady, Early
  <2> QED
    BY <1>2, <1>3, <2>1, <2>2
<1>7. CASE RuntimeInitError
  <2>1. /\ UNCHANGED gate /\ runtime.state = "Started" /\ runtime'.state = "InitError"
        /\ runtime'.waiting = runtime.waiting /\ runtime'.gen = runtime.gen
    BY <1>7 DEF RuntimeInitError, RuntimeRec, flowVars
  <2> QED
    BY <1>f, <2>1 DEF RuntimeInv, RuntimeUp, Early, Later
<1>8. CASE UNCHANGED runtime
  <2>1. ~(RuntimeNext /\ StartedReady)
    BY <1>8 DEF StartedReady, RuntimeRec
  <2> QED
    BY <1>2, <1>8, <1>f, <2>1, RuntimeKept DEF RuntimeInv
<1> QED
  BY <1>1, <1>4, <1>5, <1>6, <1>7, <1>8 DEF PartyStep, RuntimeNext, StaleResponseSent, RegisterExternal,
     RegisterInternal, AgentNext, AgentResume, AgentError, partyVars

\* Every step keeps it.
LEMMA RuntimeStep ==
    ASSUME Exclusive, TypeOK, TurnInv, ProcInv, RuntimeInv, [Next]_vars
    PROVE  RuntimeInv'
<1> USE DEF TypeOK, FlowType, RuntimeType, ProcType, DownType, hdlVars, procVars, partyVars, flowVars
<1>g. gate["restoreReady"] \in Gate /\ "restoreReady" \in GateNames
  BY DEF GateNames, InitGates
<1>1. CASE Handler \/ HandleInvoke
  BY <1>1, HandlerRuntime
<1>2. CASE PartyStep
  BY <1>2, PartyRuntime
<1>3. CASE \/ \E p \in alive : ProcessExit(p)
           \/ \E p \in exits : WatchEvent(p)
           \/ HandleProcessExit \/ WatcherCancelFlows
  <2>1. alive' \subseteq alive /\ panicked' # "nilRuntime"
    <3>1. ASSUME NEW p \in alive, ProcessExit(p)
          PROVE  alive' \subseteq alive /\ panicked' # "nilRuntime"
      BY <3>1 DEF ProcessExit, RuntimeInv
    <3>2. ASSUME NEW p \in exits, WatchEvent(p)
          PROVE  alive' \subseteq alive /\ panicked' # "nilRuntime"
      BY <3>2 DEF WatchEvent, RuntimeInv
    <3>3. CASE HandleProcessExit \/ WatcherCancelFlows
      BY <3>3 DEF HandleProcessExit, WatcherCancelFlows, RuntimeInv
    <3> QED
      BY <1>3, <3>1, <3>2, <3>3
  <2>2. /\ gate'["restoreReady"].count = gate["restoreReady"].count
        /\ gate'["restoreReady"].arrived = gate["restoreReady"].arrived
        /\ gate["restoreReady"].canceled => gate'["restoreReady"].canceled
    BY <1>3, <1>g, WatcherFrame, CancelNumbers
  <2>3. UNCHANGED <<runtime, regOn, pc, initDone>> /\ (Clearing => Clearing')
    BY <1>3, WatcherFrame DEF Clearing
  <2> QED
    BY <2>1, <2>2, <2>3, RuntimeKept
<1>4. ASSUME NEW r \in Resetters, ResetStep(r) PROVE RuntimeInv'
  <2>f. UNCHANGED <<pc, panicked>> /\ \A s \in Resetters : s # r => rpc'[s] = rpc[s]
    BY <1>4, ResetFrame
  <2>1. CASE BeginReset(r)
    <3>1. UNCHANGED <<runtime, regOn, initDone, alive>> /\ CancelFlows("reset") /\ rpc[r] = "idle"
      BY <2>1 DEF BeginReset
    <3>2. Clearing => Clearing'
      BY <2>f, <3>1 DEF Clearing
    <3> QED
      BY <1>g, <2>f, <3>1, <3>2, CancelNumbers, RuntimeKept DEF CancelErrors, RuntimeInv
  <2>2. CASE BeginShutdown(r) \/ ShutdownBegin(r) \/ ShutdownRuntime(r)
    <3>1. UNCHANGED <<runtime, regOn, initDone, gate>> /\ alive' \subseteq alive /\ rpc[r] # "clearGates"
      BY <2>2 DEF BeginShutdown, ShutdownBegin, ShutdownRuntime, Kill
    <3>2. Clearing => Clearing'
      BY <2>f, <3>1 DEF Clearing
    <3> QED
      BY <2>f, <3>1, <3>2, RuntimeKept DEF RuntimeInv
  <2>3. CASE ShutdownAgents(r) \/ ShutdownAgentsDeadline(r) \/ ClearExitedChannel(r)
    <3>1. UNCHANGED <<runtime, regOn, initDone, gate>> /\ alive' \subseteq alive /\ rpc[r] # "clearGates"
      BY <2>3 DEF ShutdownAgents, ShutdownAgentsDeadline, ClearExitedChannel, Kill
    <3>2. Clearing => Clearing'
      BY <2>f, <3>1 DEF Clearing
    <3> QED
      BY <2>f, <3>1, <3>2, RuntimeKept DEF RuntimeInv
  <2>4. CASE ClearRegistrations(r)
    <3>1. /\ gate' = gate /\ runtime' = NilRuntime /\ ~initDone' /\ rpc[r] = "clear" /\ rpc'[r] = "clearGates"
      BY <2>4 DEF ClearRegistrations, RegistrationsCleared
    <3>2. pc = "idle" /\ Clearing'
      BY <3>1 DEF TurnInv, Clearing
    <3> QED
      BY <2>f, <3>1, <3>2, EmptyRecords DEF RuntimeInv, RuntimeUp, Early, Later
  <2>5. CASE ClearGates(r)
    <3>1. UNCHANGED <<runtime, regOn, initDone>> /\ gate'["restoreReady"] = Clear(gate["restoreReady"])
      BY <1>g, <2>5 DEF ClearGates
    <3>2. rpc[r] = "clearGates"
      BY <2>5 DEF ClearGates
    <3>3. runtime.state = "nil" /\ pc = "idle" /\ ~initDone /\ ~runtime.waiting
      BY <3>2 DEF TurnInv, Clearing, Nobody
    <3>4. gate'["restoreReady"].count = 1 /\ gate'["restoreReady"].arrived = 0
      BY <1>g, <3>1, GateNumbers DEF RuntimeInv
    <3> QED
      BY <2>f, <3>1, <3>3, <3>4 DEF RuntimeInv, RuntimeUp, Early, Later
  <2> QED
    BY <1>4, <2>1, <2>2, <2>3, <2>4, <2>5 DEF ResetStep
<1>5. CASE UNCHANGED vars
  BY <1>5, RuntimeKept DEF vars, downVars, Clearing, RuntimeInv
<1> QED
  BY <1>1, <1>2, <1>3, <1>4, <1>5, StepCases DEF ResetStep

-----------------------------------------------------------------------------
(* The extensions and the gates at which the handlers count them. *)

\* The ways from one state of an agent to another, Clear apart (agentstate.go).
AgentMove(s, t) ==
    \/ t = s \/ (s = "none" /\ regOn /\ t \in {"Started", "LaunchError", "Registered"})
    \/ (s = "Started" /\ t = "Registered")
    \/ (s = "Registered" /\ t \in {"Ready", "InitError", "ExitError"})
    \/ (s \in {"Ready", "Running"} /\ t \in {"Ready", "Running", "ExitError", "Exited", "ShutdownFailed"})

\* An agent goes no other way (agentstate.go).
LEMMA AgentMoves ==
    ASSUME TypeOK, [Next]_vars, \A r \in Resetters : ~ClearRegistrations(r), NEW b \in Agents
    PROVE  AgentMove(agent[b].state, agent'[b].state)
<1> USE DEF TypeOK, AgentType, AgentMove
<1>0. agent[b] \in AgentRec
  OBVIOUS
<1>1. CASE UNCHANGED agent
  BY <1>1
<1>2. ASSUME NEW a \in ExtAgents, LaunchExtension(a) PROVE AgentMove(agent[b].state, agent'[b].state)
  <2>1. a \in Agents
    BY DEF Agents
  <2>2. CASE agent' = [agent EXCEPT ![a] = NewAgent(gen)] /\ MayCreateExternal(a)
    BY <1>0, <2>1, <2>2 DEF MayCreateExternal, NewAgent
  <2>3. CASE agent' = [agent EXCEPT ![a] = [NewAgent(gen) EXCEPT !.state = "LaunchError"]] /\ MayCreateExternal(a)
    BY <1>0, <2>1, <2>3 DEF MayCreateExternal, NewAgent
  <2> QED
    BY <1>1, <1>2, <2>2, <2>3 DEF LaunchExtension
<1>3. CASE ReleaseParties
  <2>1. UNCHANGED agent \/ agent' = Release(Subscribed("INVOKE"))
    BY <1>3 DEF ReleaseParties
  <2> QED
    BY <1>0, <1>1, <2>1 DEF Release, AgentRec
<1>4. ASSUME NEW a \in Agents, RegisterExternal(a) PROVE AgentMove(agent[b].state, agent'[b].state)
  BY <1>0, <1>4 DEF RegisterExternal, StartedRegister, AgentRec
<1>5. ASSUME NEW a \in Agents, RegisterInternal(a) PROVE AgentMove(agent[b].state, agent'[b].state)
  <2>1. PICK subs \in SUBSET InternalEvents :
          agent' = [agent EXCEPT ![a] = [NewAgent(runtime.gen) EXCEPT !.state = "Registered",
                                                                     !.subs = subs]]
    BY <1>5 DEF RegisterInternal
  <2>2. MayCreateInternal(a)
    BY <1>5 DEF RegisterInternal
  <2> QED
    BY <1>0, <2>1, <2>2 DEF MayCreateInternal, NewAgent
<1>6. ASSUME NEW a \in Agents, AgentNext(a) PROVE AgentMove(agent[b].state, agent'[b].state)
  BY <1>0, <1>6 DEF AgentNext, AgentRec
<1>7. ASSUME NEW a \in Agents, AgentResume(a) PROVE AgentMove(agent[b].state, agent'[b].state)
  BY <1>0, <1>7 DEF AgentResume, AgentRec
<1>8. ASSUME NEW a \in Agents, AgentError(a) PROVE AgentMove(agent[b].state, agent'[b].state)
  BY <1>0, <1>8 DEF AgentError, AgentInitError, AgentExitError, AgentRec
<1>9. CASE HandleProcessExit
  <2>1. PICK final \in {"Exited", "ShutdownFailed"} :
           agent' = [a \in Agents |->
              IF a \in awaiting /\ watch.ev = <<a, agent[a].gen>> /\ agent[a].state = "Running"
              THEN [agent[a] EXCEPT !.state = final] ELSE agent[a]]
    BY <1>9 DEF HandleProcessExit
  <2> QED
    BY <1>0, <2>1 DEF AgentRec
<1>10. ASSUME NEW r \in Resetters, ShutdownAgents(r) PROVE AgentMove(agent[b].state, agent'[b].state)
  <2>1. agent' = Release(awaiting')
    BY <1>10 DEF ShutdownAgents
  <2> QED
    BY <1>0, <2>1 DEF Release, AgentRec
<1>11. CASE HandleInit \/ HandleInvoke
  BY <1>1, <1>11 DEF HandleInit, HandleInvoke, partyVars
<1>12. CASE Handler
  BY <1>1, <1>2, <1>3, <1>11, <1>12 DEF Handler, ExtensionChannel, LaunchRuntime, RuntimeChannel, AwaitExternalAgentsRegistered,
     AwaitRuntimeRestoreReady, InitAwaitAgentsReady, AwaitRuntimeResponse, AwaitRuntimeReady,
     InvokeAwaitAgentsReady, partyVars
<1>13. CASE PartyStep
  BY <1>1, <1>4, <1>5, <1>6, <1>7, <1>8, <1>13 DEF PartyStep, RuntimeNext, RuntimeResume, RuntimeRespond,
     RuntimeRespondRefused, Respond, RuntimeResponseSent, StaleResponseSent, RuntimeInitError, partyVars
<1>14. CASE (\E p \in alive : ProcessExit(p)) \/ (\E p \in exits : WatchEvent(p)) \/ WatcherCancelFlows
  BY <1>1, <1>14 DEF ProcessExit, WatchEvent, WatcherCancelFlows, partyVars
<1>15. ASSUME NEW r \in Resetters, ResetStep(r) PROVE AgentMove(agent[b].state, agent'[b].state)
  BY <1>1, <1>10, <1>15 DEF ResetStep, BeginReset, BeginShutdown, ShutdownBegin, ShutdownRuntime,
     ShutdownAgentsDeadline, ClearExitedChannel, ClearGates, partyVars
<1>16. CASE UNCHANGED vars
  BY <1>1, <1>16 DEF vars, partyVars
<1> HIDE DEF AgentMove
<1> QED
  BY <1>9, <1>11, <1>12, <1>13, <1>14, <1>15, <1>16, StepCases DEF ResetStep

\* The extensions that have passed the gates of the init flow, at the most.
Waiting == {"none", "Started", "Registered", "InitError", "LaunchError"}
Arrived == {a \in Agents : agent[a].state \notin Waiting}
Known   == {a \in ExtAgents : agent[a].state \notin {"none", "Started", "LaunchError"}}

AgentsInv ==
    /\ gate["extRegistered"].arrived <= Cardinality(Known) \/ Clearing
    /\ gate["initAgents"].arrived <= Cardinality(Arrived) \/ Clearing
    /\ pc = "awaitAgents" => gate["initAgents"].count = CountAgents
    /\ initDone => Registered \subseteq Arrived

\* Until a Clear nobody is forgotten, and with registrations closed nobody is added.
LEMMA AgentsGrow ==
    ASSUME TypeOK, [Next]_vars, \A r \in Resetters : ~ClearRegistrations(r)
    PROVE  /\ Known \subseteq Known' /\ Arrived \subseteq Arrived'
           /\ Registered \subseteq Registered' /\ (~regOn => Registered' = Registered)
<1>1. \A b \in Agents : AgentMove(agent[b].state, agent'[b].state)
  BY AgentMoves
<1>2. \A a \in ExtAgents : a \in Agents
  BY DEF Agents
<1> QED
  BY <1>1, <1>2 DEF AgentMove, Known, Arrived, Waiting, Registered

\* A part of the agents is no larger than the whole, and equal to it if as large.
LEMMA CountMonotone ==
    ASSUME NEW S \in SUBSET Agents, NEW T \in SUBSET S
    PROVE  /\ Cardinality(S) \in Nat /\ Cardinality(T) \in Nat /\ Cardinality(T) <= Cardinality(S)
           /\ Cardinality(S) = Cardinality(T) => S = T
BY DomainAssumption, FS_CardinalityType, FS_Subset

\* ... and smaller by one at least if it lacks somebody.
LEMMA CountOneMore ==
    ASSUME NEW S \in SUBSET Agents, NEW T \in SUBSET S, NEW x \in S, x \notin T
    PROVE  Cardinality(T) + 1 <= Cardinality(S)
<1>1. IsFiniteSet(S) /\ IsFiniteSet(T)
  BY DomainAssumption, FS_Subset
<1>2. Cardinality(T \cup {x}) = Cardinality(T) + 1
  BY <1>1, FS_AddElement
<1>3. Cardinality(T \cup {x}) <= Cardinality(S)
  BY <1>1, FS_Subset
<1> QED
  BY <1>2, <1>3

\* Who makes the numbers of the agents' gates of the init flow move.
LEMMA InitArrivals ==
    ASSUME TypeOK, [Next]_vars, \A r \in Resetters : ~ClearGates(r)
    PROVE  /\ \/ gate'["extRegistered"].arrived = gate["extRegistered"].arrived
              \/ /\ \E a \in ExtAgents : RegisterExternal(a)
                 /\ gate'["extRegistered"].arrived <= gate["extRegistered"].arrived + 1
           /\ \/ gate'["initAgents"].arrived = gate["initAgents"].arrived
              \/ /\ \E a \in Agents : AgentNext(a) /\ agent[a].state = "Registered"
                 /\ gate'["initAgents"].arrived <= gate["initAgents"].arrived + 1
           /\ gate'["initAgents"].count = gate["initAgents"].count \/ AwaitRuntimeRestoreReady
<1> USE DEF TypeOK, FlowType
<1>g. /\ "extRegistered" \in GateNames /\ gate["extRegistered"] \in Gate
      /\ "initAgents" \in GateNames /\ gate["initAgents"] \in Gate
  BY DEF GateNames, InitGates
<1>1. CASE Handler \/ HandleInvoke
  BY <1>1, HandlerGates
<1>2. CASE PartyStep
  BY <1>2, <1>g, PartyGates, GateNumbers
<1>3. CASE \E e \in CancelErrors : CancelFlows(e)
  BY <1>3, <1>g, CancelNumbers
<1>4. CASE UNCHANGED gate
  BY <1>4
<1>5. CASE \/ \E p \in alive : ProcessExit(p)
           \/ \E p \in exits : WatchEvent(p)
           \/ HandleProcessExit \/ WatcherCancelFlows
  BY <1>3, <1>4, <1>5, WatcherFrame
<1>6. ASSUME NEW r \in Resetters, ResetStep(r) PROVE UNCHANGED gate \/ CancelFlows("reset")
  BY <1>6 DEF ResetStep, BeginReset, BeginShutdown, ShutdownBegin, ShutdownRuntime, ShutdownAgents,
     ShutdownAgentsDeadline, ClearExitedChannel, ClearRegistrations, RegistrationsCleared, flowVars
<1>7. CASE UNCHANGED vars
  BY <1>4, <1>7 DEF vars, flowVars
<1> QED
  BY <1>1, <1>2, <1>3, <1>4, <1>5, <1>6, <1>7, StepCases DEF ResetStep, CancelErrors

\* Only reinitialize begins and ends the time between the two Clears.
LEMMA ClearingKept ==
    ASSUME TypeOK, [Next]_vars, \A r \in Resetters : ~ClearRegistrations(r) /\ ~ClearGates(r)
    PROVE  Clearing' <=> Clearing
<1>1. ASSUME NEW r \in Resetters, BeginReset(r) \/ BeginShutdown(r) \/ Resetter(r) PROVE Clearing' <=> Clearing
  <2>1. ResetStep(r) /\ rpc[r] \notin {"clear", "clearGates"}
    BY <1>1 DEF ResetStep, Resetter, BeginReset, BeginShutdown, ShutdownBegin, ShutdownRuntime,
       ShutdownAgents, ShutdownAgentsDeadline, ClearExitedChannel
  <2>2. rpc'[r] # "clearGates" /\ \A s \in Resetters : s # r => rpc'[s] = rpc[s]
    BY <2>1, ResetFrame DEF TypeOK, DownType, ResetPlaces
  <2> QED
    BY <2>1, <2>2 DEF Clearing
<1> QED
  BY <1>1, DownStep DEF Clearing

\* Every step keeps what is known about the extensions at the gates of the init flow.
LEMMA AgentsStep ==
    ASSUME Exclusive, TypeOK, TurnInv, RuntimeInv, AgentsInv, [Next]_vars
    PROVE  AgentsInv'
<1> USE DEF TypeOK, FlowType, HandlerType
<1>g. /\ gate["extRegistered"] \in Gate /\ gate["initAgents"] \in Gate
      /\ "extRegistered" \in GateNames /\ "initAgents" \in GateNames
  BY DEF GateNames, InitGates
<1>n. /\ gate["extRegistered"].arrived \in Nat /\ gate["initAgents"].arrived \in Nat
  BY <1>g DEF Gate
<1>t. gate'["extRegistered"].arrived \in Nat /\ gate'["initAgents"].arrived \in Nat
  BY <1>g, TypeStep DEF Gate
<1>s. /\ Known \in SUBSET Agents /\ Arrived \in SUBSET Agents /\ Registered \in SUBSET Agents
      /\ Known' \in SUBSET Agents /\ Arrived' \in SUBSET Agents /\ Registered' \in SUBSET Agents
  BY DEF Known, Arrived, Registered, Agents
<1>1. ASSUME NEW r \in Resetters, ClearRegistrations(r) PROVE AgentsInv'
  <2>1. Clearing' /\ ~initDone' /\ pc' = "idle"
    BY <1>1 DEF ClearRegistrations, RegistrationsCleared, Clearing, TurnInv, DownType
  <2> QED
    BY <2>1 DEF AgentsInv
<1>2. ASSUME NEW r \in Resetters, ClearGates(r) PROVE AgentsInv'
  <2>1. UNCHANGED <<pc, initDone>> /\ pc = "idle" /\ ~initDone
    BY <1>2 DEF ClearGates, hdlVars, TurnInv, Clearing
  <2>2. gate'["extRegistered"].arrived = 0 /\ gate'["initAgents"].arrived = 0
    BY <1>2, <1>g, GateNumbers DEF ClearGates
  <2>3. Cardinality(Known') \in Nat /\ Cardinality(Arrived') \in Nat
    BY <1>s, CountMonotone
  <2> QED
    BY <2>1, <2>2, <2>3 DEF AgentsInv
<1>3. ASSUME \A r \in Resetters : ~ClearRegistrations(r) /\ ~ClearGates(r) PROVE AgentsInv'
  <2>1. /\ Known \subseteq Known' /\ Arrived \subseteq Arrived' /\ Registered \subseteq Registered'
        /\ ~regOn => Registered' = Registered
    BY <1>3, AgentsGrow
  <2>2. Clearing' <=> Clearing
    BY <1>3, ClearingKept
  <2>3. gate'["extRegistered"].arrived <= Cardinality(Known') \/ Clearing'
    <3>1. CASE gate'["extRegistered"].arrived = gate["extRegistered"].arrived
      BY <1>n, <1>s, <2>1, <2>2, <3>1, CountMonotone DEF AgentsInv
    <3>2. ASSUME NEW a \in ExtAgents, RegisterExternal(a),
                 gate'["extRegistered"].arrived <= gate["extRegistered"].arrived + 1
          PROVE  gate'["extRegistered"].arrived <= Cardinality(Known') \/ Clearing'
      <4>1. a \in Known' /\ a \notin Known
        BY <3>2 DEF RegisterExternal, StartedRegister, Known, AgentType, AgentRec, Agents
      <4>2. Cardinality(Known) + 1 <= Cardinality(Known')
        BY <1>s, <2>1, <4>1, CountOneMore
      <4>3. Cardinality(Known) \in Nat /\ Cardinality(Known') \in Nat
        BY <1>s, CountMonotone
      <4> QED
        BY <1>n, <1>t, <2>2, <3>2, <4>2, <4>3 DEF AgentsInv
    <3> QED
      BY <1>3, <3>1, <3>2, InitArrivals
  <2>4. gate'["initAgents"].arrived <= Cardinality(Arrived') \/ Clearing'
    <3>1. CASE gate'["initAgents"].arrived = gate["initAgents"].arrived
      BY <1>n, <1>s, <2>1, <2>2, <3>1, CountMonotone DEF AgentsInv
    <3>2. ASSUME NEW a \in Agents, AgentNext(a), agent[a].state = "Registered",
                 gate'["initAgents"].arrived <= gate["initAgents"].arrived + 1
          PROVE  gate'["initAgents"].arrived <= Cardinality(Arrived') \/ Clearing'
      <4>1. a \in Arrived' /\ a \notin Arrived
        BY <3>2 DEF AgentNext, Arrived, Waiting, AgentType, AgentRec
      <4>2. Cardinality(Arrived) + 1 <= Cardinality(Arrived')
        BY <1>s, <2>1, <4>1, CountOneMore
      <4>3. Cardinality(Arrived) \in Nat /\ Cardinality(Arrived') \in Nat
        BY <1>s, CountMonotone
      <4> QED
        BY <1>n, <1>t, <2>2, <3>2, <4>2, <4>3 DEF AgentsInv
    <3> QED
      BY <1>3, <3>1, <3>2, InitArrivals
  <2>5. CASE AwaitRuntimeRestoreReady
    <3>1. initDone' = initDone /\ agent' = agent /\ (pc' = "awaitAgents" => gate'["initAgents"].count = CountAgents)
      BY <1>g, <2>5, GateNumbers, CountType DEF AwaitRuntimeRestoreReady, Return
    <3>2. Registered' = Registered /\ CountAgents' = CountAgents
      BY <3>1 DEF Registered, CountAgents
    <3> QED
      BY <2>1, <2>3, <2>4, <3>1, <3>2 DEF AgentsInv
  <2>6. CASE InitAwaitAgentsReady
    <3>1. agent' = agent /\ pc = "awaitAgents" /\ pc' # "awaitAgents" /\ Passable(gate["initAgents"])
      BY <2>6 DEF InitAwaitAgentsReady, Return, partyVars
    <3>2. Registered' = Registered /\ Arrived' = Arrived
      BY <3>1 DEF Registered, Arrived
    <3>3. ASSUME initDone' PROVE Registered \subseteq Arrived
      <4>1. CASE initDone
        BY <4>1 DEF AgentsInv
      <4>2. CASE ~initDone
        <5>1. gate["initAgents"].arrived = gate["initAgents"].count
          BY <2>6, <3>1, <3>3, <4>2 DEF InitAwaitAgentsReady, Passable
        <5>2. ~Clearing
          BY <3>1 DEF TurnInv, Clearing
        <5>3. Cardinality(Registered) <= Cardinality(Arrived)
          BY <3>1, <5>1, <5>2 DEF AgentsInv, CountAgents
        <5>4. Arrived \in SUBSET Registered
          BY DEF Arrived, Registered, Waiting
        <5>5. Cardinality(Registered) = Cardinality(Arrived)
          BY <1>s, <5>3, <5>4, CountMonotone
        <5> QED
          BY <1>s, <5>4, <5>5, CountMonotone
      <4> QED
        BY <4>1, <4>2
    <3> QED
      BY <2>3, <2>4, <3>1, <3>2, <3>3 DEF AgentsInv
  <2>7. CASE ~AwaitRuntimeRestoreReady /\ ~InitAwaitAgentsReady
    <3>1. (pc' = "awaitAgents" => pc = "awaitAgents") /\ (initDone' => initDone)
      <4> USE DEF hdlVars, Return
      <4>1. CASE HandleInit \/ HandleInvoke
        BY <4>1 DEF HandleInit, HandleInvoke, BeginInit
      <4>2. CASE \E a \in ExtAgents : LaunchExtension(a) \/ ExtensionChannel(a)
        BY <4>2 DEF LaunchExtension, ExtensionChannel
      <4>5. CASE LaunchRuntime \/ RuntimeChannel \/ AwaitExternalAgentsRegistered
        BY <4>5 DEF LaunchRuntime, RuntimeChannel, AwaitExternalAgentsRegistered, Await
      <4>6. CASE ReleaseParties \/ AwaitRuntimeResponse
        BY <4>6 DEF ReleaseParties, AwaitRuntimeResponse, Await
      <4>7. CASE AwaitRuntimeReady \/ InvokeAwaitAgentsReady
        BY <4>7 DEF AwaitRuntimeReady, InvokeAwaitAgentsReady, InvokeSucceeds
      <4>8. CASE Handler
        BY <2>7, <4>1, <4>2, <4>5, <4>6, <4>7, <4>8, Zenon DEF Handler
      <4>3. ASSUME NEW r \in Resetters, ResetStep(r) PROVE pc' = pc /\ initDone' = initDone
        BY <1>3, <4>3 DEF ResetStep, BeginReset, BeginShutdown, ShutdownBegin, ShutdownRuntime, ShutdownAgents,
           ShutdownAgentsDeadline, ClearExitedChannel
      <4>4. CASE UNCHANGED vars
        BY <4>4 DEF vars
      <4> QED
        BY <4>1, <4>8, <4>3, <4>4, StepCases, PartyFrame, WatcherFrame DEF ResetStep
    <3>2. ASSUME initDone' \/ pc' = "awaitAgents" PROVE Registered' = Registered /\ CountAgents' = CountAgents
      <4>1. ~regOn
        BY <3>1, <3>2 DEF RuntimeInv, Later
      <4> QED
        BY <2>1, <4>1 DEF CountAgents
    <3>3. gate'["initAgents"].count = gate["initAgents"].count
      BY <1>3, <2>7, InitArrivals
    <3> QED
      BY <2>1, <2>3, <2>4, <3>1, <3>2, <3>3 DEF AgentsInv
  <2> QED
    BY <2>5, <2>6, <2>7
<1> QED
  BY <1>1, <1>2, <1>3

-----------------------------------------------------------------------------
(* The counts that the handlers give to the agents' gates. *)

\* No extension has been given an event and may come back to the invoke flow's gate.
Quiet == /\ gate["invokeAgents"].arrived = 0
         /\ \A a \in Agents : ~agent[a].flag /\ agent[a].state # "Running"

\* A reset that has released the extensions and will drop them.
Ending == \E r \in Resetters : kind[r] = "reset" /\ rpc[r] \in {"agentsDeadline", "waitExits", "clear"}

Starting == {"extensions", "extChannel", "runtime", "rtChannel", "awaitRuntime", "awaitAgents"}

\* The invoke flow's gate is empty, or counts the subscribers, or will be cleared.  While init
\* has still to be done it may also be that extensions of a sandbox that was only shut down
\* are left: the collision of their names then stops the next init before it comes so far.
QuietInv ==
    /\ pc \in Starting => ~initDone
    /\ \A r \in Resetters : kind[r] = "shutdown" /\ rpc[r] # "idle" => pc = "idle" /\ ~initDone
    /\ initDone => \/ Quiet \/ Ending
                   \/ gate["invokeAgents"].count = Cardinality(Subscribed("INVOKE"))
    /\ ~initDone /\ pc \in {"idle", "new"} => Quiet \/ Clearing \/ ExtAgents \cap Registered # {}
    /\ pc \in {"extensions", "extChannel"} => Quiet \/ todo \cap Registered # {}
    /\ pc \in {"runtime", "rtChannel", "awaitRuntime", "awaitAgents"} => Quiet
    /\ CountsAccepted

\* What nobody but who releases an agent does to it: wake it when it sleeps, give it a second
\* event while it works on one, or bring it back when it has come back.
AgentStays(s, t) ==
    /\ ~s.flag /\ s.state # "Running" => ~t.flag /\ t.state # "Running"
    /\ ~(s.flag /\ s.state = "Running") => ~(t.flag /\ t.state = "Running")
    /\ ~s.flag /\ s.state \in {"Ready", "ExitError"} /\ t.state # "none"
          => ~t.flag /\ t.state \in {"Ready", "ExitError"}

\* Only a handler or a shutdown releases agents.
LEMMA AgentsSleep ==
    ASSUME TypeOK, [Next]_vars, ~ReleaseParties, \A r \in Resetters : ~ShutdownAgents(r), NEW b \in Agents
    PROVE  AgentStays(agent[b], agent'[b])
<1> USE DEF TypeOK, AgentType, AgentStays
<1>0. agent[b] \in AgentRec
  OBVIOUS
<1>1. CASE UNCHANGED agent
  BY <1>1
<1>2. ASSUME NEW a \in ExtAgents, LaunchExtension(a) PROVE AgentStays(agent[b], agent'[b])
  <2>1. a \in Agents
    BY DEF Agents
  <2>2. CASE agent' = [agent EXCEPT ![a] = NewAgent(gen)] /\ agent[a].state = "none"
    BY <1>0, <2>1, <2>2 DEF NewAgent
  <2>3. CASE agent' = [agent EXCEPT ![a] = [NewAgent(gen) EXCEPT !.state = "LaunchError"]] /\ agent[a].state = "none"
    BY <1>0, <2>1, <2>3 DEF NewAgent
  <2> QED
    BY <1>1, <1>2, <2>2, <2>3 DEF LaunchExtension, MayCreateExternal
<1>4. ASSUME NEW a \in Agents, RegisterExternal(a) PROVE AgentStays(agent[b], agent'[b])
  BY <1>0, <1>4 DEF RegisterExternal, StartedRegister, AgentRec
<1>5. ASSUME NEW a \in Agents, RegisterInternal(a) PROVE AgentStays(agent[b], agent'[b])
  <2>1. PICK subs \in SUBSET InternalEvents :
          agent' = [agent EXCEPT ![a] = [NewAgent(runtime.gen) EXCEPT !.state = "Registered",
                                                                     !.subs = subs]]
    BY <1>5 DEF RegisterInternal
  <2>2. agent[a].state = "none"
    BY <1>5 DEF RegisterInternal, MayCreateInternal
  <2> QED
    BY <1>0, <2>1, <2>2 DEF NewAgent
<1>6. ASSUME NEW a \in Agents, AgentNext(a) PROVE AgentStays(agent[b], agent'[b])
  BY <1>0, <1>6 DEF AgentNext, AgentRec
<1>7. ASSUME NEW a \in Agents, AgentResume(a) PROVE AgentStays(agent[b], agent'[b])
  BY <1>0, <1>7 DEF AgentResume, AgentRec
<1>8. ASSUME NEW a \in Agents, AgentError(a) PROVE AgentStays(agent[b], agent'[b])
  BY <1>0, <1>8 DEF AgentError, AgentInitError, AgentExitError, AgentRec
<1>9. CASE HandleProcessExit
  <2>1. PICK final \in {"Exited", "ShutdownFailed"} :
           agent' = [a \in Agents |->
              IF a \in awaiting /\ watch.ev = <<a, agent[a].gen>> /\ agent[a].state = "Running"
              THEN [agent[a] EXCEPT !.state = final] ELSE agent[a]]
    BY <1>9 DEF HandleProcessExit
  <2> QED
    BY <1>0, <2>1 DEF AgentRec
<1>11. CASE HandleInit \/ HandleInvoke
  BY <1>1, <1>11 DEF HandleInit, HandleInvoke, partyVars
<1>12. CASE Handler
  BY <1>1, <1>2, <1>11, <1>12 DEF Handler, ExtensionChannel, LaunchRuntime, RuntimeChannel, AwaitExternalAgentsRegistered,
     AwaitRuntimeRestoreReady, InitAwaitAgentsReady, AwaitRuntimeResponse, AwaitRuntimeReady,
     InvokeAwaitAgentsReady, partyVars
<1>13. CASE PartyStep
  BY <1>1, <1>4, <1>5, <1>6, <1>7, <1>8, <1>13 DEF PartyStep, RuntimeNext, RuntimeResume, RuntimeRespond,
     RuntimeRespondRefused, Respond, RuntimeResponseSent, StaleResponseSent, RuntimeInitError, partyVars
<1>14. CASE (\E p \in alive : ProcessExit(p)) \/ (\E p \in exits : WatchEvent(p)) \/ WatcherCancelFlows
  BY <1>1, <1>14 DEF ProcessExit, WatchEvent, WatcherCancelFlows, partyVars
<1>15. ASSUME NEW r \in Resetters, ResetStep(r) PROVE AgentStays(agent[b], agent'[b])
  <2>1. CASE ClearRegistrations(r)
    BY <2>1, EmptyRecords DEF ClearRegistrations, RegistrationsCleared
  <2> QED
    BY <1>1, <1>15, <2>1 DEF ResetStep, BeginReset, BeginShutdown, ShutdownBegin, ShutdownRuntime,
       ShutdownAgentsDeadline, ClearExitedChannel, ClearGates, partyVars
<1>16. CASE UNCHANGED vars
  BY <1>1, <1>16 DEF vars, partyVars
<1> HIDE DEF AgentStays
<1> QED
  BY <1>9, <1>11, <1>12, <1>13, <1>14, <1>15, <1>16, StepCases DEF ResetStep

\* An agent that has asked for work keeps its subscriptions.
LEMMA AgentsSubscriptions ==
    ASSUME TypeOK, [Next]_vars, \A r \in Resetters : ~ClearRegistrations(r),
           NEW b \in Agents, agent[b].state \notin {"none", "Started"}
    PROVE  agent'[b].subs = agent[b].subs
<1> USE DEF TypeOK, AgentType
<1>0. agent[b] \in AgentRec
  OBVIOUS
<1>1. CASE UNCHANGED agent
  BY <1>1
<1>2. ASSUME NEW a \in ExtAgents, LaunchExtension(a) PROVE agent'[b].subs = agent[b].subs
  <2>1. a \in Agents
    BY DEF Agents
  <2>2. CASE agent' = agent \/ a # b
    BY <1>2, <2>1, <2>2 DEF LaunchExtension
  <2>3. CASE a = b
    BY <1>2, <2>2, <2>3 DEF LaunchExtension, MayCreateExternal
  <2> QED
    BY <2>2, <2>3
<1>3. CASE ReleaseParties
  <2>1. UNCHANGED agent \/ agent' = Release(Subscribed("INVOKE"))
    BY <1>3 DEF ReleaseParties
  <2> QED
    BY <1>0, <1>1, <2>1 DEF Release, AgentRec
<1>4. ASSUME NEW a \in Agents, RegisterExternal(a) PROVE agent'[b].subs = agent[b].subs
  BY <1>0, <1>4 DEF RegisterExternal, StartedRegister, AgentRec
<1>5. ASSUME NEW a \in Agents, RegisterInternal(a) PROVE agent'[b].subs = agent[b].subs
  <2>1. a # b
    BY <1>5 DEF RegisterInternal, MayCreateInternal
  <2> QED
    BY <1>0, <1>5, <2>1 DEF RegisterInternal
<1>6. ASSUME NEW a \in Agents, AgentNext(a) PROVE agent'[b].subs = agent[b].subs
  BY <1>0, <1>6 DEF AgentNext, AgentRec
<1>7. ASSUME NEW a \in Agents, AgentResume(a) PROVE agent'[b].subs = agent[b].subs
  BY <1>0, <1>7 DEF AgentResume, AgentRec
<1>8. ASSUME NEW a \in Agents, AgentError(a) PROVE agent'[b].subs = agent[b].subs
  BY <1>0, <1>8 DEF AgentError, AgentInitError, AgentExitError, AgentRec
<1>9. CASE HandleProcessExit
  <2>1. PICK final \in {"Exited", "ShutdownFailed"} :
           agent' = [a \in Agents |->
              IF a \in awaiting /\ watch.ev = <<a, agent[a].gen>> /\ agent[a].state = "Running"
              THEN [agent[a] EXCEPT !.state = final] ELSE agent[a]]
    BY <1>9 DEF HandleProcessExit
  <2> QED
    BY <1>0, <2>1 DEF AgentRec
<1>10. ASSUME NEW r \in Resetters, ShutdownAgents(r) PROVE agent'[b].subs = agent[b].subs
  <2>1. agent' = Release(awaiting')
    BY <1>10 DEF ShutdownAgents
  <2> QED
    BY <1>0, <2>1 DEF Release, AgentRec
<1>11. CASE HandleInit \/ HandleInvoke
  BY <1>1, <1>11 DEF HandleInit, HandleInvoke, partyVars
<1>12. CASE Handler
  BY <1>1, <1>2, <1>3, <1>11, <1>12 DEF Handler, ExtensionChannel, LaunchRuntime, RuntimeChannel, AwaitExternalAgentsRegistered,
     AwaitRuntimeRestoreReady, InitAwaitAgentsReady, AwaitRuntimeResponse, AwaitRuntimeReady,
     InvokeAwaitAgentsReady, partyVars
<1>13. CASE PartyStep
  BY <1>1, <1>4, <1>5, <1>6, <1>7, <1>8, <1>13 DEF PartyStep, RuntimeNext, RuntimeResume, RuntimeRespond,
     RuntimeRespondRefused, Respond, RuntimeResponseSent, StaleResponseSent, RuntimeInitError, partyVars
<1>14. CASE (\E p \in alive : ProcessExit(p)) \/ (\E p \in exits : WatchEvent(p)) \/ WatcherCancelFlows
  BY <1>1, <1>14 DEF ProcessExit, WatchEvent, WatcherCancelFlows, partyVars
<1>15. ASSUME NEW r \in Resetters, ResetStep(r) PROVE agent'[b].subs = agent[b].subs
  BY <1>1, <1>10, <1>15 DEF ResetStep, BeginReset, BeginShutdown, ShutdownBegin, ShutdownRuntime,
     ShutdownAgentsDeadline, ClearExitedChannel, ClearGates, partyVars
<1>16. CASE UNCHANGED vars
  BY <1>1, <1>16 DEF vars, partyVars
<1> QED
  BY <1>9, <1>11, <1>12, <1>13, <1>14, <1>15, <1>16, StepCases DEF ResetStep

\* Who makes the numbers of the agents' gate of the invoke flow move.
LEMMA InvokeArrivals ==
    ASSUME TypeOK, [Next]_vars, ~ReleaseParties
    PROVE  /\ gate'["invokeAgents"].count = gate["invokeAgents"].count
           /\ \/ gate'["invokeAgents"].arrived = gate["invokeAgents"].arrived
              \/ gate'["invokeAgents"].arrived = 0
              \/ /\ \E a \in Agents : AgentNext(a) /\ agent[a].state = "Running"
                 /\ gate'["invokeAgents"].arrived <= gate["invokeAgents"].arrived + 1
<1> USE DEF TypeOK, FlowType
<1>g. "invokeAgents" \in GateNames /\ "invokeAgents" \in InvokeGates /\ gate["invokeAgents"] \in Gate
  BY DEF GateNames, InvokeGates
<1>1. CASE Handler \/ HandleInvoke
  BY <1>1, <1>g, HandlerGates
<1>2. CASE PartyStep
  BY <1>2, <1>g, PartyGates, GateNumbers
<1>3. CASE \E e \in CancelErrors : CancelFlows(e)
  BY <1>3, <1>g, CancelNumbers
<1>4. CASE UNCHANGED gate
  BY <1>4
<1>5. CASE \/ \E p \in alive : ProcessExit(p)
           \/ \E p \in exits : WatchEvent(p)
           \/ HandleProcessExit \/ WatcherCancelFlows
  BY <1>3, <1>4, <1>5, WatcherFrame
<1>6. ASSUME NEW r \in Resetters, ClearGates(r)
      PROVE  gate'["invokeAgents"].count = gate["invokeAgents"].count /\ gate'["invokeAgents"].arrived = 0
  BY <1>6, <1>g, GateNumbers DEF ClearGates
<1>7. ASSUME NEW r \in Resetters, ResetStep(r), ~ClearGates(r) PROVE UNCHANGED gate \/ CancelFlows("reset")
  BY <1>7 DEF ResetStep, BeginReset, BeginShutdown, ShutdownBegin, ShutdownRuntime, ShutdownAgents,
     ShutdownAgentsDeadline, ClearExitedChannel, ClearRegistrations, RegistrationsCleared, flowVars
<1>8. CASE UNCHANGED vars
  BY <1>4, <1>8 DEF vars, flowVars
<1>9. CASE \E r \in Resetters : ResetStep(r)
  BY <1>3, <1>4, <1>6, <1>7, <1>9 DEF CancelErrors
<1> QED
  BY <1>1, <1>2, <1>5, <1>8, <1>9, StepCases DEF ResetStep

\* A sandbox that is quiet stays so until a handler or a shutdown releases extensions.
LEMMA QuietKept ==
    ASSUME TypeOK, [Next]_vars, ~ReleaseParties, \A r \in Resetters : ~ShutdownAgents(r), Quiet
    PROVE  Quiet'
<1>1. \A b \in Agents : ~agent'[b].flag /\ agent'[b].state # "Running"
  BY AgentsSleep DEF Quiet, AgentStays
<1>2. gate'["invokeAgents"].arrived = 0
  BY InvokeArrivals DEF Quiet
<1> QED
  BY <1>1, <1>2 DEF Quiet

\* Once init is done nobody registers any more.
LEMMA SubscribersFixed ==
    ASSUME TypeOK, RuntimeInv, AgentsInv, initDone, [Next]_vars, \A r \in Resetters : ~ClearRegistrations(r)
    PROVE  Subscribed("INVOKE")' = Subscribed("INVOKE")
<1>1. Registered' = Registered
  BY AgentsGrow DEF RuntimeInv
<1>2. \A b \in Registered : b \in Agents /\ agent[b].state \notin {"none", "Started"}
  BY DEF AgentsInv, Registered, Arrived, Waiting
<1>3. \A b \in Registered : agent'[b].subs = agent[b].subs
  BY <1>2, AgentsSubscriptions
<1> QED
  BY <1>1, <1>3 DEF Subscribed

\* The handlers never give a gate fewer parties than are there already.
LEMMA CountsFit ==
    ASSUME TypeOK, GatesSound, TurnInv, AgentsInv, QuietInv
    PROVE  /\ pc = "new" \/ (\A r \in Resetters : rpc[r] = "idle")
                => SetCountOK(gate["extRegistered"], Cardinality(ExtAgents))
           /\ pc = "awaitRuntime" => SetCountOK(gate["initAgents"], CountAgents)
           /\ pc = "barriers" /\ initDone
                => SetCountOK(InitializeBarriers["invokeAgents"], Cardinality(Subscribed("INVOKE")))
<1> USE DEF TypeOK, FlowType
<1>g. /\ gate["extRegistered"] \in Gate /\ gate["initAgents"] \in Gate /\ gate["invokeAgents"] \in Gate
      /\ "invokeAgents" \in GateNames /\ "invokeAgents" \in InvokeGates
  BY DEF GateNames, InitGates, InvokeGates
<1>n. /\ gate["extRegistered"].arrived \in Nat /\ gate["initAgents"].arrived \in Nat
      /\ gate["invokeAgents"].arrived \in Nat /\ gate["invokeAgents"].count \in Nat
  BY <1>g DEF Gate
<1>l. MaxAgentsLimit \in Nat /\ Cardinality(Agents) <= MaxAgentsLimit
  BY DomainAssumption, LimitAssumption
<1>s. ASSUME NEW S \in SUBSET Agents
      PROVE  Cardinality(S) \in Nat /\ Cardinality(S) <= MaxAgentsLimit
  BY <1>l, CountMonotone
<1>1. ASSUME pc = "new" \/ (\A r \in Resetters : rpc[r] = "idle")
      PROVE  SetCountOK(gate["extRegistered"], Cardinality(ExtAgents))
  <2>1. ~Clearing
    BY <1>1 DEF TurnInv, Clearing
  <2>2. ExtAgents \in SUBSET Agents /\ Known \in SUBSET ExtAgents
    BY DEF Agents, Known
  <2>3. Cardinality(Known) \in Nat /\ Cardinality(Known) <= Cardinality(ExtAgents)
    BY <2>2, CountMonotone
  <2>4. gate["extRegistered"].arrived <= Cardinality(Known)
    BY <2>1 DEF AgentsInv
  <2>5. Cardinality(ExtAgents) \in Nat /\ Cardinality(ExtAgents) <= MaxAgentsLimit
    BY <1>s, <2>2
  <2> QED
    BY <1>n, <1>l, <2>3, <2>4, <2>5 DEF SetCountOK
<1>2. ASSUME pc = "awaitRuntime" PROVE SetCountOK(gate["initAgents"], CountAgents)
  <2>1. ~Clearing
    BY <1>2 DEF TurnInv, Clearing
  <2>2. Registered \in SUBSET Agents /\ Arrived \in SUBSET Registered
    BY DEF Registered, Arrived, Waiting
  <2>3. Cardinality(Arrived) \in Nat /\ Cardinality(Arrived) <= Cardinality(Registered)
    BY <2>2, CountMonotone
  <2>4. gate["initAgents"].arrived <= Cardinality(Arrived)
    BY <2>1 DEF AgentsInv
  <2>5. Cardinality(Registered) \in Nat /\ Cardinality(Registered) <= MaxAgentsLimit
    BY <1>s, <2>2
  <2> QED
    BY <1>n, <1>l, <2>3, <2>4, <2>5 DEF SetCountOK, CountAgents
<1>3. ASSUME pc = "barriers", initDone
      PROVE  SetCountOK(InitializeBarriers["invokeAgents"], Cardinality(Subscribed("INVOKE")))
  <2>1. ~Ending
    BY <1>3 DEF TurnInv, Ending
  <2>2. InitializeBarriers["invokeAgents"] = Reset(gate["invokeAgents"])
    BY <1>g DEF InitializeBarriers
  <2>3. Subscribed("INVOKE") \in SUBSET Agents
    BY DEF Subscribed, Registered
  <2>4. Cardinality(Subscribed("INVOKE")) \in Nat /\ Cardinality(Subscribed("INVOKE")) <= MaxAgentsLimit
    BY <1>s, <2>3
  <2>5. gate["invokeAgents"].arrived = 0 \/ gate["invokeAgents"].count = Cardinality(Subscribed("INVOKE"))
    BY <1>3, <2>1 DEF QuietInv, Quiet
  <2>6. gate["invokeAgents"].arrived <= gate["invokeAgents"].count
    BY <1>g DEF GatesSound, Sound
  <2>7. gate["invokeAgents"].arrived <= Cardinality(Subscribed("INVOKE"))
    BY <1>n, <2>4, <2>5, <2>6
  <2>8. Reset(gate["invokeAgents"]).arrived <= gate["invokeAgents"].arrived
        /\ Reset(gate["invokeAgents"]).arrived \in Nat
    BY <1>g DEF Reset, Gate
  <2>9. Reset(gate["invokeAgents"]).arrived <= Cardinality(Subscribed("INVOKE"))
    BY <1>n, <2>4, <2>7, <2>8
  <2> QED
    BY <2>2, <2>4, <2>9 DEF SetCountOK
<1> QED
  BY <1>1, <1>2, <1>3

\* A step that leaves the handler and the resetters where they are.
LEMMA QuietSame ==
    ASSUME TypeOK, RuntimeInv, AgentsInv, QuietInv, [Next]_vars,
           UNCHANGED <<pc, todo, res, initDone, rpc, kind>>
    PROVE  QuietInv'
<1>1. ~ReleaseParties /\ \A r \in Resetters : ~ShutdownAgents(r) /\ ~ClearRegistrations(r) /\ ~ClearGates(r)
  BY DEF ReleaseParties, Return, ShutdownAgents, ClearRegistrations, RegistrationsCleared, ClearGates,
     TypeOK, DownType
<1>2. Quiet => Quiet'
  BY <1>1, QuietKept
<1>3. Registered \subseteq Registered' /\ (Clearing' <=> Clearing) /\ (Ending' <=> Ending)
  BY <1>1, AgentsGrow DEF Clearing, Ending
<1>4. initDone => Subscribed("INVOKE")' = Subscribed("INVOKE")
  BY <1>1, SubscribersFixed
<1>5. gate'["invokeAgents"].count = gate["invokeAgents"].count
  BY <1>1, InvokeArrivals
<1> QED
  BY <1>2, <1>3, <1>4, <1>5 DEF QuietInv, CountsAccepted

\* What a handler may return without having done its work.
LEMMA AwaitResults ==
    ASSUME NEW g \in Gate
    PROVE  AwaitError(g) # "ErrGateIntegrity"
BY DEF Gate, AwaitError, CancelErrors, NoErr

\* The handlers keep what is known about the agents' gate of the invoke flow.
LEMMA HandlerQuiet ==
    ASSUME Exclusive, TypeOK, GatesSound, TurnInv, RuntimeInv, AgentsInv, QuietInv, Handler \/ HandleInvoke,
           [Next]_vars
    PROVE  QuietInv'
<1> USE DEF TypeOK, FlowType, HandlerType, Return
<1>g. \A g \in GateNames : AwaitError(gate[g]) # "ErrGateIntegrity"
  BY AwaitResults
<1>n. /\ "extRegistered" \in GateNames /\ "restoreReady" \in GateNames /\ "initAgents" \in GateNames
      /\ "invokeResponse" \in GateNames /\ "invokeRuntime" \in GateNames /\ "invokeAgents" \in GateNames
      /\ "invokeAgents" \in InvokeGates /\ gate["invokeAgents"] \in Gate
  BY DEF GateNames, InitGates, InvokeGates
<1>d. UNCHANGED <<rpc, kind>>
  BY HandlerFrame DEF HandleInvoke, downVars
<1>k. \A r \in Resetters : kind[r] = "shutdown" => rpc[r] = "idle"
  BY HandlerFrame DEF QuietInv, HandleInvoke
<1>e. Clearing' = Clearing /\ Ending' = Ending /\ ~Clearing /\ ~Ending
  <2>1. ~Clearing /\ ~Ending
    BY HandlerFrame DEF HandleInvoke, TurnInv, Clearing, Ending
  <2> QED
    BY <1>d, <2>1 DEF Clearing, Ending
<1>r. \A r \in Resetters : ~ShutdownAgents(r) /\ ~ClearRegistrations(r) /\ ~ClearGates(r)
  BY <1>d DEF ShutdownAgents, ClearRegistrations, RegistrationsCleared, ClearGates, DownType
<1>q. ~ReleaseParties /\ Quiet => Quiet'
  BY <1>r, QuietKept
<1>m. Registered \subseteq Registered'
  BY <1>r, AgentsGrow
<1>f. initDone => Subscribed("INVOKE")' = Subscribed("INVOKE")
  BY <1>r, SubscribersFixed
<1>a. ~ReleaseParties => gate'["invokeAgents"].count = gate["invokeAgents"].count
  BY InvokeArrivals
<1>b. res # "ErrGateIntegrity"
  BY DEF QuietInv, CountsAccepted
<1>1. CASE HandleInit
  <2>1. SetCountOK(gate["extRegistered"], Cardinality(ExtAgents)) /\ pc = "new"
    BY <1>1, CountsFit DEF HandleInit
  <2>2. pc' = "extensions" /\ todo' = ExtAgents /\ res' = res /\ initDone' = initDone /\ ~initDone
    BY <1>1, <2>1 DEF HandleInit, BeginInit, TurnInv
  <2>3. ~ReleaseParties
    BY <2>2 DEF ReleaseParties
  <2> QED
    BY <1>b, <1>e, <1>k, <1>d, <1>m, <1>q, <2>1, <2>2, <2>3 DEF QuietInv, CountsAccepted, Starting
<1>2. CASE HandleInvoke
  <2>1. ~ReleaseParties /\ pc = "idle" /\ initDone' = initDone
    BY <1>2 DEF HandleInvoke, MutexFree, ReleaseParties
  <2>2. CASE initDone
    <3>1. pc' = "barriers" /\ res' = res
      BY <1>2, <2>2 DEF HandleInvoke
    <3> QED
      BY <1>a, <1>b, <1>d, <1>e, <1>f, <1>k, <1>q, <2>1, <2>2, <3>1 DEF QuietInv, CountsAccepted, Starting
  <2>3. CASE ~initDone
    <3>1. SetCountOK(gate["extRegistered"], Cardinality(ExtAgents))
      BY <1>2, CountsFit DEF HandleInvoke
    <3>2. pc' = "extensions" /\ todo' = ExtAgents /\ res' = res
      BY <1>2, <2>3, <3>1 DEF HandleInvoke, BeginInit
    <3> QED
      BY <1>b, <1>d, <1>e, <1>k, <1>m, <1>q, <2>1, <2>3, <3>2 DEF QuietInv, CountsAccepted, Starting
  <2> QED
    BY <2>2, <2>3
<1>3. ASSUME NEW a \in ExtAgents, LaunchExtension(a) PROVE QuietInv'
  <2>1. ~ReleaseParties /\ pc = "extensions" /\ initDone' = initDone /\ ~initDone /\ a \in todo
    BY <1>3 DEF LaunchExtension, ReleaseParties, QuietInv, Starting
  <2>2. res' # "ErrGateIntegrity"
    BY <1>3, <1>b DEF LaunchExtension
  <2>3. a \in Agents /\ todo \subseteq ExtAgents
    BY DEF Agents
  <2>4. CASE pc' = "idle"
    <3>1. Quiet' \/ ExtAgents \cap Registered' # {}
      BY <1>m, <1>q, <2>1, <2>3 DEF QuietInv
    <3> QED
      BY <1>d, <1>k, <2>1, <2>2, <2>4, <3>1 DEF QuietInv, CountsAccepted, Starting
  <2>5. CASE pc' = "extChannel"
    <3>1. a \notin Registered /\ todo' = todo \ {a}
      BY <1>3, <2>5 DEF LaunchExtension, MayCreateExternal, Registered
    <3>2. Quiet' \/ todo' \cap Registered' # {}
      BY <1>m, <1>q, <2>1, <3>1 DEF QuietInv
    <3> QED
      BY <1>d, <1>k, <2>1, <2>2, <2>5, <3>2 DEF QuietInv, CountsAccepted, Starting
  <2> QED
    BY <1>3, <2>4, <2>5 DEF LaunchExtension
<1>4. CASE (\E a \in ExtAgents : ExtensionChannel(a)) \/ RuntimeChannel
  <2>1. /\ ~ReleaseParties /\ pc' # pc /\ res' = res /\ todo' = todo /\ initDone' = initDone /\ ~initDone
        /\ \/ pc = "extChannel" /\ pc' = "extensions"
           \/ pc = "rtChannel" /\ pc' = "awaitRuntime"
    BY <1>4 DEF ExtensionChannel, RuntimeChannel, ReleaseParties, QuietInv, Starting
  <2> QED
    BY <1>b, <1>d, <1>k, <1>m, <1>q, <2>1 DEF QuietInv, CountsAccepted, Starting
<1>5. CASE AwaitExternalAgentsRegistered
  <2>1. /\ ~ReleaseParties /\ pc = "extensions" /\ todo = {} /\ initDone' = initDone /\ ~initDone
        /\ pc' \in {"idle", "runtime"} /\ res' # "ErrGateIntegrity"
    BY <1>5, <1>b, <1>g, <1>n DEF AwaitExternalAgentsRegistered, Await, ReleaseParties, QuietInv, Starting
  <2>2. Quiet'
    BY <1>q, <2>1 DEF QuietInv
  <2> QED
    BY <1>d, <1>k, <2>1, <2>2 DEF QuietInv, CountsAccepted, Starting
<1>6. CASE LaunchRuntime
  <2>1. /\ ~ReleaseParties /\ pc = "runtime" /\ initDone' = initDone /\ ~initDone
        /\ pc' \in {"idle", "rtChannel"} /\ res' # "ErrGateIntegrity"
    BY <1>6, <1>b DEF LaunchRuntime, ReleaseParties, QuietInv, Starting
  <2>2. Quiet'
    BY <1>q, <2>1 DEF QuietInv
  <2> QED
    BY <1>d, <1>k, <2>1, <2>2 DEF QuietInv, CountsAccepted, Starting
<1>7. CASE AwaitRuntimeRestoreReady
  <2>1. pc = "awaitRuntime" /\ SetCountOK(gate["initAgents"], CountAgents)
    BY <1>7, CountsFit DEF AwaitRuntimeRestoreReady
  <2>2. /\ ~ReleaseParties /\ initDone' = initDone /\ ~initDone
        /\ pc' \in {"idle", "awaitAgents"} /\ res' # "ErrGateIntegrity"
    BY <1>7, <1>b, <1>g, <1>n, <2>1 DEF AwaitRuntimeRestoreReady, ReleaseParties, QuietInv, Starting
  <2>3. Quiet'
    BY <1>q, <2>1, <2>2 DEF QuietInv
  <2> QED
    BY <1>d, <1>k, <2>2, <2>3 DEF QuietInv, CountsAccepted, Starting
<1>8. CASE InitAwaitAgentsReady
  <2>1. /\ ~ReleaseParties /\ pc = "awaitAgents" /\ pc' \in {"idle", "barriers"} /\ res' # "ErrGateIntegrity"
    BY <1>8, <1>b, <1>g, <1>n DEF InitAwaitAgentsReady, ReleaseParties
  <2>2. Quiet'
    BY <1>q, <2>1 DEF QuietInv
  <2> QED
    BY <1>d, <1>k, <2>1, <2>2 DEF QuietInv, CountsAccepted, Starting
<1>9. CASE ReleaseParties
  <2>1. pc = "barriers" /\ initDone /\ initDone' = initDone
    BY <1>9 DEF ReleaseParties, RuntimeInv
  <2>2. SetCountOK(InitializeBarriers["invokeAgents"], Cardinality(Subscribed("INVOKE")))
    BY <2>1, CountsFit
  <2>3. /\ gate' = [InitializeBarriers EXCEPT !["invokeAgents"] = SetCount(@, Cardinality(Subscribed("INVOKE")))]
        /\ pc' = "awaitResponse" /\ res' = res
    BY <1>9, <2>2 DEF ReleaseParties
  <2>4. InitializeBarriers["invokeAgents"] \in Gate /\ InitializeBarriers \in [GateNames -> Gate]
    <3>1. \A g \in GateNames : Reset(gate[g]) \in Gate
      BY ResetType
    <3> QED
      BY <1>n, <3>1 DEF InitializeBarriers
  <2>5. gate'["invokeAgents"].count = Cardinality(Subscribed("INVOKE"))
    <3>1. Cardinality(Subscribed("INVOKE")) \in Nat
      <4>1. Subscribed("INVOKE") \in SUBSET Agents
        BY DEF Subscribed, Registered
      <4> QED
        BY <4>1, CountMonotone
    <3> QED
      BY <1>n, <2>2, <2>3, <2>4, <3>1, GateNumbers
  <2> QED
    BY <1>b, <1>d, <1>f, <1>k, <2>1, <2>3, <2>5 DEF QuietInv, CountsAccepted, Starting
<1>10. CASE AwaitRuntimeResponse \/ AwaitRuntimeReady \/ InvokeAwaitAgentsReady
  <2>1. /\ ~ReleaseParties /\ pc \in {"awaitResponse", "awaitReady", "awaitInvokeAgents"} /\ initDone' = initDone
        /\ pc' \in {"idle", "awaitReady", "awaitInvokeAgents"} /\ res' # "ErrGateIntegrity"
    BY <1>10, <1>b, <1>g, <1>n DEF AwaitRuntimeResponse, AwaitRuntimeReady, InvokeAwaitAgentsReady, Await,
       InvokeSucceeds, ReleaseParties
  <2>2. initDone
    BY <2>1 DEF RuntimeInv
  <2> QED
    BY <1>a, <1>d, <1>e, <1>f, <1>k, <1>q, <2>1, <2>2 DEF QuietInv, CountsAccepted, Starting
<1> QED
  BY <1>1, <1>2, <1>3, <1>4, <1>5, <1>6, <1>7, <1>8, <1>9, <1>10 DEF Handler

\* A reset that will drop the extensions goes on until it does.
LEMMA EndingKept ==
    ASSUME TypeOK, [Next]_vars, \A r \in Resetters : ~ClearRegistrations(r), Ending
    PROVE  Ending'
<1> USE DEF TypeOK, DownType
<1>1. CASE UNCHANGED <<rpc, kind>>
  BY <1>1 DEF Ending
<1>2. ASSUME NEW r \in Resetters, BeginReset(r) \/ BeginShutdown(r) \/ Resetter(r) PROVE Ending'
  <2>1. ResetStep(r)
    BY <1>2 DEF ResetStep, Resetter
  <2>2. \A s \in Resetters : s # r => rpc'[s] = rpc[s] /\ kind'[s] = kind[s]
    BY <2>1, ResetFrame
  <2>3. ASSUME kind[r] = "reset", rpc[r] \in {"agentsDeadline", "waitExits", "clear"}
        PROVE  kind'[r] = "reset" /\ rpc'[r] \in {"agentsDeadline", "waitExits", "clear"}
    BY <1>2, <2>3 DEF Resetter, BeginReset, BeginShutdown, ShutdownBegin, ShutdownRuntime, ShutdownAgents,
       ShutdownAgentsDeadline, ClearExitedChannel, ClearRegistrations, ClearGates
  <2> QED
    BY <2>2, <2>3 DEF Ending
<1> QED
  BY <1>1, <1>2, DownStep

\* Resets and shutdowns keep it.
LEMMA ResetQuiet ==
    ASSUME TypeOK, TurnInv, RuntimeInv, AgentsInv, QuietInv, [Next]_vars, NEW r \in Resetters, ResetStep(r)
    PROVE  QuietInv'
<1> USE DEF TypeOK, DownType, hdlVars
<1>0. UNCHANGED <<pc, todo, res>> /\ \A s \in Resetters : s # r => rpc'[s] = rpc[s] /\ kind'[s] = kind[s]
  BY ResetFrame
<1>p. ~ReleaseParties
  BY <1>0 DEF ReleaseParties, Return
<1>1. CASE ClearRegistrations(r)
  <2>1. Clearing' /\ ~initDone' /\ pc = "idle" /\ kind' = kind
    BY <1>1 DEF ClearRegistrations, RegistrationsCleared, Clearing, TurnInv
  <2> QED
    BY <1>0, <2>1 DEF QuietInv, CountsAccepted, Starting
<1>2. CASE ClearGates(r)
  <2>1. UNCHANGED <<kind, initDone, agent>> /\ pc = "idle" /\ ~initDone /\ Nobody
    BY <1>2 DEF ClearGates, partyVars, TurnInv, Clearing
  <2>2. gate'["invokeAgents"].arrived = 0
    <3>1. gate["invokeAgents"] \in Gate /\ "invokeAgents" \in GateNames
      BY DEF FlowType, GateNames, InvokeGates
    <3> QED
      BY <1>2, <3>1, GateNumbers DEF ClearGates
  <2>3. Quiet'
    BY <2>1, <2>2 DEF Quiet, Nobody
  <2> QED
    BY <1>0, <2>1, <2>3 DEF QuietInv, CountsAccepted, Starting
<1>3. CASE ShutdownAgents(r)
  <2>1. UNCHANGED <<kind, initDone>> /\ rpc[r] = "agents" /\ rpc'[r] = "agentsDeadline" /\ pc = "idle"
    BY <1>3 DEF ShutdownAgents, TurnInv
  <2>2. initDone => Ending'
    BY <2>1 DEF QuietInv, Ending
  <2>3. ASSUME ~initDone PROVE Quiet' \/ Clearing' \/ ExtAgents \cap Registered' # {}
    <3>1. awaiting' \subseteq ExtAgents \cap Registered /\ agent' = Release(awaiting') /\ gate' = gate
      BY <1>3 DEF ShutdownAgents, Subscribed, Launched, flowVars
    <3>2. Registered \subseteq Registered'
      <4>1. \A s \in Resetters : ~ClearRegistrations(s)
        <5>1. ASSUME NEW s \in Resetters, ClearRegistrations(s) PROVE FALSE
          BY <1>0, <2>1, <5>1 DEF ClearRegistrations, RegistrationsCleared
        <5> QED
          BY <5>1
      <4> QED
        BY <4>1, AgentsGrow
    <3>3. CASE awaiting' = {}
      <4>1. agent' = agent
        BY <3>1, <3>3 DEF Release, AgentType
      <4>2. \A s \in Resetters : rpc[s] = "clearGates" => rpc'[s] = "clearGates"
        BY <1>0, <2>1
      <4>3. (Quiet => Quiet') /\ (Clearing => Clearing')
        BY <3>1, <4>1, <4>2 DEF Quiet, Clearing
      <4> QED
        BY <2>1, <2>3, <3>2, <4>3 DEF QuietInv
    <3> QED
      BY <3>1, <3>2, <3>3
  <2> QED
    BY <1>0, <2>1, <2>2, <2>3 DEF QuietInv, CountsAccepted, Starting
<1>4. CASE ~ClearRegistrations(r) /\ ~ClearGates(r) /\ ~ShutdownAgents(r)
  <2>1. initDone' = initDone /\ (rpc[r] = "idle" => kind'[r] = "reset" \/ (pc = "idle" /\ ~initDone))
        /\ (rpc[r] # "idle" => kind'[r] = kind[r])
    BY <1>4 DEF ResetStep, BeginReset, BeginShutdown, ShutdownBegin, ShutdownRuntime, ShutdownAgentsDeadline,
       ClearExitedChannel, TurnInv
  <2>2. \A s \in Resetters : ~ClearRegistrations(s) /\ ~ClearGates(s) /\ ~ShutdownAgents(s)
    <3>1. ASSUME NEW s \in Resetters, ClearRegistrations(s) \/ ClearGates(s) \/ ShutdownAgents(s) PROVE FALSE
      <4>1. s # r
        BY <1>4, <3>1
      <4>2. rpc'[s] # rpc[s]
        BY <3>1 DEF ClearRegistrations, RegistrationsCleared, ClearGates, ShutdownAgents
      <4> QED
        BY <1>0, <4>1, <4>2
    <3> QED
      BY <3>1
  <2>3. (Quiet => Quiet') /\ Registered \subseteq Registered' /\ (Clearing' <=> Clearing)
    BY <1>p, <2>2, QuietKept, AgentsGrow, ClearingKept
  <2>4. initDone => Subscribed("INVOKE")' = Subscribed("INVOKE")
    BY <2>2, SubscribersFixed
  <2>5. gate'["invokeAgents"].count = gate["invokeAgents"].count
    BY <1>p, InvokeArrivals
  <2>6. Ending => Ending'
    BY <2>2, EndingKept
  <2>7. \A s \in Resetters : kind'[s] = "shutdown" /\ rpc'[s] # "idle" => pc = "idle" /\ ~initDone
    BY <1>0, <2>1 DEF QuietInv
  <2> QED
    BY <1>0, <2>1, <2>3, <2>4, <2>5, <2>6, <2>7 DEF QuietInv, CountsAccepted, Starting
<1> QED
  BY <1>1, <1>2, <1>3, <1>4

\* Every step keeps it.
LEMMA QuietStep ==
    ASSUME Exclusive, TypeOK, GatesSound, TurnInv, RuntimeInv, AgentsInv, QuietInv, [Next]_vars
    PROVE  QuietInv'
<1>1. CASE Handler \/ HandleInvoke
  BY <1>1, HandlerQuiet
<1>2. CASE PartyStep
  BY <1>2, PartyFrame, QuietSame
<1>3. CASE \/ \E p \in alive : ProcessExit(p)
           \/ \E p \in exits : WatchEvent(p)
           \/ HandleProcessExit \/ WatcherCancelFlows
  BY <1>3, WatcherFrame, QuietSame
<1>4. CASE \E r \in Resetters : ResetStep(r)
  BY <1>4, ResetQuiet
<1>5. CASE UNCHANGED vars
  BY <1>5, QuietSame DEF vars, hdlVars, downVars
<1> QED
  BY <1>1, <1>2, <1>3, <1>4, <1>5, StepCases DEF ResetStep

-----------------------------------------------------------------------------
(* The theorems.  Exclusive is what the interop server's reservation gives: no invoke *)
(* begins while a Reset or Shutdown is under way.                                     *)

\* The invariant of the sandbox: who is at work, which processes there are and which of them
\* the reset kills, and who went through which gate.
DomainInv == TurnInv /\ ProcInv /\ KillInv /\ RuntimeInv /\ AgentsInv /\ QuietInv

\* A new sandbox satisfies the invariant.
LEMMA DomainInit == Init => DomainInv
<1> SUFFICES ASSUME Init PROVE DomainInv
  OBVIOUS
<1>1. TurnInv /\ ProcInv /\ KillInv
  BY DEF Init, TurnInv, ProcInv, KillInv, Current, InReset, Clearing
<1>2. /\ gate["restoreReady"].count = 1 /\ gate["restoreReady"].arrived = 0
      /\ gate["extRegistered"].arrived = 0 /\ gate["initAgents"].arrived = 0
      /\ gate["invokeAgents"].arrived = 0
  BY DEF Init, GateNames, InitGates, InvokeGates, NewGate
<1>3. RuntimeInv
  BY <1>2, EmptyRecords DEF Init, RuntimeInv, Early, Later, RuntimeUp
<1>4. Cardinality(Known) \in Nat /\ Cardinality(Arrived) \in Nat
  <2>1. Known \in SUBSET Agents /\ Arrived \in SUBSET Agents
    BY DEF Known, Arrived, Agents
  <2> QED
    BY <2>1, CountMonotone
<1>5. AgentsInv
  BY <1>2, <1>4 DEF Init, AgentsInv
<1>6. Quiet
  BY <1>2, EmptyRecords DEF Init, Quiet
<1>7. QuietInv
  BY <1>6 DEF Init, QuietInv, Starting, CountsAccepted
<1> QED
  BY <1>1, <1>3, <1>5, <1>7 DEF DomainInv

\* The invariant is inductive, next to the types and the soundness of the gates.
THEOREM DomainInvariant ==
    ASSUME Exclusive
    PROVE  Spec => []DomainInv
<1>1. TypeOK /\ GatesSound /\ DomainInv /\ [Next]_vars => DomainInv'
  BY TurnStep, ProcStep, RuntimeStep, AgentsStep, QuietStep DEF DomainInv
<1> QED
  BY <1>1, DomainInit, TypeCorrect, GatesAlwaysSound, PTL DEF Spec

\* When Clear begins, the reset has killed every process of the generation it ends: it knows
\* them by the channels of shutdownContext and by the registered agents (handleReset, shutdown).
THEOREM ResetsKillTheGeneration ==
    ASSUME Exclusive
    PROVE  Spec => []ResetKillsGeneration
<1>1. DomainInv => ResetKillsGeneration
  BY DEF DomainInv, KillInv, ResetKillsGeneration
<1> QED
  BY <1>1, DomainInvariant, PTL

\* doInvoke and handleInvoke never find the runtime gone: a runtime that went through its gate
\* stays registered until a reset that holds the mutex drops it.
THEOREM RuntimeNeverGone ==
    ASSUME Exclusive
    PROVE  Spec => []NoNilRuntime
<1>1. DomainInv => NoNilRuntime
  BY DEF DomainInv, RuntimeInv, NoNilRuntime
<1> QED
  BY <1>1, DomainInvariant, PTL

\* A finished init means that everybody asked for work: the runtime went through its gate, and
\* as many extensions as are registered went through theirs (doRuntimeDomainInit).
THEOREM InitDoneMeansAllReady ==
    ASSUME Exclusive
    PROVE  Spec => []InitDoneMeansReady
<1>1. DomainInv => InitDoneMeansReady
  BY DEF DomainInv, RuntimeInv, AgentsInv, InitDoneMeansReady, Early, Registered, Arrived, Waiting
<1> QED
  BY <1>1, DomainInvariant, PTL

\* SetExternalAgentsRegisterCount and both SetAgentsReadyCount are never refused: nobody is at
\* these gates beyond the extensions that are registered, also after canceled invokes, whose
\* arrivals InitializeBarriers keeps (doInitExtensions, doRuntimeDomainInit, doInvoke).
THEOREM CountsAlwaysAccepted ==
    ASSUME Exclusive
    PROVE  Spec => []CountsAccepted
<1>1. DomainInv => CountsAccepted
  BY DEF DomainInv, QuietInv
<1> QED
  BY <1>1, DomainInvariant, PTL

-----------------------------------------------------------------------------
(* RuntimeDomain implements Sandbox. *)

\* CancelFlows and Clear treat all gates alike, and outside of Clear a canceled gate means that
\* CancelFlows has run.  So every gate tells the handler what the mapped variable cancel says.
CauseInv ==
    /\ \A g \in GateNames : /\ gate[g].canceled = gate["initRuntime"].canceled
                            /\ gate[g].err = gate["initRuntime"].err
    /\ gate["initRuntime"].canceled => canceled \/ Clearing

\* No method of a gate but CancelWithError and Clear touches its cancellation.
LEMMA GateCauses ==
    ASSUME NEW g \in Gate
    PROVE  /\ \A n \in Nat : SetCount(g, n).canceled = g.canceled /\ SetCount(g, n).err = g.err
           /\ Reset(g).canceled = g.canceled /\ Reset(g).err = g.err
           /\ WalkThrough(g).canceled = g.canceled /\ WalkThrough(g).err = g.err
BY DEF Gate, SetCount, Reset, WalkThrough

\* The handlers leave the cancellations alone.
LEMMA HandlerCauses ==
    ASSUME TypeOK, Handler \/ HandleInvoke, NEW g \in GateNames
    PROVE  gate'[g].canceled = gate[g].canceled /\ gate'[g].err = gate[g].err
<1> USE DEF TypeOK, FlowType
<1>1. CASE UNCHANGED gate
  BY <1>1
<1>2. ASSUME BeginInit PROVE gate'[g].canceled = gate[g].canceled /\ gate'[g].err = gate[g].err
  BY <1>2, GateCauses, CountType DEF BeginInit
<1>3. CASE HandleInit \/ HandleInvoke
  BY <1>1, <1>2, <1>3 DEF HandleInit, HandleInvoke, flowVars
<1>4. CASE AwaitRuntimeRestoreReady
  BY <1>4, GateCauses, CountType DEF AwaitRuntimeRestoreReady
<1>5. CASE ReleaseParties
  <2>1. /\ InitializeBarriers \in [GateNames -> Gate]
        /\ InitializeBarriers[g].canceled = gate[g].canceled /\ InitializeBarriers[g].err = gate[g].err
    BY ResetType, GateCauses DEF InitializeBarriers
  <2>2. Cardinality(Subscribed("INVOKE")) \in Nat
    <3>1. Subscribed("INVOKE") \in SUBSET Agents
      BY DEF Subscribed, Registered
    <3> QED
      BY <3>1, CountMonotone
  <2>3. \/ gate' = InitializeBarriers
        \/ gate' = [InitializeBarriers EXCEPT !["invokeAgents"] = SetCount(@, Cardinality(Subscribed("INVOKE")))]
    BY <1>5 DEF ReleaseParties
  <2> QED
    BY <2>1, <2>2, <2>3, GateCauses
<1> QED
  BY <1>1, <1>3, <1>4, <1>5 DEF Handler, LaunchExtension, ExtensionChannel, LaunchRuntime, RuntimeChannel,
     AwaitExternalAgentsRegistered, InitAwaitAgentsReady, AwaitRuntimeResponse, AwaitRuntimeReady,
     InvokeAwaitAgentsReady, flowVars

\* CancelFlows gives one cause to all gates, or changes nothing.
LEMMA CancelCauses ==
    ASSUME FlowType, NEW e \in CancelErrors, CancelFlows(e), NEW g \in GateNames
    PROVE  /\ canceled'
           /\ canceled => gate' = gate
           /\ ~canceled => gate'[g].canceled = TRUE /\ gate'[g].err = e
BY DEF FlowType, CancelFlows, CancelWithError, Gate

\* No gate is canceled at first.
LEMMA CauseInit == Init => CauseInv
<1>1. ASSUME Init, NEW g \in GateNames PROVE gate[g].canceled = FALSE /\ gate[g].err = NoErr
  BY <1>1 DEF Init, NewGate
<1>2. "initRuntime" \in GateNames
  BY DEF GateNames, InitGates
<1> QED
  BY <1>1, <1>2 DEF CauseInv

\* Every step keeps the gates' causes alike.
LEMMA CauseStep ==
    ASSUME TypeOK, CauseInv, [Next]_vars
    PROVE  CauseInv'
<1> USE DEF TypeOK, FlowType
<1>g. "initRuntime" \in GateNames
  BY DEF GateNames, InitGates
<1>1. ASSUME canceled' = canceled, Clearing' <=> Clearing,
             \A g \in GateNames : gate'[g].canceled = gate[g].canceled /\ gate'[g].err = gate[g].err
      PROVE  CauseInv'
  BY <1>1, <1>g DEF CauseInv
<1>2. ASSUME NEW e \in CancelErrors, CancelFlows(e) PROVE CauseInv'
  <2>1. CASE canceled
    BY <1>2, <2>1, <1>g, CancelCauses DEF CauseInv
  <2>2. CASE ~canceled
    <3>1. canceled' /\ \A g \in GateNames : gate'[g].canceled = TRUE /\ gate'[g].err = e
      BY <1>2, <2>2, <1>g, CancelCauses
    <3> QED
      BY <1>g, <3>1 DEF CauseInv
  <2> QED
    BY <2>1, <2>2
<1>3. CASE Handler \/ HandleInvoke
  <2>1. canceled' = canceled /\ rpc' = rpc
    BY <1>3, HandlerFrame DEF HandleInvoke, downVars, BeginInit, flowVars
  <2> QED
    BY <1>1, <1>3, <2>1, HandlerCauses DEF Clearing
<1>4. CASE PartyStep
  BY <1>1, <1>4, PartyFrame, PartyGates, GateCauses DEF Clearing
<1>5. CASE \/ \E p \in alive : ProcessExit(p)
           \/ \E p \in exits : WatchEvent(p)
           \/ HandleProcessExit \/ WatcherCancelFlows
  BY <1>1, <1>2, <1>5, WatcherFrame DEF Clearing
<1>6. ASSUME NEW r \in Resetters, ClearGates(r) PROVE CauseInv'
  <2>1. \A g \in GateNames : gate'[g].canceled = FALSE /\ gate'[g].err = NoErr
    BY <1>6 DEF ClearGates, Clear, Gate
  <2> QED
    BY <1>g, <2>1 DEF CauseInv
<1>7. ASSUME NEW r \in Resetters, ClearRegistrations(r) PROVE CauseInv'
  <2>1. gate' = gate /\ Clearing'
    BY <1>7 DEF ClearRegistrations, RegistrationsCleared, Clearing, DownType
  <2> QED
    BY <2>1 DEF CauseInv
<1>8. ASSUME NEW r \in Resetters, ResetStep(r), \A s \in Resetters : ~ClearRegistrations(s) /\ ~ClearGates(s)
      PROVE CauseInv'
  <2>1. UNCHANGED flowVars \/ CancelFlows("reset")
    BY <1>8 DEF ResetStep, BeginReset, BeginShutdown, ShutdownBegin, ShutdownRuntime, ShutdownAgents,
       ShutdownAgentsDeadline, ClearExitedChannel
  <2>2. Clearing' <=> Clearing
    BY <1>8, ClearingKept
  <2> QED
    BY <1>1, <1>2, <2>1, <2>2 DEF flowVars, CancelErrors
<1>9. CASE UNCHANGED vars
  BY <1>1, <1>9 DEF vars, flowVars, downVars, Clearing
<1> QED
  BY <1>3, <1>4, <1>5, <1>6, <1>7, <1>8, <1>9, StepCases DEF ResetStep

\* The refinement mapping of SB, its variables by name.
AnyReset   == \E r \in Resetters : InReset(r)
HolderNow  == IF panicked # "no" THEN "dead"
              ELSE IF pc \notin {"new", "idle"} THEN op
              ELSE IF AnyReset THEN "reset" ELSE "none"
CauseNow   == IF canceled /\ gate["initRuntime"].canceled THEN gate["initRuntime"].err ELSE "no"
OutcomeNow == IF res \in {"none", "ok", "reset"} THEN res ELSE "fail"

\* The actions of Sandbox under the mapping.
LEMMA SandboxActions ==
    /\ \A o \in {"init", "invoke"} :
          HolderNow = "none" /\ HolderNow' = o /\ CauseNow' = CauseNow /\ OutcomeNow' = OutcomeNow => SB!SandboxNext
    /\ HolderNow = "none" /\ HolderNow' = "none" /\ CauseNow' = CauseNow /\ OutcomeNow' = "fail" => SB!SandboxNext
    /\ /\ HolderNow \in {"init", "invoke"} /\ HolderNow' = "none" /\ CauseNow' = CauseNow
       /\ OutcomeNow' \in {"ok", "fail", "reset"}
       /\ OutcomeNow' = "ok" => CauseNow = "no"
       /\ OutcomeNow' = "reset" => CauseNow = "reset"
       => SB!SandboxNext
    /\ \A e \in {"nil", "exit", "reset"} :
          CauseNow = "no" /\ CauseNow' = e /\ HolderNow' = HolderNow /\ OutcomeNow' = OutcomeNow => SB!SandboxNext
    /\ HolderNow = "none" /\ HolderNow' = "reset" /\ CauseNow' = CauseNow /\ OutcomeNow' = OutcomeNow => SB!SandboxNext
    /\ HolderNow = "reset" /\ HolderNow' = "none" /\ CauseNow' = CauseNow /\ OutcomeNow' = OutcomeNow => SB!SandboxNext
    /\ HolderNow \notin {"init", "invoke"} /\ CauseNow' = "no" /\ HolderNow' = HolderNow /\ OutcomeNow' = OutcomeNow
       => SB!SandboxNext
    /\ /\ HolderNow # "dead" /\ HolderNow' = "dead" /\ CauseNow' \in {"nil", "exit", "reset", "no"}
       /\ OutcomeNow' \in {"ok", "fail", "reset", "none"}
       => SB!SandboxNext
    /\ HolderNow' = HolderNow /\ CauseNow' = CauseNow /\ OutcomeNow' = OutcomeNow => UNCHANGED SB!sandboxVars
<1> USE DEF HolderNow, CauseNow, OutcomeNow, AnyReset, SB!SandboxNext, SB!Handlers, SB!Causes, SB!Outcomes
<1>1. ASSUME NEW o \in {"init", "invoke"}, HolderNow = "none", HolderNow' = o, CauseNow' = CauseNow, OutcomeNow' = OutcomeNow
      PROVE SB!SandboxNext
  BY <1>1 DEF SB!Begin
<1>2. ASSUME HolderNow = "none", HolderNow' = "none", CauseNow' = CauseNow, OutcomeNow' = "fail" PROVE SB!SandboxNext
  BY <1>2 DEF SB!FailAtOnce
<1>3. ASSUME HolderNow \in {"init", "invoke"}, HolderNow' = "none", CauseNow' = CauseNow,
             OutcomeNow' \in {"ok", "fail", "reset"},
             OutcomeNow' = "ok" => CauseNow = "no", OutcomeNow' = "reset" => CauseNow = "reset"
      PROVE  SB!SandboxNext
  BY <1>3 DEF SB!Finish
<1>4. ASSUME NEW e \in {"nil", "exit", "reset"}, CauseNow = "no", CauseNow' = e, HolderNow' = HolderNow,
             OutcomeNow' = OutcomeNow
      PROVE  SB!SandboxNext
  BY <1>4 DEF SB!Cancel
<1>5. ASSUME HolderNow = "none", HolderNow' = "reset", CauseNow' = CauseNow, OutcomeNow' = OutcomeNow PROVE SB!SandboxNext
  BY <1>5 DEF SB!Lock
<1>6. ASSUME HolderNow = "reset", HolderNow' = "none", CauseNow' = CauseNow, OutcomeNow' = OutcomeNow PROVE SB!SandboxNext
  BY <1>6 DEF SB!Unlock
<1>7. ASSUME HolderNow \notin {"init", "invoke"}, CauseNow' = "no", HolderNow' = HolderNow, OutcomeNow' = OutcomeNow
      PROVE  SB!SandboxNext
  BY <1>7 DEF SB!Rearm
<1>8. ASSUME HolderNow # "dead", HolderNow' = "dead", CauseNow' \in {"nil", "exit", "reset", "no"},
             OutcomeNow' \in {"ok", "fail", "reset", "none"}
      PROVE  SB!SandboxNext
  BY <1>8 DEF SB!Die
<1>9. ASSUME HolderNow' = HolderNow, CauseNow' = CauseNow, OutcomeNow' = OutcomeNow PROVE UNCHANGED SB!sandboxVars
  BY <1>9 DEF SB!sandboxVars
<1> HIDE DEF HolderNow, CauseNow, OutcomeNow, AnyReset, SB!SandboxNext, SB!Handlers, SB!Causes, SB!Outcomes
<1> QED
  BY <1>1, <1>2, <1>3, <1>4, <1>5, <1>6, <1>7, <1>8, <1>9

\* A handler at work goes on, or returns what its gate told it.
LEMMA HandlerReturn ==
    ASSUME TypeOK, CauseInv, Handler
    PROVE  /\ pc' # "new" /\ (pc' # "idle" => res' = res)
           /\ pc' = "idle" => /\ res' # "none"
                              /\ res' = "ok" => ~gate["initRuntime"].canceled
                              /\ res' = "reset" => /\ gate["initRuntime"].canceled
                                                   /\ gate["initRuntime"].err = "reset"
                              /\ pc = "new" => res' \notin {"ok", "reset"}
<1> USE DEF TypeOK, FlowType, Return
<1>n. /\ "extRegistered" \in GateNames /\ "restoreReady" \in GateNames /\ "initAgents" \in GateNames
      /\ "invokeResponse" \in GateNames /\ "invokeRuntime" \in GateNames /\ "invokeAgents" \in GateNames
  BY DEF GateNames, InitGates, InvokeGates
<1>e. ASSUME NEW g \in GateNames
      PROVE  /\ gate[g].canceled = gate["initRuntime"].canceled
             /\ AwaitError(gate[g]) \notin {"none", "ok"}
             /\ AwaitError(gate[g]) = "reset" => gate["initRuntime"].err = "reset"
  BY <1>e DEF CauseInv, AwaitError, Gate, CancelErrors, NoErr
<1>1. CASE HandleInit
  BY <1>1 DEF HandleInit, BeginInit
<1>2. CASE \E a \in ExtAgents : LaunchExtension(a) \/ ExtensionChannel(a)
  BY <1>2 DEF LaunchExtension, ExtensionChannel
<1>3. CASE LaunchRuntime \/ RuntimeChannel
  BY <1>3 DEF LaunchRuntime, RuntimeChannel
<1>4. CASE AwaitExternalAgentsRegistered
  BY <1>4, <1>e, <1>n DEF AwaitExternalAgentsRegistered, Await
<1>5. CASE AwaitRuntimeRestoreReady
  BY <1>5, <1>e, <1>n DEF AwaitRuntimeRestoreReady
<1>6. CASE InitAwaitAgentsReady
  BY <1>6, <1>e, <1>n DEF InitAwaitAgentsReady
<1>7. CASE ReleaseParties
  BY <1>7 DEF ReleaseParties
<1>8. CASE AwaitRuntimeResponse
  BY <1>8, <1>e, <1>n DEF AwaitRuntimeResponse, Await
<1>9. CASE AwaitRuntimeReady
  BY <1>9, <1>e, <1>n DEF AwaitRuntimeReady, InvokeSucceeds
<1>10. CASE InvokeAwaitAgentsReady
  BY <1>10, <1>e, <1>n DEF InvokeAwaitAgentsReady, InvokeSucceeds
<1> QED
  BY <1>1, <1>2, <1>3, <1>4, <1>5, <1>6, <1>7, <1>8, <1>9, <1>10 DEF Handler

\* Every step is one of Sandbox's, or one that its callers do not see.
LEMMA SandboxStep ==
    ASSUME Exclusive, TypeOK, TurnInv, CauseInv, [Next]_vars
    PROVE  [SB!SandboxNext]_(SB!sandboxVars)
<1> USE DEF TypeOK, FlowType, HandlerType
<1>g. "initRuntime" \in GateNames
  BY DEF GateNames, InitGates
<1>t. TypeOK'
  BY TypeStep
<1>v. /\ CauseNow' \in {"nil", "exit", "reset", "no"}
      /\ OutcomeNow' \in {"ok", "fail", "reset", "none"}
  BY <1>g, <1>t DEF CauseNow, OutcomeNow, Gate, CancelErrors, NoErr
<1>1. CASE UNCHANGED vars
  <2>1. HolderNow' = HolderNow /\ CauseNow' = CauseNow /\ OutcomeNow' = OutcomeNow
    BY <1>1 DEF vars, flowVars, hdlVars, downVars, HolderNow, CauseNow, OutcomeNow, AnyReset, InReset
  <2> QED
    BY <2>1, SandboxActions
<1>2. CASE ~UNCHANGED vars /\ panicked' # "no"
  <2>1. HolderNow # "dead" /\ HolderNow' = "dead"
    BY <1>2 DEF Next, HolderNow
  <2> QED
    BY <1>v, <2>1, SandboxActions
<1> SUFFICES ASSUME ~UNCHANGED vars, panicked' = "no"
             PROVE  [SB!SandboxNext]_(SB!sandboxVars)
  BY <1>1, <1>2
<1>p. panicked = "no" /\ panicked' = "no"
  BY DEF Next
<1>3. CASE Handler
  <2>1. /\ pc # "idle" /\ UNCHANGED <<canceled, op, rpc>> /\ ~AnyReset /\ ~Clearing
    BY <1>3, HandlerFrame DEF TurnInv, AnyReset, InReset, Clearing
  <2>2. CauseNow' = CauseNow /\ ~AnyReset'
    BY <1>3, <1>g, <2>1, HandlerCauses DEF CauseNow, AnyReset, InReset
  <2>3. /\ HolderNow = IF pc = "new" THEN "none" ELSE op
        /\ HolderNow' = IF pc' = "idle" THEN "none" ELSE op
        /\ pc = "new" => op = "init"
    BY <1>3, <1>p, <2>1, <2>2, HandlerReturn DEF HolderNow, TurnInv
  <2>4. CASE pc' # "idle"
    <3>1. OutcomeNow' = OutcomeNow
      BY <1>3, <2>4, HandlerReturn DEF OutcomeNow
    <3> QED
      BY <2>2, <2>3, <2>4, <3>1, SandboxActions
  <2>5. CASE pc' = "idle"
    <3>1. /\ OutcomeNow' \in {"ok", "fail", "reset"} /\ (pc = "new" => OutcomeNow' = "fail")
          /\ OutcomeNow' = "ok" => ~gate["initRuntime"].canceled
          /\ OutcomeNow' = "reset" => gate["initRuntime"].canceled /\ gate["initRuntime"].err = "reset"
      BY <1>3, <2>5, HandlerReturn DEF OutcomeNow
    <3>2. (OutcomeNow' = "ok" => CauseNow = "no") /\ (OutcomeNow' = "reset" => CauseNow = "reset")
      BY <2>1, <3>1 DEF CauseNow, CauseInv
    <3> QED
      BY <2>2, <2>3, <2>5, <3>1, <3>2, SandboxActions
  <2> QED
    BY <2>4, <2>5
<1>4. CASE HandleInvoke
  <2>1. pc = "idle" /\ UNCHANGED <<canceled, rpc>> /\ ~AnyReset /\ op' = "invoke"
    BY <1>4 DEF HandleInvoke, MutexFree, AnyReset, BeginInit, downVars, flowVars
  <2>2. CauseNow' = CauseNow /\ ~AnyReset'
    BY <1>4, <1>g, <2>1, HandlerCauses DEF CauseNow, AnyReset, InReset
  <2>3. (pc' \in {"barriers", "extensions"} /\ res' = res) \/ (pc' = "idle" /\ res' = "ErrGateIntegrity")
    <3>1. CASE initDone
      BY <1>4, <3>1 DEF HandleInvoke
    <3>2. CASE ~initDone
      BY <1>4, <3>2, ZenonT(60) DEF HandleInvoke, BeginInit, Return
    <3> QED
      BY <3>1, <3>2
  <2>4. HolderNow = "none" /\ HolderNow' = IF pc' = "idle" THEN "none" ELSE "invoke"
    BY <1>p, <2>1, <2>2, <2>3 DEF HolderNow
  <2>5. OutcomeNow' = IF pc' = "idle" THEN "fail" ELSE OutcomeNow
    BY <2>3 DEF OutcomeNow
  <2> QED
    BY <2>2, <2>4, <2>5, SandboxActions
<1>5. CASE PartyStep
  <2>1. CauseNow' = CauseNow
    BY <1>5, <1>g, PartyFrame, PartyGates, GateCauses DEF CauseNow
  <2>2. HolderNow' = HolderNow /\ OutcomeNow' = OutcomeNow
    BY <1>5, PartyFrame DEF HolderNow, OutcomeNow, AnyReset, InReset
  <2> QED
    BY <2>1, <2>2, SandboxActions
<1>6. ASSUME NEW e \in CancelErrors, CancelFlows(e), HolderNow' = HolderNow, OutcomeNow' = OutcomeNow
      PROVE  [SB!SandboxNext]_(SB!sandboxVars)
  <2>1. CASE canceled
    <3>1. CauseNow' = CauseNow
      BY <1>6, <1>g, <2>1, CancelCauses DEF CauseNow
    <3> QED
      BY <1>6, <3>1, SandboxActions
  <2>2. CASE ~canceled
    <3>1. CauseNow = "no" /\ CauseNow' = e
      BY <1>6, <1>g, <2>2, CancelCauses DEF CauseNow
    <3> QED
      BY <1>6, <3>1, SandboxActions DEF CancelErrors, NoErr
  <2> QED
    BY <2>1, <2>2
<1>7. CASE \/ \E p \in alive : ProcessExit(p)
           \/ \E p \in exits : WatchEvent(p)
           \/ HandleProcessExit \/ WatcherCancelFlows
  <2>1. HolderNow' = HolderNow /\ OutcomeNow' = OutcomeNow
    BY <1>7, <1>p, WatcherFrame DEF HolderNow, OutcomeNow, AnyReset, InReset
  <2>2. CASE UNCHANGED <<gate, canceled>>
    BY <2>1, <2>2, SandboxActions DEF CauseNow
  <2> QED
    BY <1>6, <1>7, <2>1, <2>2, WatcherFrame
<1>8. ASSUME NEW r \in Resetters, ResetStep(r) PROVE [SB!SandboxNext]_(SB!sandboxVars)
  <2>0. /\ UNCHANGED <<pc, op, res>> /\ OutcomeNow' = OutcomeNow
        /\ \A s \in Resetters : s # r => (InReset(s)' <=> InReset(s))
        /\ \A s \in Resetters : InReset(s) => pc = "idle" /\ (InReset(r) => s = r)
    BY <1>8, ResetFrame DEF OutcomeNow, InReset, TurnInv
  <2>1. CASE (InReset(r)' <=> InReset(r)) /\ ~ClearRegistrations(r) /\ ~ClearGates(r)
    <3>1. HolderNow' = HolderNow
      BY <1>p, <2>0, <2>1 DEF HolderNow, AnyReset
    <3>2. UNCHANGED flowVars \/ CancelFlows("reset")
      BY <1>8, <2>1 DEF ResetStep, BeginReset, BeginShutdown, ShutdownBegin, ShutdownRuntime, ShutdownAgents,
         ShutdownAgentsDeadline, ClearExitedChannel
    <3>3. CASE UNCHANGED flowVars
      BY <2>0, <3>1, <3>3, SandboxActions DEF CauseNow, flowVars
    <3> QED
      BY <1>6, <2>0, <3>1, <3>2, <3>3 DEF CancelErrors
  <2>2. CASE ClearRegistrations(r) \/ ClearGates(r)
    <3>1. pc = "idle" /\ ~InReset(r) /\ ~InReset(r)'
      BY <2>2 DEF ClearRegistrations, RegistrationsCleared, ClearGates, TurnInv, InReset, DownType
    <3>2. CauseNow' = "no"
      <4>1. CASE ClearRegistrations(r)
        BY <4>1 DEF ClearRegistrations, RegistrationsCleared, CauseNow
      <4>2. CASE ClearGates(r)
        <5>1. gate'["initRuntime"] = Clear(gate["initRuntime"]) /\ gate["initRuntime"] \in Gate
          BY <1>g, <4>2 DEF ClearGates
        <5>2. gate'["initRuntime"].canceled = FALSE
          BY <5>1 DEF Clear, Gate
        <5> QED
          BY <5>2 DEF CauseNow
      <4> QED
        BY <2>2, <4>1, <4>2
    <3>3. HolderNow' = HolderNow /\ HolderNow \notin {"init", "invoke"}
      BY <1>p, <2>0, <3>1 DEF HolderNow, AnyReset
    <3> QED
      BY <2>0, <3>2, <3>3, SandboxActions
  <2>3. CASE ShutdownBegin(r)
    <3>1. ~AnyReset /\ pc = "idle" /\ InReset(r)' /\ UNCHANGED flowVars
      BY <2>3 DEF ShutdownBegin, MutexFree, AnyReset, InReset, DownType
    <3>2. HolderNow = "none" /\ HolderNow' = "reset"
      BY <1>p, <2>0, <3>1 DEF HolderNow, AnyReset
    <3>3. CauseNow' = CauseNow
      BY <3>1 DEF CauseNow, flowVars
    <3> QED
      BY <2>0, <3>2, <3>3, SandboxActions
  <2>4. CASE ClearExitedChannel(r)
    <3>1. InReset(r) /\ ~InReset(r)' /\ UNCHANGED flowVars
      BY <2>4 DEF ClearExitedChannel, InReset, DownType
    <3>2. HolderNow = "reset" /\ HolderNow' = "none"
      BY <1>p, <2>0, <3>1 DEF HolderNow, AnyReset
    <3>3. CauseNow' = CauseNow
      BY <3>1 DEF CauseNow, flowVars
    <3> QED
      BY <2>0, <3>2, <3>3, SandboxActions
  <2>5. CASE BeginReset(r) \/ BeginShutdown(r) \/ ShutdownRuntime(r) \/ ShutdownAgents(r) \/ ShutdownAgentsDeadline(r)
    <3>1. InReset(r)' <=> InReset(r)
      BY <2>5 DEF BeginReset, BeginShutdown, ShutdownRuntime, ShutdownAgents, ShutdownAgentsDeadline, InReset, DownType
    <3> QED
      BY <2>1, <2>2, <3>1
  <2> QED
    BY <1>8, <2>2, <2>3, <2>4, <2>5 DEF ResetStep
<1> QED
  BY <1>3, <1>4, <1>5, <1>7, <1>8, StepCases DEF ResetStep

\* The sandbox keeps what its abstract specification promises (ImplementsSandbox): one operation
\* at a time, success only of handlers that nobody canceled, "reset" only from a reset, and no
\* re-arming under a handler.  The watcher may be late and requests may outlive their runtime.
THEOREM DomainImplementsSandbox ==
    ASSUME Exclusive
    PROVE  Spec => ImplementsSandbox
<1>1. Init => SB!SandboxInit
  BY DEF Init, SB!SandboxInit, InReset
<1>2. Init => CauseInv
  BY CauseInit
<1>3. TypeOK /\ CauseInv /\ [Next]_vars => CauseInv'
  BY CauseStep
<1>4. TypeOK /\ DomainInv /\ CauseInv /\ [Next]_vars => [SB!SandboxNext]_(SB!sandboxVars)
  BY SandboxStep DEF DomainInv
<1> QED
  BY <1>1, <1>2, <1>3, <1>4, TypeCorrect, DomainInvariant, PTL DEF Spec, ImplementsSandbox, SB!SandboxSpec

-----------------------------------------------------------------------------
(* The event of an invoke.  While nothing has canceled the flows, the runtime goes around once *)
(* per invoke: it is woken, answers, says that the answer is sent, and asks for work again.     *)

Armed    == ~gate["initRuntime"].canceled
Invoking == {"awaitResponse", "awaitReady", "awaitInvokeAgents"}

\* Where the runtime is on its way tells which of the invoke's gates it has passed, and so
\* where the handler can be.
EventInv ==
    /\ stale = 0
    /\ gate["invokeResponse"].count = 1 /\ gate["invokeRuntime"].count = 1
    /\ runtime.state = "nil" => ~runtime.flag
    /\ Armed => /\ runtime.flag => runtime.state = "Ready"
                /\ runtime.flag \/ runtime.state \in {"Running", "Response"}
                     => /\ pc = "awaitResponse"
                        /\ gate["invokeResponse"].arrived = 0 /\ gate["invokeRuntime"].arrived = 0
                /\ runtime.state = "ResponseSent"
                     => pc \in {"awaitResponse", "awaitReady"} /\ gate["invokeRuntime"].arrived = 0

\* Steps that leave the runtime, the handler and the two gates alone, or cancel them.
LEMMA EventKept ==
    ASSUME EventInv, UNCHANGED <<stale, runtime, pc>>, Armed' => Armed,
           \A g \in {"invokeResponse", "invokeRuntime"} :
              gate'[g].count = gate[g].count /\ gate'[g].arrived = gate[g].arrived
    PROVE  EventInv'
<1>1. /\ gate'["invokeResponse"].count = gate["invokeResponse"].count
      /\ gate'["invokeResponse"].arrived = gate["invokeResponse"].arrived
      /\ gate'["invokeRuntime"].count = gate["invokeRuntime"].count
      /\ gate'["invokeRuntime"].arrived = gate["invokeRuntime"].arrived
  OBVIOUS
<1>2. runtime'.state = runtime.state /\ runtime'.flag = runtime.flag
  OBVIOUS
<1> QED
  BY <1>1, <1>2 DEF EventInv

\* The handlers keep it.
LEMMA HandlerEvent ==
    ASSUME TypeOK, RuntimeInv, CauseInv, EventInv, Handler \/ HandleInvoke
    PROVE  EventInv'
<1> USE DEF TypeOK, FlowType, RuntimeType, HandlerType, Return
<1>n. /\ "invokeResponse" \in GateNames /\ "invokeRuntime" \in GateNames /\ "initRuntime" \in GateNames
      /\ "invokeResponse" \in InvokeGates /\ "invokeRuntime" \in InvokeGates
      /\ gate["invokeResponse"] \in Gate /\ gate["invokeRuntime"] \in Gate
  BY DEF GateNames, InitGates, InvokeGates
<1>s. stale' = stale
  BY HandlerFrame DEF HandleInvoke
<1>a. Armed' <=> Armed
  BY <1>n, HandlerCauses DEF Armed
<1>g. ~ReleaseParties => gate'["invokeResponse"] = gate["invokeResponse"] /\ gate'["invokeRuntime"] = gate["invokeRuntime"]
  BY <1>n, HandlerGates
<1>c. Armed => ~gate["invokeResponse"].canceled /\ ~gate["invokeRuntime"].canceled
  BY <1>n DEF Armed, CauseInv
<1>1. CASE ReleaseParties
  <2>1. pc = "barriers" /\ runtime.state \in RuntimeStates /\ runtime.state # "nil" /\ runtime.state \notin Early
    BY <1>1 DEF ReleaseParties, RuntimeInv, Later, Early, RuntimeRec
  <2>2. /\ gate'["invokeResponse"] = Reset(gate["invokeResponse"])
        /\ gate'["invokeRuntime"] = Reset(gate["invokeRuntime"])
    BY <1>1, <1>n DEF ReleaseParties, InitializeBarriers
  <2>3. /\ gate'["invokeResponse"].count = 1 /\ gate'["invokeRuntime"].count = 1
        /\ Armed => gate'["invokeResponse"].arrived = 0 /\ gate'["invokeRuntime"].arrived = 0
    BY <1>c, <1>n, <2>2, GateNumbers DEF EventInv
  <2>4. Armed => runtime.state = "Ready" /\ ~runtime.flag
    BY <2>1 DEF EventInv, RuntimeStates, Early
  <2>5. runtime'.state = runtime.state
    BY <1>1, <2>1 DEF ReleaseParties, RuntimeRec
  <2>6. pc' = "awaitResponse" \/ runtime' = runtime
    BY <1>1 DEF ReleaseParties
  <2> QED
    BY <1>a, <1>s, <2>1, <2>3, <2>4, <2>5, <2>6 DEF EventInv
<1>2. CASE AwaitRuntimeResponse
  <2>1. /\ runtime' = runtime /\ Passable(gate["invokeResponse"]) /\ ~ReleaseParties
        /\ pc = "awaitResponse" /\ (~gate["invokeResponse"].canceled => pc' = "awaitReady")
    BY <1>2 DEF AwaitRuntimeResponse, Await, partyVars, ReleaseParties
  <2>2. Armed => gate["invokeResponse"].arrived = 1
    BY <1>c, <2>1 DEF Passable, EventInv
  <2> QED
    BY <1>a, <1>c, <1>g, <1>s, <2>1, <2>2 DEF EventInv
<1>3. CASE AwaitRuntimeReady
  <2>1. /\ runtime' = runtime /\ Passable(gate["invokeRuntime"]) /\ ~ReleaseParties
        /\ pc = "awaitReady"
    BY <1>3 DEF AwaitRuntimeReady, partyVars, ReleaseParties
  <2>2. Armed => gate["invokeRuntime"].arrived = 1
    BY <1>c, <2>1 DEF Passable, EventInv
  <2> QED
    BY <1>a, <1>g, <1>s, <2>1, <2>2 DEF EventInv
<1>4. CASE LaunchRuntime
  <2>1. pc = "runtime" /\ ~ReleaseParties
    BY <1>4 DEF LaunchRuntime, ReleaseParties
  <2>2. runtime' = runtime \/ (runtime'.state = "Started" /\ ~runtime'.flag)
    BY <1>4, NewRuntimeFields DEF LaunchRuntime, ProcType
  <2>3. Armed => ~runtime.flag /\ runtime.state \notin {"Running", "Response", "ResponseSent"}
    BY <2>1 DEF EventInv
  <2>4. CASE runtime' = runtime
    BY <1>a, <1>g, <1>s, <2>1, <2>3, <2>4 DEF EventInv
  <2>5. CASE runtime'.state = "Started" /\ ~runtime'.flag
    BY <1>a, <1>g, <1>s, <2>1, <2>5 DEF EventInv
  <2> QED
    BY <2>2, <2>4, <2>5
<1>5. ASSUME runtime' = runtime, pc \notin {"awaitResponse", "awaitReady"}, ~ReleaseParties PROVE EventInv'
  <2>1. Armed => ~runtime.flag /\ runtime.state \notin {"Running", "Response", "ResponseSent"}
    BY <1>5 DEF EventInv
  <2> QED
    BY <1>a, <1>g, <1>s, <1>5, <2>1 DEF EventInv
<1>6. CASE HandleInit \/ HandleInvoke
  BY <1>5, <1>6 DEF HandleInit, HandleInvoke, MutexFree, partyVars, ReleaseParties
<1>7. CASE \E a \in ExtAgents : LaunchExtension(a) \/ ExtensionChannel(a)
  BY <1>5, <1>7 DEF LaunchExtension, ExtensionChannel, partyVars, ReleaseParties
<1>8. CASE RuntimeChannel \/ AwaitExternalAgentsRegistered \/ AwaitRuntimeRestoreReady \/ InitAwaitAgentsReady
           \/ InvokeAwaitAgentsReady
  BY <1>5, <1>8 DEF RuntimeChannel, AwaitExternalAgentsRegistered, AwaitRuntimeRestoreReady, InitAwaitAgentsReady,
     InvokeAwaitAgentsReady, partyVars, ReleaseParties
<1> QED
  BY <1>1, <1>2, <1>3, <1>4, <1>6, <1>7, <1>8 DEF Handler

\* The requests of the Runtime API keep it.
LEMMA PartyEvent ==
    ASSUME TypeOK, EventInv, PartyStep
    PROVE  EventInv'
<1> USE DEF TypeOK, FlowType, RuntimeType
<1>n. /\ "invokeResponse" \in GateNames /\ "invokeRuntime" \in GateNames /\ "initRuntime" \in GateNames
      /\ gate["invokeResponse"] \in Gate /\ gate["invokeRuntime"] \in Gate /\ gate["initRuntime"] \in Gate
  BY DEF GateNames, InitGates, InvokeGates
<1>p. pc' = pc /\ runtime \in RuntimeRec
  BY PartyFrame
<1>a. Armed' <=> Armed
  BY <1>n, PartyGates, GateCauses DEF Armed
<1>c. \A g \in {"invokeResponse", "invokeRuntime"} : gate'[g].count = gate[g].count
  BY <1>n, PartyGates, GateNumbers
<1>r. /\ ~RuntimeResponseSent /\ ~StaleResponseSent => gate'["invokeResponse"] = gate["invokeResponse"]
      /\ ~(RuntimeNext /\ ResponseSentReady) => gate'["invokeRuntime"] = gate["invokeRuntime"]
  BY <1>n, PartyGates
<1>1. CASE RuntimeNext
  <2>1. stale' = stale /\ ~RuntimeResponseSent /\ ~StaleResponseSent
    <3>1. stale' = stale /\ stale = 0
      BY <1>1 DEF RuntimeNext, EventInv
    <3>2. ~RuntimeResponseSent
      BY <1>1 DEF RuntimeNext, RuntimeResponseSent, StartedReady, ResponseSentReady, ReadyReady, RuntimeRec
    <3> QED
      BY <3>1, <3>2 DEF StaleResponseSent
  <2>2. /\ runtime'.state = "Ready" /\ runtime'.flag = runtime.flag
        /\ runtime.state \in {"Started", "ResponseSent", "Ready"}
        /\ runtime.state # "ResponseSent" => ~ResponseSentReady
    BY <1>1, <1>p DEF RuntimeNext, StartedReady, ResponseSentReady, ReadyReady, RuntimeRec
  <2> QED
    BY <1>a, <1>c, <1>p, <1>r, <2>1, <2>2 DEF EventInv
<1>2. CASE RuntimeResume
  <2>1. /\ UNCHANGED <<gate, stale>> /\ runtime.flag
        /\ runtime'.state = "Running" /\ ~runtime'.flag
    BY <1>2, <1>p DEF RuntimeResume, RuntimeRec, flowVars
  <2> QED
    BY <1>a, <1>p, <2>1 DEF EventInv
<1>3. CASE RuntimeRespond \/ RuntimeRespondRefused
  <2>1. /\ UNCHANGED <<gate, stale>> /\ runtime.state = "Running"
        /\ runtime'.state = "Response" /\ runtime'.flag = runtime.flag
    BY <1>3, <1>p DEF RuntimeRespond, RuntimeRespondRefused, Respond, RuntimeRec, flowVars
  <2> QED
    BY <1>a, <1>p, <2>1 DEF EventInv
<1>4. CASE RuntimeResponseSent
  <2>1. /\ UNCHANGED stale /\ runtime.state = "Response"
        /\ runtime'.state = "ResponseSent" /\ runtime'.flag = runtime.flag
    BY <1>4, <1>p DEF RuntimeResponseSent, RuntimeRec
  <2>2. gate'["invokeRuntime"] = gate["invokeRuntime"]
    BY <1>4, <1>n DEF RuntimeResponseSent
  <2> QED
    BY <1>a, <1>c, <1>p, <2>1, <2>2 DEF EventInv
<1>5. CASE RuntimeInitError
  <2>1. /\ UNCHANGED <<gate, stale>> /\ runtime.state = "Started"
        /\ runtime'.state = "InitError" /\ runtime'.flag = runtime.flag
    BY <1>5, <1>p DEF RuntimeInitError, RuntimeRec, flowVars
  <2> QED
    BY <1>a, <1>p, <2>1 DEF EventInv
<1>6. CASE StaleResponseSent
  BY <1>6 DEF StaleResponseSent, EventInv
<1>7. CASE \E a \in Agents : RegisterExternal(a) \/ RegisterInternal(a) \/ AgentNext(a) \/ AgentResume(a) \/ AgentError(a)
  <2>1. UNCHANGED <<runtime, stale>>
    BY <1>7 DEF RegisterExternal, RegisterInternal, AgentNext, AgentResume, AgentError
  <2>2. ~RuntimeResponseSent /\ ~StaleResponseSent /\ ~(RuntimeNext /\ ResponseSentReady)
    <3>1. ASSUME RuntimeResponseSent PROVE FALSE
      <4>1. runtime.state = "Response" /\ runtime'.state = "ResponseSent"
        BY <3>1, <1>p DEF RuntimeResponseSent, RuntimeRec
      <4> QED
        BY <2>1, <4>1
    <3>2. ASSUME ResponseSentReady PROVE FALSE
      <4>1. runtime.state = "ResponseSent" /\ runtime'.state = "Ready"
        BY <3>2, <1>p DEF ResponseSentReady, RuntimeRec
      <4> QED
        BY <2>1, <4>1
    <3>3. ~StaleResponseSent
      BY DEF StaleResponseSent, EventInv
    <3> QED
      BY <3>1, <3>2, <3>3
  <2> QED
    BY <1>a, <1>p, <1>r, <2>1, <2>2, EventKept
<1> QED
  BY <1>1, <1>2, <1>3, <1>4, <1>5, <1>6, <1>7 DEF PartyStep

\* Every step keeps it, if no request outlives its runtime.
LEMMA EventStep ==
    ASSUME ~StaleHandlers, TypeOK, TurnInv, RuntimeInv, CauseInv, EventInv, [Next]_vars
    PROVE  EventInv'
<1> USE DEF TypeOK, FlowType
<1>n. /\ "invokeResponse" \in GateNames /\ "invokeRuntime" \in GateNames /\ "initRuntime" \in GateNames
      /\ gate["invokeResponse"] \in Gate /\ gate["invokeRuntime"] \in Gate
  BY DEF GateNames, InitGates, InvokeGates
<1>1. ASSUME NEW e \in CancelErrors, CancelFlows(e), UNCHANGED <<runtime, stale, pc>> PROVE EventInv'
  <2>1. Armed' => Armed
    BY <1>1, <1>n, CancelNumbers DEF Armed
  <2> QED
    BY <1>1, <1>n, <2>1, CancelNumbers, EventKept
<1>2. ASSUME UNCHANGED <<gate, runtime, stale, pc>> PROVE EventInv'
  BY <1>2, EventKept DEF Armed
<1>3. CASE Handler \/ HandleInvoke
  BY <1>3, HandlerEvent
<1>4. CASE PartyStep
  BY <1>4, PartyEvent
<1>5. CASE \/ \E p \in alive : ProcessExit(p)
           \/ \E p \in exits : WatchEvent(p)
           \/ HandleProcessExit \/ WatcherCancelFlows
  BY <1>1, <1>2, <1>5, WatcherFrame
<1>6. ASSUME NEW r \in Resetters, ResetStep(r) PROVE EventInv'
  <2>1. pc' = pc
    BY <1>6, ResetFrame
  <2>2. CASE ClearRegistrations(r)
    <3>1. gate' = gate /\ runtime'.state = "nil" /\ ~runtime'.flag /\ stale' = stale
      BY <2>2, EmptyRecords DEF ClearRegistrations, RegistrationsCleared
    <3> QED
      BY <3>1 DEF EventInv
  <2>3. CASE ClearGates(r)
    <3>1. UNCHANGED <<runtime, stale>> /\ runtime.state = "nil" /\ ~runtime.flag
      BY <2>3 DEF ClearGates, partyVars, TurnInv, Clearing, Nobody, EventInv
    <3>2. gate'["invokeResponse"].count = 1 /\ gate'["invokeRuntime"].count = 1
      BY <1>n, <2>3, GateNumbers DEF ClearGates, EventInv
    <3> QED
      BY <3>1, <3>2 DEF EventInv
  <2>4. CASE ~ClearRegistrations(r) /\ ~ClearGates(r)
    <3>1. UNCHANGED <<runtime, stale>> /\ (UNCHANGED gate \/ CancelFlows("reset"))
      BY <1>6, <2>4 DEF ResetStep, BeginReset, BeginShutdown, ShutdownBegin, ShutdownRuntime, ShutdownAgents,
         ShutdownAgentsDeadline, ClearExitedChannel, partyVars, flowVars
    <3> QED
      BY <1>1, <1>2, <2>1, <3>1 DEF CancelErrors
  <2> QED
    BY <2>2, <2>3, <2>4
<1>7. CASE UNCHANGED vars
  BY <1>2, <1>7 DEF vars, flowVars, partyVars, hdlVars
<1> QED
  BY <1>3, <1>4, <1>5, <1>6, <1>7, StepCases DEF ResetStep

\* Only the end of a suspended /next request wakes the runtime.
LEMMA RuntimeWakes ==
    ASSUME TypeOK, [Next]_vars, runtime.state # "Running", runtime'.state = "Running"
    PROVE  RuntimeResume
<1> USE DEF TypeOK, RuntimeType, RuntimeRec, partyVars
<1>1. CASE UNCHANGED runtime
  BY <1>1
<1>2. CASE LaunchRuntime
  <2>1. runtime' = runtime \/ runtime'.state = "Started"
    BY <1>2, NewRuntimeFields DEF LaunchRuntime, ProcType
  <2> QED
    BY <2>1
<1>3. CASE ReleaseParties
  BY <1>3 DEF ReleaseParties
<1>4. CASE HandleInit \/ HandleInvoke
  BY <1>1, <1>4 DEF HandleInit, HandleInvoke
<1>5. CASE Handler
  BY <1>1, <1>2, <1>3, <1>4, <1>5 DEF Handler, LaunchExtension, ExtensionChannel, RuntimeChannel,
     AwaitExternalAgentsRegistered, AwaitRuntimeRestoreReady, InitAwaitAgentsReady, AwaitRuntimeResponse,
     AwaitRuntimeReady, InvokeAwaitAgentsReady
<1>6. CASE RuntimeNext
  BY <1>6 DEF RuntimeNext, StartedReady, ResponseSentReady, ReadyReady
<1>7. CASE RuntimeRespond \/ RuntimeRespondRefused \/ RuntimeResponseSent \/ RuntimeInitError
  BY <1>7 DEF RuntimeRespond, RuntimeRespondRefused, Respond, RuntimeResponseSent, RuntimeInitError
<1>8. CASE PartyStep
  BY <1>1, <1>6, <1>7, <1>8 DEF PartyStep, StaleResponseSent, RegisterExternal, RegisterInternal, AgentNext,
     AgentResume, AgentError
<1>9. ASSUME NEW r \in Resetters, ResetStep(r) PROVE FALSE
  <2>1. CASE ClearRegistrations(r)
    BY <2>1, EmptyRecords DEF ClearRegistrations, RegistrationsCleared
  <2> QED
    BY <1>1, <1>9, <2>1 DEF ResetStep, BeginReset, BeginShutdown, ShutdownBegin, ShutdownRuntime, ShutdownAgents,
       ShutdownAgentsDeadline, ClearExitedChannel, ClearGates
<1>10. CASE UNCHANGED vars
  BY <1>1, <1>10 DEF vars
<1> QED
  BY <1>1, <1>4, <1>5, <1>8, <1>9, <1>10, StepCases, WatcherFrame DEF ResetStep

\* The runtime gets an event only from an invoke that waits for its answer, or when the flows
\* are canceled (EventOnlyWhenInvoked): it never works on one that was answered already.
THEOREM EventsOnlyWhenInvoked ==
    ASSUME Exclusive, ~StaleHandlers
    PROVE  Spec => EventOnlyWhenInvoked
<1>1. Init => CauseInv /\ EventInv
  <2> SUFFICES ASSUME Init PROVE CauseInv /\ EventInv
    OBVIOUS
  <2>1. /\ gate["invokeResponse"].count = 1 /\ gate["invokeRuntime"].count = 1
    BY DEF Init, GateNames, InvokeGates, NewGate
  <2>2. EventInv
    BY <2>1, EmptyRecords DEF Init, EventInv
  <2> QED
    BY <2>2, CauseInit
<1>2. TypeOK /\ DomainInv /\ CauseInv /\ EventInv /\ [Next]_vars => (CauseInv /\ EventInv)'
  BY CauseStep, EventStep DEF DomainInv
<1>3. TypeOK /\ DomainInv /\ CauseInv /\ EventInv /\ [Next]_vars
        => [(runtime.state # "Running" /\ runtime'.state = "Running")
               => (op = "invoke" /\ pc = "awaitResponse") \/ canceled]_vars
  <2> SUFFICES ASSUME TypeOK, DomainInv, CauseInv, EventInv, [Next]_vars,
                      runtime.state # "Running", runtime'.state = "Running", ~canceled
               PROVE  op = "invoke" /\ pc = "awaitResponse"
    OBVIOUS
  <2>1. runtime.waiting /\ runtime.flag
    BY RuntimeWakes DEF RuntimeResume
  <2>2. Armed
    BY <2>1 DEF CauseInv, Armed, DomainInv, TurnInv, Nobody
  <2>3. pc = "awaitResponse" /\ initDone
    BY <2>1, <2>2 DEF EventInv, DomainInv, RuntimeInv
  <2> QED
    BY <2>3 DEF DomainInv, TurnInv, TypeOK, HandlerType
<1> QED
  BY <1>1, <1>2, <1>3, TypeCorrect, DomainInvariant, PTL DEF Spec, EventOnlyWhenInvoked

-----------------------------------------------------------------------------
(* The extensions that an invoke waits for. *)

\* The subscribers that are back from the invoke.
Back == {a \in Subscribed("INVOKE") : ~agent[a].flag /\ agent[a].state \in {"Ready", "ExitError"}}

\* Only subscribers are given events, between invokes nobody works on one, no extension has two,
\* and no more of them went through the gate than are back.
BackInv ==
    /\ initDone /\ ~Ending
         => \A a \in Agents : agent[a].flag \/ agent[a].state = "Running" => a \in Subscribed("INVOKE")
    /\ Armed /\ initDone /\ ~Ending /\ pc \notin Invoking
         => \A a \in Agents : ~agent[a].flag /\ agent[a].state # "Running"
    /\ pc \in Invoking => gate["invokeAgents"].count = Cardinality(Subscribed("INVOKE"))
    /\ Armed /\ pc \in Invoking => /\ \A a \in Agents : ~(agent[a].flag /\ agent[a].state = "Running")
                                   /\ gate["invokeAgents"].arrived <= Cardinality(Back)

\* A subscriber that comes back is counted once, and one that is back stays so.
LEMMA BackGrows ==
    ASSUME TypeOK, TurnInv, RuntimeInv, AgentsInv, BackInv, [Next]_vars, Armed, pc \in Invoking,
           ~ReleaseParties, \A r \in Resetters : ~ShutdownAgents(r) /\ ~ClearRegistrations(r)
    PROVE  gate'["invokeAgents"].arrived <= Cardinality(Back')
<1> USE DEF TypeOK, FlowType
<1>g. gate["invokeAgents"] \in Gate /\ gate'["invokeAgents"] \in Gate
  BY TypeStep DEF GateNames, InvokeGates
<1>n. gate["invokeAgents"].arrived \in Nat /\ gate'["invokeAgents"].arrived \in Nat
  BY <1>g DEF Gate
<1>i. initDone /\ ~Ending
  BY DEF RuntimeInv, TurnInv, Invoking, Ending
<1>f. Subscribed("INVOKE")' = Subscribed("INVOKE")
  BY <1>i, SubscribersFixed
<1>s. Subscribed("INVOKE") \in SUBSET Agents /\ Back \in SUBSET Agents /\ Back' \in SUBSET Agents
  BY <1>f DEF Back, Subscribed, Registered
<1>1. Back \in SUBSET Back'
  <2>1. ASSUME NEW a \in Back PROVE a \in Back'
    <3>1. a \in Agents /\ a \in Subscribed("INVOKE")' /\ AgentStays(agent[a], agent'[a])
      BY <1>f, <1>s, AgentsSleep DEF Back
    <3>2. agent'[a].state # "none"
      BY <3>1 DEF Subscribed, Registered
    <3> QED
      BY <2>1, <3>1, <3>2 DEF Back, AgentStays
  <2> QED
    BY <2>1
<1>2. Cardinality(Back) \in Nat /\ Cardinality(Back') \in Nat /\ Cardinality(Back) <= Cardinality(Back')
  BY <1>1, <1>s, CountMonotone
<1>3. gate["invokeAgents"].arrived <= Cardinality(Back)
  BY DEF BackInv
<1>4. ASSUME NEW a \in Agents, AgentNext(a), agent[a].state = "Running",
             gate'["invokeAgents"].arrived <= gate["invokeAgents"].arrived + 1
      PROVE  gate'["invokeAgents"].arrived <= Cardinality(Back')
  <2>1. ~agent[a].flag /\ a \in Subscribed("INVOKE")
    BY <1>4, <1>i DEF BackInv
  <2>2. agent'[a].state = "Ready" /\ ~agent'[a].flag
    BY <1>4, <2>1 DEF AgentNext, AgentType, AgentRec
  <2>3. a \in Back' /\ a \notin Back
    BY <1>4, <1>f, <2>1, <2>2 DEF Back
  <2>4. Cardinality(Back) + 1 <= Cardinality(Back')
    BY <1>1, <1>s, <2>3, CountOneMore
  <2> QED
    BY <1>2, <1>3, <1>4, <1>n, <2>4
<1> QED
  BY <1>2, <1>3, <1>4, <1>n, InvokeArrivals

\* Steps that do not take the handler from one part of the invariant to another.
LEMMA BackKept ==
    ASSUME TypeOK, TurnInv, RuntimeInv, AgentsInv, BackInv, [Next]_vars,
           ~ReleaseParties, \A r \in Resetters : ~ShutdownAgents(r) /\ ~ClearRegistrations(r),
           Armed' => Armed, initDone' => initDone, pc' \in Invoking <=> pc \in Invoking
    PROVE  BackInv'
<1>1. \A a \in Agents : AgentStays(agent[a], agent'[a])
  BY AgentsSleep
<1>2. initDone => Subscribed("INVOKE")' = Subscribed("INVOKE")
  BY SubscribersFixed
<1>3. Ending => Ending'
  BY EndingKept
<1>4. pc \in Invoking => initDone
  BY DEF RuntimeInv, Invoking
<1>5. initDone' /\ ~Ending' => \A a \in Agents : agent'[a].flag \/ agent'[a].state = "Running" => a \in Subscribed("INVOKE")'
  BY <1>1, <1>2, <1>3 DEF BackInv, AgentStays
<1>6. Armed' /\ initDone' /\ ~Ending' /\ pc' \notin Invoking => \A a \in Agents : ~agent'[a].flag /\ agent'[a].state # "Running"
  BY <1>1, <1>3 DEF BackInv, AgentStays
<1>7. pc' \in Invoking => gate'["invokeAgents"].count = Cardinality(Subscribed("INVOKE")')
  BY <1>2, <1>4, InvokeArrivals DEF BackInv
<1>8. Armed' /\ pc' \in Invoking => \A a \in Agents : ~(agent'[a].flag /\ agent'[a].state = "Running")
  BY <1>1 DEF BackInv, AgentStays
<1>9. Armed' /\ pc' \in Invoking => gate'["invokeAgents"].arrived <= Cardinality(Back')
  BY BackGrows
<1> QED
  BY <1>5, <1>6, <1>7, <1>8, <1>9 DEF BackInv

\* When the last gate of an invoke opens, every subscriber is back; with no extension at all
\* there is nothing to wait for.
LEMMA AllBack ==
    ASSUME TypeOK, TurnInv, RuntimeInv, CauseInv, BackInv, Armed,
           \/ AwaitRuntimeReady /\ pc' = "idle"
           \/ InvokeAwaitAgentsReady
    PROVE  /\ \A a \in Subscribed("INVOKE") : ~agent[a].flag /\ agent[a].state \in {"Ready", "ExitError"}
           /\ \A a \in Agents : ~agent[a].flag /\ agent[a].state # "Running"
<1> USE DEF TypeOK, FlowType
<1>n. /\ "invokeRuntime" \in GateNames /\ "invokeAgents" \in GateNames
      /\ gate["invokeAgents"] \in Gate
  BY DEF GateNames, InvokeGates
<1>c. ~gate["invokeRuntime"].canceled /\ ~gate["invokeAgents"].canceled
  BY <1>n DEF Armed, CauseInv
<1>p. pc \in Invoking
  BY DEF AwaitRuntimeReady, InvokeAwaitAgentsReady, Invoking
<1>i. initDone /\ ~Ending
  BY <1>p DEF RuntimeInv, TurnInv, Invoking, Ending
<1>s. /\ Registered \in SUBSET Agents /\ Subscribed("INVOKE") \in SUBSET Registered
      /\ Subscribed("INVOKE") \in SUBSET Agents /\ Back \in SUBSET Subscribed("INVOKE")
  BY DEF Back, Subscribed, Registered
<1>1. Back = Subscribed("INVOKE")
  <2>1. CASE AwaitRuntimeReady /\ pc' = "idle"
    <3>1. CountAgents = 0
      BY <1>c, <2>1 DEF AwaitRuntimeReady
    <3>2. IsFiniteSet(Registered)
      BY <1>s, DomainAssumption, FS_Subset
    <3>3. Registered = {}
      BY <3>1, <3>2, FS_EmptySet DEF CountAgents
    <3> QED
      BY <1>s, <3>3
  <2>2. CASE InvokeAwaitAgentsReady
    <3>1. gate["invokeAgents"].arrived = gate["invokeAgents"].count
      BY <1>c, <2>2 DEF InvokeAwaitAgentsReady, Passable
    <3>2. Cardinality(Subscribed("INVOKE")) <= Cardinality(Back)
      BY <1>p, <3>1 DEF BackInv
    <3> QED
      BY <1>s, <3>2, CountMonotone
  <2> QED
    BY <2>1, <2>2
<1>2. \A a \in Subscribed("INVOKE") : ~agent[a].flag /\ agent[a].state \in {"Ready", "ExitError"}
  BY <1>1 DEF Back
<1>3. \A a \in Agents : agent[a].flag \/ agent[a].state = "Running" => a \in Subscribed("INVOKE")
  BY <1>i DEF BackInv
<1> QED
  BY <1>2, <1>3

\* The handlers keep it.
LEMMA HandlerBack ==
    ASSUME Exclusive, TypeOK, GatesSound, TurnInv, RuntimeInv, AgentsInv, QuietInv, CauseInv, BackInv,
           [Next]_vars, Handler \/ HandleInvoke
    PROVE  BackInv'
<1> USE DEF TypeOK, FlowType, Return
<1>n. /\ "invokeResponse" \in GateNames /\ "invokeRuntime" \in GateNames /\ "invokeAgents" \in GateNames
      /\ "initRuntime" \in GateNames /\ "invokeAgents" \in InvokeGates /\ gate["invokeAgents"] \in Gate
  BY DEF GateNames, InitGates, InvokeGates
<1>d. UNCHANGED <<rpc, kind>> /\ ~Ending
  BY HandlerFrame DEF HandleInvoke, downVars, TurnInv, Ending
<1>e. ~Ending'
  BY <1>d DEF Ending
<1>a. Armed' <=> Armed
  BY <1>n, HandlerCauses DEF Armed
<1>c. Armed => ~gate["invokeResponse"].canceled /\ ~gate["invokeRuntime"].canceled /\ ~gate["invokeAgents"].canceled
  BY <1>n DEF Armed, CauseInv
<1>r. \A r \in Resetters : ~ShutdownAgents(r) /\ ~ClearRegistrations(r)
  BY <1>d DEF ShutdownAgents, ClearRegistrations, RegistrationsCleared, DownType
<1>f. initDone => Subscribed("INVOKE")' = Subscribed("INVOKE")
  BY <1>r, SubscribersFixed
<1>1. ASSUME ~ReleaseParties, initDone' => initDone, pc' \in Invoking <=> pc \in Invoking PROVE BackInv'
  BY <1>1, <1>a, <1>r, BackKept
<1>2. ASSUME pc \in Invoking, pc' = "idle", ~ReleaseParties, initDone' = initDone, agent' = agent,
             Armed => \A a \in Agents : ~agent[a].flag /\ agent[a].state # "Running"
      PROVE  BackInv'
  <2>1. initDone
    BY <1>2 DEF RuntimeInv, Invoking
  <2>2. \A a \in Agents : agent'[a].flag \/ agent'[a].state = "Running" => a \in Subscribed("INVOKE")'
    BY <1>2, <1>d, <1>f, <2>1 DEF BackInv
  <2> QED
    BY <1>2, <1>a, <2>2 DEF BackInv, Invoking
<1>3. CASE ReleaseParties
  <2>1. pc = "barriers" /\ initDone /\ initDone' = initDone
    BY <1>3 DEF ReleaseParties, RuntimeInv
  <2>2. SetCountOK(InitializeBarriers["invokeAgents"], Cardinality(Subscribed("INVOKE")))
    BY <2>1, CountsFit
  <2>3. /\ gate' = [InitializeBarriers EXCEPT !["invokeAgents"] = SetCount(@, Cardinality(Subscribed("INVOKE")))]
        /\ pc' = "awaitResponse" /\ agent' = Release(Subscribed("INVOKE"))
    BY <1>3, <2>2 DEF ReleaseParties
  <2>4. /\ InitializeBarriers["invokeAgents"] = Reset(gate["invokeAgents"])
        /\ InitializeBarriers \in [GateNames -> Gate]
    BY <1>n, ResetType DEF InitializeBarriers
  <2>5. Cardinality(Subscribed("INVOKE")) \in Nat
    <3>1. Subscribed("INVOKE") \in SUBSET Agents
      BY DEF Subscribed, Registered
    <3> QED
      BY <3>1, CountMonotone
  <2>6. gate'["invokeAgents"] = SetCount(Reset(gate["invokeAgents"]), Cardinality(Subscribed("INVOKE")))
    BY <1>n, <2>3, <2>4
  <2>7. /\ gate'["invokeAgents"].count = Cardinality(Subscribed("INVOKE"))
        /\ Armed => gate'["invokeAgents"].arrived = 0
    <3>1. SetCountOK(Reset(gate["invokeAgents"]), Cardinality(Subscribed("INVOKE")))
      BY <2>2, <2>4
    <3>2. Reset(gate["invokeAgents"]) \in Gate
      BY <1>n, ResetType
    <3>3. /\ gate'["invokeAgents"].count = Cardinality(Subscribed("INVOKE"))
          /\ gate'["invokeAgents"].arrived = Reset(gate["invokeAgents"]).arrived
      BY <2>5, <2>6, <3>1, <3>2, GateNumbers
    <3>4. Armed => Reset(gate["invokeAgents"]).arrived = 0
      BY <1>c, <1>n, GateNumbers
    <3> QED
      BY <3>3, <3>4
  <2>8. \A a \in Agents : /\ agent'[a].state = agent[a].state
                          /\ agent'[a].flag => agent[a].flag \/ a \in Subscribed("INVOKE")
    BY <2>3 DEF Release, AgentType, AgentRec
  <2>9. Cardinality(Back') \in Nat
    <3>1. Back' \in SUBSET Agents
      BY DEF Back, Subscribed, Registered
    <3> QED
      BY <3>1, CountMonotone
  <2>10. \A a \in Agents : agent'[a].flag \/ agent'[a].state = "Running" => a \in Subscribed("INVOKE")'
    BY <1>d, <1>f, <2>1, <2>8 DEF BackInv
  <2>11. Armed => \A a \in Agents : agent'[a].state # "Running"
    BY <1>d, <2>1, <2>8 DEF BackInv, Invoking
  <2> QED
    BY <1>a, <1>f, <2>1, <2>3, <2>7, <2>9, <2>10, <2>11 DEF BackInv, Invoking
<1>4. CASE InitAwaitAgentsReady
  <2>1. pc = "awaitAgents" /\ pc' \in {"idle", "barriers"} /\ ~ReleaseParties
    BY <1>4 DEF InitAwaitAgentsReady, ReleaseParties
  <2>2. Quiet'
    BY <1>r, <2>1, QuietKept DEF QuietInv
  <2> QED
    BY <2>1, <2>2 DEF BackInv, Quiet, Invoking
<1>5. CASE AwaitRuntimeResponse
  <2>1. pc = "awaitResponse" /\ ~ReleaseParties /\ agent' = agent /\ initDone' = initDone
    BY <1>5 DEF AwaitRuntimeResponse, partyVars, ReleaseParties
  <2>2. pc' = "awaitReady" \/ (pc' = "idle" /\ gate["invokeResponse"].canceled)
    BY <1>5 DEF AwaitRuntimeResponse, Await
  <2> QED
    BY <1>1, <1>2, <1>c, <2>1, <2>2 DEF Invoking
<1>6. CASE AwaitRuntimeReady
  <2>1. pc = "awaitReady" /\ ~ReleaseParties /\ agent' = agent /\ initDone' = initDone
        /\ pc' \in {"awaitInvokeAgents", "idle"}
    BY <1>6 DEF AwaitRuntimeReady, InvokeSucceeds, partyVars, ReleaseParties
  <2>2. CASE pc' = "idle"
    BY <1>2, <1>6, <2>1, <2>2, AllBack DEF Invoking
  <2> QED
    BY <1>1, <2>1, <2>2 DEF Invoking
<1>7. CASE InvokeAwaitAgentsReady
  <2>1. pc = "awaitInvokeAgents" /\ ~ReleaseParties /\ agent' = agent /\ initDone' = initDone /\ pc' = "idle"
    BY <1>7 DEF InvokeAwaitAgentsReady, InvokeSucceeds, partyVars, ReleaseParties
  <2> QED
    BY <1>2, <1>7, <2>1, AllBack DEF Invoking
<1>8. CASE HandleInit \/ HandleInvoke
  BY <1>1, <1>8 DEF HandleInit, HandleInvoke, MutexFree, BeginInit, ReleaseParties, Invoking
<1>9. CASE \E a \in ExtAgents : LaunchExtension(a) \/ ExtensionChannel(a)
  BY <1>1, <1>9 DEF LaunchExtension, ExtensionChannel, ReleaseParties, Invoking
<1>10. CASE LaunchRuntime \/ RuntimeChannel \/ AwaitExternalAgentsRegistered
  BY <1>1, <1>10 DEF LaunchRuntime, RuntimeChannel, AwaitExternalAgentsRegistered, Await, ReleaseParties, Invoking
<1>11. CASE AwaitRuntimeRestoreReady
  BY <1>1, <1>11 DEF AwaitRuntimeRestoreReady, ReleaseParties, Invoking
<1> QED
  BY <1>3, <1>4, <1>5, <1>6, <1>7, <1>8, <1>9, <1>10, <1>11 DEF Handler

\* Every step keeps it.
LEMMA BackStep ==
    ASSUME Exclusive, TypeOK, GatesSound, TurnInv, RuntimeInv, AgentsInv, QuietInv, CauseInv, BackInv,
           [Next]_vars
    PROVE  BackInv'
<1> USE DEF TypeOK, FlowType
<1>n. "initRuntime" \in GateNames
  BY DEF GateNames, InitGates
<1>1. CASE Handler \/ HandleInvoke
  BY <1>1, HandlerBack
<1>2. ASSUME UNCHANGED <<pc, initDone, rpc>>, Armed' => Armed PROVE BackInv'
  <2>1. ~ReleaseParties /\ \A r \in Resetters : ~ShutdownAgents(r) /\ ~ClearRegistrations(r)
    BY <1>2 DEF ReleaseParties, Return, ShutdownAgents, ClearRegistrations, RegistrationsCleared, DownType
  <2> QED
    BY <1>2, <2>1, BackKept
<1>3. ASSUME NEW e \in CancelErrors, CancelFlows(e) PROVE Armed' => Armed
  BY <1>3, <1>n, CancelNumbers DEF Armed
<1>4. CASE PartyStep
  <2>1. Armed' => Armed
    BY <1>4, <1>n, PartyGates, GateCauses DEF Armed
  <2> QED
    BY <1>2, <1>4, <2>1, PartyFrame
<1>5. CASE \/ \E p \in alive : ProcessExit(p)
           \/ \E p \in exits : WatchEvent(p)
           \/ HandleProcessExit \/ WatcherCancelFlows
  <2>1. Armed' => Armed
    BY <1>3, <1>5, WatcherFrame DEF Armed
  <2> QED
    BY <1>2, <1>5, <2>1, WatcherFrame
<1>6. ASSUME NEW r \in Resetters, ResetStep(r) PROVE BackInv'
  <2>0. pc' = pc /\ \A s \in Resetters : s # r => rpc'[s] = rpc[s]
    BY <1>6, ResetFrame
  <2>1. CASE ClearRegistrations(r) \/ ClearGates(r)
    <3>1. pc = "idle" /\ ~initDone'
      BY <2>1 DEF ClearRegistrations, RegistrationsCleared, ClearGates, hdlVars, TurnInv, Clearing
    <3> QED
      BY <2>0, <3>1 DEF BackInv, Invoking
  <2>2. CASE ShutdownAgents(r)
    <3>1. pc = "idle" /\ initDone' = initDone /\ (initDone => Ending')
      BY <2>2 DEF ShutdownAgents, TurnInv, QuietInv, Ending, hdlVars, DownType
    <3> QED
      BY <2>0, <3>1 DEF BackInv, Invoking
  <2>3. CASE ~ClearRegistrations(r) /\ ~ClearGates(r) /\ ~ShutdownAgents(r)
    <3>1. initDone' = initDone /\ (UNCHANGED gate \/ CancelFlows("reset"))
      BY <1>6, <2>3 DEF ResetStep, BeginReset, BeginShutdown, ShutdownBegin, ShutdownRuntime,
         ShutdownAgentsDeadline, ClearExitedChannel, hdlVars, flowVars
    <3>2. Armed' => Armed
      BY <1>3, <3>1 DEF Armed, CancelErrors
    <3>3. \A s \in Resetters : ~ClearRegistrations(s) /\ ~ShutdownAgents(s)
      BY <2>0, <2>3 DEF ClearRegistrations, RegistrationsCleared, ShutdownAgents, DownType
    <3>4. ~ReleaseParties
      BY <2>0 DEF ReleaseParties, Return
    <3> QED
      BY <2>0, <3>1, <3>2, <3>3, <3>4, BackKept
  <2> QED
    BY <2>1, <2>2, <2>3
<1>7. CASE UNCHANGED vars
  BY <1>2, <1>7 DEF vars, flowVars, hdlVars, downVars, Armed
<1> QED
  BY <1>1, <1>4, <1>5, <1>6, <1>7, StepCases DEF ResetStep

\* Only the steps of a handler end it.
LEMMA OnlyHandlersReturn ==
    ASSUME TypeOK, [Next]_vars, pc # "idle", pc' = "idle"
    PROVE  Handler
<1> USE DEF TypeOK
<1>1. CASE PartyStep
  BY <1>1, PartyFrame
<1>2. CASE \E r \in Resetters : ResetStep(r)
  BY <1>2, ResetFrame
<1>3. CASE UNCHANGED vars
  BY <1>3 DEF vars, hdlVars
<1>4. CASE HandleInvoke
  BY <1>4 DEF HandleInvoke, MutexFree
<1>5. CASE \/ \E p \in alive : ProcessExit(p)
           \/ \E p \in exits : WatchEvent(p)
           \/ HandleProcessExit \/ WatcherCancelFlows
  BY <1>5, WatcherFrame
<1> QED
  BY <1>1, <1>2, <1>3, <1>4, <1>5, StepCases DEF ResetStep

\* An invoke that succeeds ends at the last gate it waits at.
LEMMA InvokeEnds ==
    ASSUME TypeOK, CauseInv, [Next]_vars, op = "invoke", pc \notin {"idle", "new"}, pc' = "idle", res' = "ok"
    PROVE  Armed /\ (AwaitRuntimeReady \/ InvokeAwaitAgentsReady)
<1> USE DEF TypeOK, FlowType, Return
<1>1. Handler
  BY OnlyHandlersReturn
<1>2. Armed
  BY <1>1, HandlerReturn DEF Armed
<1>n. /\ "extRegistered" \in GateNames /\ "restoreReady" \in GateNames /\ "invokeResponse" \in GateNames
  BY DEF GateNames, InitGates, InvokeGates
<1>c. \A g \in {"extRegistered", "restoreReady", "invokeResponse"} : ~gate[g].canceled
  BY <1>2, <1>n DEF Armed, CauseInv
<1>3. ~HandleInit
  BY DEF HandleInit
<1>4. ASSUME NEW a \in ExtAgents PROVE ~LaunchExtension(a) /\ ~ExtensionChannel(a)
  BY DEF LaunchExtension, ExtensionChannel
<1>5. ~LaunchRuntime /\ ~RuntimeChannel
  BY DEF LaunchRuntime, RuntimeChannel
<1>6. ~AwaitExternalAgentsRegistered /\ ~AwaitRuntimeResponse
  BY <1>c DEF AwaitExternalAgentsRegistered, AwaitRuntimeResponse, Await
<1>7. ~AwaitRuntimeRestoreReady
  BY <1>c DEF AwaitRuntimeRestoreReady
<1>8. ~InitAwaitAgentsReady
  <2>1. ~gate["initAgents"].canceled
    BY <1>2 DEF Armed, CauseInv, GateNames, InitGates
  <2> QED
    BY <2>1 DEF InitAwaitAgentsReady
<1>9. ~ReleaseParties
  BY DEF ReleaseParties
<1> QED
  BY <1>1, <1>2, <1>3, <1>4, <1>5, <1>6, <1>7, <1>8, <1>9 DEF Handler

\* An invoke succeeds only when the runtime has answered and is back at /next, and so is every
\* extension that was given the event (InvokeOkMeansReady).
THEOREM InvokesOkWhenAllReady ==
    ASSUME Exclusive, ~StaleHandlers
    PROVE  Spec => InvokeOkMeansReady
<1>1. Init => CauseInv /\ EventInv /\ BackInv
  <2> SUFFICES ASSUME Init PROVE CauseInv /\ EventInv /\ BackInv
    OBVIOUS
  <2>1. /\ gate["invokeResponse"].count = 1 /\ gate["invokeRuntime"].count = 1
    BY DEF Init, GateNames, InvokeGates, NewGate
  <2>2. EventInv
    BY <2>1, EmptyRecords DEF Init, EventInv
  <2>3. BackInv
    BY DEF Init, BackInv, Invoking
  <2> QED
    BY <2>2, <2>3, CauseInit
<1>2. TypeOK /\ GatesSound /\ DomainInv /\ CauseInv /\ EventInv /\ BackInv /\ [Next]_vars
        => (CauseInv /\ EventInv /\ BackInv)'
  BY CauseStep, EventStep, BackStep DEF DomainInv
<1>3. TypeOK /\ DomainInv /\ CauseInv /\ EventInv /\ BackInv /\ [Next]_vars
        => [(op = "invoke" /\ pc # "idle" /\ pc' = "idle" /\ res' = "ok")
              => /\ runtime.state = "Ready"
                 /\ \A a \in Subscribed("INVOKE") : agent[a].state \in {"Ready", "ExitError"}]_vars
  <2> SUFFICES ASSUME TypeOK, DomainInv, CauseInv, EventInv, BackInv, [Next]_vars,
                      op = "invoke", pc # "idle", pc' = "idle", res' = "ok"
               PROVE  /\ runtime.state = "Ready"
                      /\ \A a \in Subscribed("INVOKE") : agent[a].state \in {"Ready", "ExitError"}
    OBVIOUS
  <2>0. pc # "new"
    BY DEF DomainInv, TurnInv
  <2>1. Armed /\ (AwaitRuntimeReady \/ InvokeAwaitAgentsReady)
    BY <2>0, InvokeEnds
  <2>2. pc \in {"awaitReady", "awaitInvokeAgents"}
    BY <2>1 DEF AwaitRuntimeReady, InvokeAwaitAgentsReady
  <2>3. runtime.state \notin Early
    BY <2>2 DEF DomainInv, RuntimeInv, Later
  <2>4. runtime.state \notin {"Running", "Response"}
    BY <2>1, <2>2 DEF EventInv
  <2>5. runtime.state # "ResponseSent"
    <3>1. CASE InvokeAwaitAgentsReady
      BY <2>1, <3>1 DEF EventInv, InvokeAwaitAgentsReady
    <3>2. CASE AwaitRuntimeReady
      <4>1. ~gate["invokeRuntime"].canceled
        BY <2>1 DEF Armed, CauseInv, GateNames, InvokeGates
      <4>2. gate["invokeRuntime"].arrived = 1
        BY <3>2, <4>1 DEF AwaitRuntimeReady, Passable, EventInv
      <4> QED
        BY <2>1, <4>2 DEF EventInv
    <3> QED
      BY <2>1, <3>1, <3>2
  <2>6. runtime.state = "Ready"
    BY <2>3, <2>4, <2>5 DEF TypeOK, RuntimeType, RuntimeRec, RuntimeStates, Early
  <2>7. \A a \in Subscribed("INVOKE") : agent[a].state \in {"Ready", "ExitError"}
    BY <2>1, AllBack DEF DomainInv
  <2> QED
    BY <2>6, <2>7
<1> QED
  BY <1>1, <1>2, <1>3, TypeCorrect, GatesAlwaysSound, DomainInvariant, PTL DEF Spec, InvokeOkMeansReady

-----------------------------------------------------------------------------
(* What the watcher leaves for a handler that fails. *)

\* No exit is of a generation to come, and the last one the watcher took, when it is of this
\* generation, was recorded, unless the generation is over.
ReportInv ==
    /\ watch.ev[2] <= gen /\ \A p \in exits : p[2] <= gen
    /\ shuttingDown => AnyReset
    /\ watch.ev[2] = gen => fatal # "none" \/ AnyReset \/ (~initDone /\ pc \in {"new", "idle"})

\* The parties only add a first error.
LEMMA PartyFatal ==
    ASSUME PartyStep
    PROVE  fatal # "none" => fatal' # "none"
<1> USE DEF StoreFirstFatalError, othersOfParty, partyVars, flowVars
<1>1. CASE RuntimeNext \/ RuntimeResume \/ RuntimeRespond \/ RuntimeRespondRefused
  BY <1>1 DEF RuntimeNext, RuntimeResume, RuntimeRespond, RuntimeRespondRefused, Respond
<1>2. CASE RuntimeResponseSent \/ StaleResponseSent \/ RuntimeInitError
  BY <1>2 DEF RuntimeResponseSent, StaleResponseSent, RuntimeInitError
<1>3. CASE \E a \in Agents : RegisterExternal(a) \/ RegisterInternal(a) \/ AgentNext(a)
  BY <1>3 DEF RegisterExternal, RegisterInternal, AgentNext
<1>4. CASE \E a \in Agents : AgentResume(a) \/ AgentError(a)
  BY <1>4 DEF AgentResume, AgentError, AgentInitError, AgentExitError
<1> QED
  BY <1>1, <1>2, <1>3, <1>4 DEF PartyStep

\* The handlers begin a generation or work in one, and only add a first error.
LEMMA HandlerReport ==
    ASSUME TypeOK, TurnInv, ReportInv, Handler \/ HandleInvoke
    PROVE  ReportInv'
<1> USE DEF TypeOK, ProcType, Return
<1>1. UNCHANGED <<rpc, shuttingDown, watch, exits>>
  BY HandlerFrame DEF HandleInvoke, downVars, procVars, BeginInit
<1>2. UNCHANGED AnyReset
  BY <1>1 DEF AnyReset, InReset
<1>w. watch.ev[2] \in Nat /\ \A p \in exits : p[2] \in Nat
  BY DEF ProcIds
<1>3. ASSUME gen' = gen + 1 PROVE ReportInv'
  BY <1>1, <1>2, <1>3, <1>w DEF ReportInv
<1>4. ASSUME gen' = gen, fatal # "none" => fatal' # "none",
             pc \notin {"new", "idle"} \/ (initDone /\ initDone')
      PROVE  ReportInv'
  BY <1>1, <1>2, <1>4 DEF ReportInv
<1>5. CASE HandleInit
  BY <1>3, <1>5 DEF HandleInit, BeginInit
<1>6. CASE HandleInvoke
  <2>1. CASE initDone
    BY <1>4, <1>6, <2>1 DEF HandleInvoke, procVars
  <2>2. CASE ~initDone
    BY <1>3, <1>6, <2>2 DEF HandleInvoke, BeginInit
  <2> QED
    BY <2>1, <2>2
<1> USE DEF procVars, StoreFirstFatalError
<1>7. CASE \E a \in ExtAgents : LaunchExtension(a) \/ ExtensionChannel(a)
  BY <1>4, <1>7 DEF LaunchExtension, ExtensionChannel, CreateExitedChannel
<1>8. CASE LaunchRuntime \/ RuntimeChannel
  BY <1>4, <1>8 DEF LaunchRuntime, RuntimeChannel, CreateExitedChannel
<1>9. CASE AwaitExternalAgentsRegistered \/ AwaitRuntimeRestoreReady \/ InitAwaitAgentsReady
  BY <1>4, <1>9 DEF AwaitExternalAgentsRegistered, AwaitRuntimeRestoreReady, InitAwaitAgentsReady
<1>10. CASE ReleaseParties \/ AwaitRuntimeResponse \/ AwaitRuntimeReady \/ InvokeAwaitAgentsReady
  BY <1>4, <1>10 DEF ReleaseParties, AwaitRuntimeResponse, AwaitRuntimeReady, InvokeAwaitAgentsReady
<1> QED
  BY <1>5, <1>6, <1>7, <1>8, <1>9, <1>10 DEF Handler

\* A reset deletes the errors of the generation that it ends.
LEMMA ResetReport ==
    ASSUME TypeOK, TurnInv, ProcInv, QuietInv, ReportInv, NEW r \in Resetters, ResetStep(r)
    PROVE  ReportInv'
<1> USE DEF TypeOK, ProcType, DownType
<1>w. watch.ev[2] \in Nat /\ \A p \in exits \cup alive : p[2] \in Nat
  BY DEF ProcIds
<1>1. pc' = pc /\ watch' = watch /\ \A s \in Resetters : s # r => rpc'[s] = rpc[s]
  BY ResetFrame
<1>2. exits' \subseteq exits \cup alive
  BY DEF ResetStep, BeginReset, BeginShutdown, ShutdownBegin, ShutdownRuntime, ShutdownAgents,
     ShutdownAgentsDeadline, ClearExitedChannel, ClearRegistrations, RegistrationsCleared,
     ClearGates, Kill, procVars
<1>3. \A p \in exits' : p[2] <= gen
  BY <1>2 DEF ProcInv, ReportInv
<1>4. ASSUME InReset(r) => InReset(r)' PROVE AnyReset => AnyReset'
  BY <1>1, <1>4 DEF AnyReset, InReset
<1>5. CASE BeginReset(r) \/ BeginShutdown(r)
  <2>1. AnyReset => AnyReset'
    BY <1>4, <1>5 DEF BeginReset, BeginShutdown, InReset
  <2> QED
    BY <1>1, <1>3, <1>5, <2>1 DEF BeginReset, BeginShutdown, ReportInv, hdlVars, procVars
<1>6. CASE ShutdownBegin(r)
  <2>1. AnyReset'
    BY <1>6 DEF ShutdownBegin, AnyReset, InReset
  <2> QED
    BY <1>1, <1>3, <1>6, <2>1 DEF ShutdownBegin, ReportInv, procVars
<1>7. CASE ShutdownRuntime(r) \/ ShutdownAgents(r) \/ ShutdownAgentsDeadline(r)
  <2>1. AnyReset'
    BY <1>7 DEF ShutdownRuntime, ShutdownAgents, ShutdownAgentsDeadline, AnyReset, InReset
  <2>2. gen' = gen
    BY <1>7 DEF ShutdownRuntime, ShutdownAgents, ShutdownAgentsDeadline
  <2> QED
    BY <1>1, <1>3, <2>1, <2>2 DEF ReportInv
<1>8. CASE ClearExitedChannel(r)
  <2>0. ~shuttingDown' /\ pc' = pc /\ initDone' = initDone /\ rpc[r] = "waitExits"
    BY <1>8 DEF ClearExitedChannel, hdlVars
  <2>1. CASE kind[r] = "reset"
    <3>1. gen' = gen + 1
      BY <1>8, <2>1 DEF ClearExitedChannel
    <3>2. \A p \in exits' : p[2] <= gen'
      BY <1>2, <1>3, <1>w, <3>1
    <3>3. watch'.ev[2] < gen'
      BY <1>1, <1>w, <3>1 DEF ReportInv
    <3> QED
      BY <1>w, <1>1, <2>0, <3>1, <3>2, <3>3 DEF ReportInv
  <2>2. CASE kind[r] # "reset"
    <3>1. gen' = gen
      BY <1>8, <2>2 DEF ClearExitedChannel
    <3>2. pc = "idle" /\ ~initDone
      BY <2>0, <2>2 DEF QuietInv
    <3> QED
      BY <1>1, <1>3, <2>0, <3>1, <3>2 DEF ReportInv
  <2> QED
    BY <2>1, <2>2
<1>9. CASE ClearRegistrations(r) \/ ClearGates(r)
  <2>1. /\ rpc[r] \in {"clear", "clearGates"} /\ gen' = gen /\ shuttingDown' = shuttingDown
        /\ ~initDone'
    BY <1>9 DEF ClearRegistrations, RegistrationsCleared, ClearGates, procVars, hdlVars, TurnInv, Clearing
  <2>2. pc = "idle"
    BY <2>1 DEF TurnInv
  <2>3. AnyReset => AnyReset'
    BY <1>4, <2>1 DEF InReset
  <2> QED
    BY <1>1, <1>3, <2>1, <2>2, <2>3 DEF ReportInv
<1> QED
  BY <1>5, <1>6, <1>7, <1>8, <1>9 DEF ResetStep

\* Every step keeps it.
LEMMA ReportStep ==
    ASSUME TypeOK, TurnInv, ProcInv, QuietInv, ReportInv, [Next]_vars
    PROVE  ReportInv'
<1> USE DEF TypeOK, ProcType
<1>1. CASE Handler \/ HandleInvoke
  BY <1>1, HandlerReport
<1>2. CASE PartyStep
  <2>1. UNCHANGED <<pc, initDone, gen, exits, watch, rpc, shuttingDown>> /\ (fatal # "none" => fatal' # "none")
    BY <1>2, PartyFrame, PartyFatal
  <2>2. UNCHANGED AnyReset
    BY <2>1 DEF AnyReset, InReset
  <2> QED
    BY <2>1, <2>2 DEF ReportInv
<1>3. CASE \/ \E p \in alive : ProcessExit(p)
           \/ \E p \in exits : WatchEvent(p)
           \/ HandleProcessExit \/ WatcherCancelFlows
  <2>0. UNCHANGED <<pc, initDone, gen, rpc, shuttingDown>>
    BY <1>3, WatcherFrame
  <2>r. UNCHANGED AnyReset
    BY <2>0 DEF AnyReset, InReset
  <2>1. ASSUME NEW p \in alive, ProcessExit(p) PROVE ReportInv'
    BY <2>0, <2>1, <2>r DEF ReportInv, ProcInv, ProcessExit
  <2>2. ASSUME NEW p \in exits, WatchEvent(p) PROVE ReportInv'
    <3>1. watch'.ev = p /\ exits' \subseteq exits
      BY <2>2 DEF WatchEvent
    <3>2. shuttingDown \/ fatal' # "none"
      BY <2>2 DEF WatchEvent, StoreFirstFatalError
    <3> QED
      BY <2>0, <2>r, <3>1, <3>2 DEF ReportInv
  <2>3. CASE HandleProcessExit \/ WatcherCancelFlows
    <3>1. watch'.ev = watch.ev /\ UNCHANGED <<exits, fatal>>
      BY <2>3 DEF HandleProcessExit, WatcherCancelFlows, procVars
    <3> QED
      BY <2>0, <2>r, <3>1 DEF ReportInv
  <2> QED
    BY <1>3, <2>1, <2>2, <2>3
<1>4. ASSUME NEW r \in Resetters, ResetStep(r) PROVE ReportInv'
  BY <1>4, ResetReport
<1>5. CASE UNCHANGED vars
  BY <1>5 DEF vars, hdlVars, procVars, downVars, ReportInv, AnyReset, InReset
<1> QED
  BY <1>1, <1>2, <1>3, <1>4, <1>5, StepCases DEF ResetStep

\* A handler that fails because a process of its own generation died finds the reason in the
\* first fatal error, whatever resets, shutdowns and late exits came before (CrashReported).
THEOREM CrashesReported ==
    ASSUME Exclusive
    PROVE  Spec => CrashReported
<1>1. Init => ReportInv
  BY DEF Init, ReportInv
<1>2. TypeOK /\ DomainInv /\ ReportInv /\ [Next]_vars => ReportInv'
  BY ReportStep DEF DomainInv
<1>3. TypeOK /\ DomainInv /\ ReportInv /\ [Next]_vars
        => [(pc # "idle" /\ pc' = "idle" /\ res' = "exit" /\ watch.ev[2] = gen) => fatal # "none"]_vars
  <2> SUFFICES ASSUME TypeOK, DomainInv, ReportInv, [Next]_vars,
                      pc # "idle", pc' = "idle", res' = "exit", watch.ev[2] = gen
               PROVE  fatal # "none"
    OBVIOUS
  <2>1. ~AnyReset
    BY DEF DomainInv, TurnInv, AnyReset, InReset
  <2>2. pc # "new"
    <3> SUFFICES ASSUME pc = "new" PROVE FALSE
      OBVIOUS
    <3>1. Handler
      BY OnlyHandlersReturn
    <3>2. HandleInit
      BY <3>1 DEF Handler, AwaitExternalAgentsRegistered, LaunchExtension, ExtensionChannel, LaunchRuntime,
         RuntimeChannel, AwaitRuntimeRestoreReady, InitAwaitAgentsReady, ReleaseParties,
         AwaitRuntimeResponse, AwaitRuntimeReady, InvokeAwaitAgentsReady
    <3> QED
      BY <3>2 DEF HandleInit, BeginInit, Return
  <2> QED
    BY <2>1, <2>2 DEF ReportInv
<1> QED
  BY <1>1, <1>2, <1>3, TypeCorrect, DomainInvariant, PTL DEF Spec, CrashReported

=============================================================================
