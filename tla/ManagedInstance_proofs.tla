----------------------- MODULE ManagedInstance_proofs -----------------------
(***************************************************************************)
(* Theorems about ManagedInstance, for any number of extensions, whatever  *)
(* the processes do and wherever launches, kills and sockets fail.         *)
(***************************************************************************)
EXTENDS ManagedInstance, FiniteSetTheorems, TLAPS

InitRecs    == [pc : InitSteps, todo : SUBSET Agents, cur : Agents \cup {nil}, err : Errors]
DownRecs    == [pc : DownSteps, graceful : BOOLEAN, agents : SUBSET Agents, failed : BOOLEAN,
                wait : SUBSET Procs, seen : SUBSET Procs, late : SUBSET Agents]
GateRecs    == [registered : Gate, runtime : Gate, ready : Gate]
WatcherRecs == [pc : {"off", "idle", "check", "crash", "exit"},
                p : Procs \cup {nil}, err : {nil, "crash"}, missed : BOOLEAN]

StopStates  == {"none", "waiting", "kill", "killing", "done"}

AgentsTyped == agent \in [Parties -> AgentRecs] /\ \A a \in Internals : agent[a] \in InternalRecs

\* TypeOK, but for the count of the faults.
Typed ==
    /\ state \in Statuses /\ appErr \in Errors /\ init \in InitRecs /\ down \in DownRecs
    /\ stop \in [Agents -> StopStates]
    /\ gate \in GateRecs /\ service \in ServiceRecs /\ AgentsTyped /\ readyOnce \in BOOLEAN
    /\ proc \in [Procs -> ProcRecs] /\ watcher \in WatcherRecs
    /\ shuttingDown \in BOOLEAN /\ awaitingExit \in SUBSET Agents
    /\ fatal \in Fatals \cup {nil} /\ monitor \in {"waiting", "notified", "gone"}
    /\ rapi \in {"up", "closed"} /\ server \in {"up", "stopping", "closed"}
    /\ invoke \in {"none", "checked", "running", "aborted", "body", "answered", "failed", "refused"}

(* Why an init that was canceled has a reason to give. *)

\* A crash or a reported error is on record, a shutdown came from outside, or the init has
\* failed already.
Named == fatal # nil \/ appErr = "shutdown" \/ init.pc \in {"failed", "returned"}

NamedInv ==
    /\ shuttingDown \/ watcher.pc = "exit" \/ down.pc # "none" => Named
    /\ \A g \in DOMAIN gate : gate[g].canceled => Named
    /\ monitor = "notified" => fatal # nil
    /\ down.pc = "none" => appErr = nil
    /\ CrashNamed

(* What a shutdown does to the processes it has seen. *)

\* Not launched yet.
Unlaunched(p) == \/ init.pc = "none"
                 \/ p \in init.todo /\ init.pc \in {"launch", "channel"}
                 \/ p = "runtime" /\ init.pc \in {"launch", "channel", "runtime"}

LaunchInv ==
    /\ init.pc = "channel" => init.cur \in Agents \ init.todo /\ agent[init.cur].state # "absent"
    /\ \A p \in Procs : Unlaunched(p) => ~HasChannel(p) /\ proc[p].life = "none"
    /\ \A p \in Procs : proc[p].life = "stray" => ~HasChannel(p) /\ init.pc \in {"failed", "returned"}
    /\ \A a \in Agents : HasChannel(a) => agent[a].state # "absent"
    /\ \A p \in Procs : proc[p].exited = "closed" => ~Alive(p)
    /\ watcher.pc \in {"check", "crash", "exit"} => watcher.p \in Procs /\ proc[watcher.p].life = "gone"

\* The shutdown has done what it does about the process.
Stopped(p) == p \in down.seen => ~Alive(p) \/ p \in down.late

\* One that goes on has been reported.
Reported(p) == ~Alive(p) \/ (p \in down.late /\ down.failed)

DownInv ==
    /\ \A p \in down.seen : HasChannel(p)
    /\ down.pc \in {"runtime", "awaitRuntime", "killRuntime", "flush", "hangs", "agents"} /\ down.graceful
          => down.seen \cap Agents \subseteq down.agents
    /\ down.pc \in {"runtime", "awaitRuntime", "flush", "hangs", "agents"} => down.graceful
    /\ down.pc = "killRuntime" /\ ~down.graceful => down.seen \subseteq {"runtime"}
    /\ down.pc \in {"killRuntime", "flush", "hangs", "agents", "awaitAgents"} => Stopped("runtime")
    /\ down.pc = "awaitAgents" => \A a \in Agents : stop[a] \in {"waiting", "kill"} \/ Stopped(a)
    /\ down.pc = "awaitAll" => down.seen \subseteq down.wait /\ \A p \in Procs : Stopped(p)
    /\ down.pc \in {"finish", "done"} => \A p \in down.seen : Reported(p)
    /\ state = "Shutdown" => down.pc = "done"

StopInv == LaunchInv /\ DownInv

(* Who has to be ready before an init succeeds. *)

Askers == {a \in Parties : agent[a].asked}

\* Who waits in a /next, or has been released from one, has asked; who has asked has registered.
AskedSound(r) == /\ r.asked => r.state \notin {"absent", "Started", "Registered"}
                 /\ r.state \in {"Ready", "Running"} => r.asked

AskInv ==
    /\ \A a \in Parties : AskedSound(agent[a])
    /\ \A a \in Agents : init.pc = "none" \/ (a \in init.todo /\ init.pc \in {"launch", "channel"}) => agent[a].state = "absent"

CountInv ==
    /\ gate.runtime.count = 1 /\ (gate.runtime.arrived = 1 => readyOnce)
    /\ init.pc \notin {"failed", "returned"} => gate.ready.arrived = Cardinality(Askers)
    /\ init.pc \notin {"failed", "returned", "awaitReady", "ready"} => gate.ready.count = MaxAgentsLimit
    /\ init.pc \in {"awaitReady", "ready"} => gate.ready.count = CountAgents
    /\ init.pc \in {"setCount", "awaitReady", "ready"} => ~service.on
    /\ init.pc \in {"turnOff", "setCount", "awaitReady", "ready"} => readyOnce
    /\ init.pc = "ready" => \A a \in Registered : agent[a].asked
    /\ init.pc = "failed" => init.err # nil

ReadyInv == AskInv /\ CountInv

-----------------------------------------------------------------------------
(* Records. *)

LEMMA GateOps ==
    ASSUME NEW g \in Gate
    PROVE  /\ WalkThrough(g) \in Gate /\ WalkThrough(g).count = g.count /\ WalkThrough(g).canceled = g.canceled
           /\ WalkThrough(g).arrived = IF g.arrived = g.count THEN g.arrived ELSE g.arrived + 1
           /\ \A e \in {nil, "crash", "timeout"} :
                 /\ CancelWithError(g, e) \in Gate /\ CancelWithError(g, e).canceled
                 /\ CancelWithError(g, e).count = g.count /\ CancelWithError(g, e).arrived = g.arrived
<1>1. WalkThrough(g) \in Gate
  BY DEF Gate, WalkThrough
<1>2. /\ WalkThrough(g).count = g.count /\ WalkThrough(g).canceled = g.canceled
      /\ WalkThrough(g).arrived = IF g.arrived = g.count THEN g.arrived ELSE g.arrived + 1
  BY DEF Gate, WalkThrough
<1>3. ASSUME NEW e \in {nil, "crash", "timeout"}
      PROVE  /\ CancelWithError(g, e) \in Gate /\ CancelWithError(g, e).canceled
             /\ CancelWithError(g, e).count = g.count /\ CancelWithError(g, e).arrived = g.arrived
  <2>1. \A b \in BOOLEAN : /\ [g EXCEPT !.canceled = b, !.err = e] \in Gate
                           /\ [g EXCEPT !.canceled = b, !.err = e].canceled = b
                           /\ [g EXCEPT !.canceled = b, !.err = e].count = g.count
                           /\ [g EXCEPT !.canceled = b, !.err = e].arrived = g.arrived
    BY DEF Gate
  <2> QED
    BY <2>1 DEF CancelWithError
<1> QED
  BY <1>1, <1>2, <1>3

LEMMA GateFields ==
    ASSUME NEW f \in GateRecs
    PROVE  /\ f.registered \in Gate /\ f.runtime \in Gate /\ f.ready \in Gate
           /\ DOMAIN f = {"registered", "runtime", "ready"}
           /\ \A g \in Gate : [f EXCEPT !.registered = g] \in GateRecs
           /\ \A g \in Gate : [f EXCEPT !.runtime = g] \in GateRecs
           /\ \A g \in Gate : [f EXCEPT !.ready = g] \in GateRecs
           /\ \A n \in Nat : [f.registered EXCEPT !.count = n] \in Gate
           /\ \A n \in Nat : [f.ready EXCEPT !.count = n] \in Gate
<1>1. \A g \in Gate, n \in Nat : [g EXCEPT !.count = n] \in Gate
  BY DEF Gate
<1>2. f.registered \in Gate /\ f.runtime \in Gate /\ f.ready \in Gate
  BY DEF GateRecs
<1>3. DOMAIN f = {"registered", "runtime", "ready"}
  BY DEF GateRecs
<1>4. /\ \A g \in Gate : [f EXCEPT !.registered = g] \in GateRecs
      /\ \A g \in Gate : [f EXCEPT !.runtime = g] \in GateRecs
      /\ \A g \in Gate : [f EXCEPT !.ready = g] \in GateRecs
  BY DEF GateRecs
<1> QED
  BY <1>1, <1>2, <1>3, <1>4

LEMMA CanceledGates ==
    ASSUME NEW f \in GateRecs, NEW e \in {nil, "crash", "timeout"}
    PROVE  [g \in DOMAIN f |-> CancelWithError(f[g], e)] \in GateRecs
<1>1. \A g \in DOMAIN f : f[g] \in Gate
  BY DEF GateRecs
<1>2. \A g \in DOMAIN f : CancelWithError(f[g], e) \in Gate
  BY <1>1, GateOps
<1>3. DOMAIN f = {"registered", "runtime", "ready"}
  BY DEF GateRecs
<1> QED
  BY <1>2, <1>3 DEF GateRecs

LEMMA NewAgentFacts ==
    ASSUME NEW s \in AgentStates
    PROVE  /\ NewAgent(s) \in AgentRecs /\ NewAgent(s).state = s /\ NewAgent(s).asked = FALSE
           /\ NewAgent(s).subscribed = FALSE /\ NewAgent(s).released = FALSE /\ NewAgent("absent") = NoAgent
<1>1. \A b \in BOOLEAN : [state |-> "absent", subscribed |-> b, released |-> b, suspended |-> b, asked |-> b] \in AgentRecs
  BY DEF AgentRecs, AgentStates
<1>2. NoAgent \in AgentRecs
  BY <1>1, Zenon DEF NoAgent
<1>3. NoAgent.state = "absent" /\ NoAgent.asked = FALSE /\ NoAgent.subscribed = FALSE /\ NoAgent.released = FALSE
  BY DEF NoAgent
<1> QED
  BY <1>2, <1>3 DEF NewAgent, AgentRecs

LEMMA StateSet ==
    ASSUME NEW r \in AgentRecs, NEW s \in AgentStates
    PROVE  /\ [r EXCEPT !.state = s] \in AgentRecs /\ [r EXCEPT !.state = s].state = s
           /\ [r EXCEPT !.state = s].asked = r.asked /\ [r EXCEPT !.state = s].subscribed = r.subscribed
           /\ [r EXCEPT !.state = s].released = r.released
BY DEF AgentRecs

LEMMA SubscribedSet ==
    ASSUME NEW r \in AgentRecs, NEW b \in BOOLEAN
    PROVE  LET n == [r EXCEPT !.state = "Registered", !.subscribed = b] IN
           n \in AgentRecs /\ n.state = "Registered" /\ n.asked = r.asked
BY DEF AgentRecs, AgentStates

LEMMA ReleasedSet ==
    ASSUME NEW r \in AgentRecs
    PROVE  LET n == [r EXCEPT !.released = TRUE] IN
           n \in AgentRecs /\ n.state = r.state /\ n.asked = r.asked
<1>1. \A b \in BOOLEAN : /\ [r EXCEPT !.released = b] \in AgentRecs /\ [r EXCEPT !.released = b].state = r.state
                         /\ [r EXCEPT !.released = b].asked = r.asked
  BY DEF AgentRecs
<1> QED
  BY <1>1

LEMMA ResumedFacts ==
    ASSUME NEW r \in AgentRecs
    PROVE  /\ Resumed(r) \in AgentRecs /\ Resumed(r).asked = r.asked
           /\ Resumed(r).state = IF r.state = "Ready" THEN "Running" ELSE r.state
           /\ Resumed(r).subscribed = r.subscribed /\ Resumed(r).released = FALSE
<1>1. PICK s \in AgentStates : s = IF r.state = "Ready" THEN "Running" ELSE r.state
  BY DEF AgentRecs, AgentStates
<1>2. Resumed(r) = [r EXCEPT !.released = FALSE, !.suspended = FALSE, !.state = s]
  BY <1>1 DEF Resumed, AgentRecs
<1>3. \A b \in BOOLEAN : LET n == [r EXCEPT !.released = b, !.suspended = b, !.state = s] IN
                         /\ n \in AgentRecs /\ n.asked = r.asked /\ n.state = s
                         /\ n.subscribed = r.subscribed /\ n.released = b
  BY DEF AgentRecs
<1> QED
  BY <1>1, <1>2, <1>3

LEMMA ReadyFacts ==
    ASSUME NEW r \in AgentRecs
    PROVE  /\ Ready(r) \in AgentRecs /\ Ready(r).asked /\ Ready(r).state \in {"Ready", "Running"}
           /\ Ready(r).subscribed = r.subscribed
           /\ ~r.released => Ready(r).state = "Ready" /\ ~Ready(r).released
<1> DEFINE s == [r EXCEPT !.state = "Ready", !.asked = TRUE, !.suspended = TRUE]
<1>1. \A b \in BOOLEAN : LET n == [r EXCEPT !.state = "Ready", !.asked = b, !.suspended = b] IN
                         /\ n \in AgentRecs /\ n.asked = b /\ n.state = "Ready"
                         /\ n.subscribed = r.subscribed /\ n.released = r.released
  BY DEF AgentRecs, AgentStates
<1>2. s \in AgentRecs /\ s.asked /\ s.state = "Ready" /\ s.subscribed = r.subscribed /\ s.released = r.released
  BY <1>1
<1>3. Ready(r) = IF s.released THEN Resumed(s) ELSE s
  BY DEF Ready
<1> HIDE DEF s
<1>4. Resumed(s) \in AgentRecs /\ Resumed(s).asked /\ Resumed(s).state = "Running" /\ Resumed(s).subscribed = r.subscribed
  BY <1>2, ResumedFacts
<1> QED
  BY <1>2, <1>3, <1>4

LEMMA ProcOps ==
    ASSUME NEW r \in ProcRecs
    PROVE  /\ \A l \in {"none", "alive", "stray", "killed", "dead", "gone"} :
                 LET n == [r EXCEPT !.life = l] IN n \in ProcRecs /\ n.life = l /\ n.exited = r.exited
           /\ \A x \in {"none", "open", "closed"} :
                 LET n == [r EXCEPT !.exited = x] IN n \in ProcRecs /\ n.life = r.life /\ n.exited = x
           /\ \A l \in {"none", "alive", "stray", "killed", "dead", "gone"}, z \in BOOLEAN :
                 LET n == [r EXCEPT !.life = l, !.zero = z] IN n \in ProcRecs /\ n.life = l /\ n.exited = r.exited
           /\ \A x \in {"none", "open", "closed"}, z \in BOOLEAN :
                 LET n == [r EXCEPT !.exited = x, !.zero = z] IN n \in ProcRecs /\ n.life = r.life /\ n.exited = x
BY DEF ProcRecs

LEMMA KilledFacts ==
    ASSUME NEW r \in ProcRecs
    PROVE  /\ Killed(r) \in ProcRecs /\ Killed(r).exited = r.exited /\ Killed(r).life # "alive"
           /\ Killed(r).life = IF r.life = "alive" THEN "killed" ELSE r.life
<1>1. [r EXCEPT !.life = "killed"] \in ProcRecs /\ [r EXCEPT !.life = "killed"].exited = r.exited
      /\ [r EXCEPT !.life = "killed"].life = "killed"
  BY DEF ProcRecs
<1> QED
  BY <1>1 DEF Killed

\* What a kill does: nothing but to those of the set that are alive.
LEMMA KilledAllFacts ==
    ASSUME proc \in [Procs -> ProcRecs], NEW ps, proc' = KilledAll(ps)
    PROVE  /\ proc' \in [Procs -> ProcRecs]
           /\ \A p \in Procs : /\ proc'[p].exited = proc[p].exited
                               /\ proc'[p].life = IF p \in ps /\ proc[p].life = "alive" THEN "killed" ELSE proc[p].life
<1>1. ASSUME NEW p \in Procs
      PROVE  /\ proc'[p] \in ProcRecs /\ proc'[p].exited = proc[p].exited
             /\ proc'[p].life = IF p \in ps /\ proc[p].life = "alive" THEN "killed" ELSE proc[p].life
  <2>1. proc[p] \in ProcRecs /\ proc'[p] = IF p \in ps THEN Killed(proc[p]) ELSE proc[p]
    BY DEF KilledAll
  <2> QED
    BY <2>1, KilledFacts
<1>2. proc' = [p \in Procs |-> proc'[p]]
  BY DEF KilledAll
<1> QED
  BY <1>1, <1>2

\* What the rest of a shutdown looks at.
SameView(d, e) == d.graceful = e.graceful /\ d.agents = e.agents /\ d.seen = e.seen /\ d.late = e.late

LEMMA DownFields ==
    ASSUME NEW d \in DownRecs
    PROVE  /\ \A q \in DownSteps : LET n == [d EXCEPT !.pc = q] IN n \in DownRecs /\ n.pc = q /\ SameView(n, d)
           /\ \A b \in BOOLEAN : LET n == [d EXCEPT !.failed = b] IN n \in DownRecs /\ n.pc = d.pc /\ SameView(n, d)
           /\ \A q \in DownSteps, b \in BOOLEAN :
                 LET n == [d EXCEPT !.pc = q, !.failed = b] IN n \in DownRecs /\ n.pc = q /\ SameView(n, d)
           /\ \A q \in DownSteps : LET n == [d EXCEPT !.pc = q, !.wait = {}] IN
                                    n \in DownRecs /\ n.pc = q /\ SameView(n, d)
           /\ \A q \in DownSteps, b \in BOOLEAN :
                 LET n == [d EXCEPT !.pc = q, !.wait = {}, !.failed = b] IN
                 n \in DownRecs /\ n.pc = q /\ SameView(n, d)
           /\ \A q \in DownSteps : LET n == [d EXCEPT !.pc = q, !.agents = {}] IN
                                    n \in DownRecs /\ n.pc = q /\ n.seen = d.seen
BY DEF DownRecs, SameView

LEMMA ThenAwaitAllFacts ==
    ASSUME NEW d \in DownRecs
    PROVE  /\ ThenAwaitAll(d) \in DownRecs /\ ThenAwaitAll(d).pc \in {"awaitAll", "finish"}
           /\ SameView(ThenAwaitAll(d), d) /\ ThenAwaitAll(d).failed = d.failed
           /\ ThenAwaitAll(d).pc = "finish" => d.failed
           /\ ThenAwaitAll(d).pc = "awaitAll" => ThenAwaitAll(d).wait = {p \in Procs : HasChannel(p)}
<1> DEFINE w == {p \in Procs : HasChannel(p)}
<1>1. w \in SUBSET Procs
  OBVIOUS
<1>2. CASE d.failed
  <2>1. ThenAwaitAll(d) = [d EXCEPT !.pc = "finish"]
    BY <1>2 DEF ThenAwaitAll
  <2>2. [d EXCEPT !.pc = "finish"] \in DownRecs
    BY DEF DownRecs, DownSteps
  <2>3. LET n == [d EXCEPT !.pc = "finish"] IN
        n.pc = "finish" /\ SameView(n, d) /\ n.failed = d.failed
    BY DEF DownRecs, SameView
  <2> QED
    BY <1>2, <2>1, <2>2, <2>3
<1>3. CASE ~d.failed
  <2>1. ThenAwaitAll(d) = [d EXCEPT !.pc = "awaitAll", !.wait = w]
    BY <1>3 DEF ThenAwaitAll
  <2> HIDE DEF w
  <2>2. [d EXCEPT !.pc = "awaitAll", !.wait = w] \in DownRecs
    BY <1>1 DEF DownRecs, DownSteps
  <2>3. LET n == [d EXCEPT !.pc = "awaitAll", !.wait = w] IN
        n.pc = "awaitAll" /\ SameView(n, d) /\ n.failed = d.failed /\ n.wait = w
    BY DEF DownRecs, SameView
  <2> QED
    BY <2>1, <2>2, <2>3 DEF w
<1> QED
  BY <1>2, <1>3

LEMMA WatcherFields ==
    ASSUME NEW w \in WatcherRecs
    PROVE  /\ \A q \in {"off", "idle", "check", "crash", "exit"} :
                 LET n == [w EXCEPT !.pc = q] IN n \in WatcherRecs /\ n.pc = q /\ n.p = w.p
           /\ \A q \in {"idle", "check"}, x \in Procs \cup {nil} :
                 LET n == [w EXCEPT !.pc = q, !.p = x, !.err = nil] IN n \in WatcherRecs /\ n.pc = q /\ n.p = x
           /\ \A b \in BOOLEAN :
                 LET n == [w EXCEPT !.pc = "exit", !.err = "crash", !.missed = b] IN
                 n \in WatcherRecs /\ n.pc = "exit" /\ n.p = w.p
BY DEF WatcherRecs

LEMMA ServiceFields ==
    ASSUME NEW s \in ServiceRecs
    PROVE  /\ \A b \in BOOLEAN : [s EXCEPT !.on = b] \in ServiceRecs /\ [s EXCEPT !.on = b].on = b
           /\ \A b \in BOOLEAN : [s EXCEPT !.canceled = b] \in ServiceRecs /\ [s EXCEPT !.canceled = b].on = s.on
           /\ \A r \in RuntimeStates : [s EXCEPT !.runtime = r] \in ServiceRecs /\ [s EXCEPT !.runtime = r].on = s.on
BY DEF ServiceRecs

-----------------------------------------------------------------------------
(* Types. *)

LEMMA AgentSet ==
    ASSUME AgentsTyped, NEW a \in Parties, NEW r \in AgentRecs, a \in Internals => r \in InternalRecs,
           agent' = [agent EXCEPT ![a] = r]
    PROVE  AgentsTyped'
BY DEF AgentsTyped

LEMMA PartyFacts ==
    /\ \A a \in Agents : a \in Parties /\ a \notin Internals /\ a \in Procs /\ a # "runtime"
    /\ \A a \in Internals : a \in Parties
    /\ "runtime" \in Procs /\ IsFiniteSet(Parties)
<1>1. IsFiniteSet(Agents) /\ IsFiniteSet(Internals) /\ Agents \cap Internals = {} /\ "runtime" \notin Agents \cup Internals
  BY InstanceAssumption
<1> QED
  BY <1>1, FS_Union DEF Parties, Procs

LEMMA FoundCount == \A found \in SUBSET Agents : Cardinality(found) \in Nat
BY InstanceAssumption, FS_Subset, FS_CardinalityType

\* One process changes.
LEMMA ProcSet ==
    ASSUME proc \in [Procs -> ProcRecs], NEW p \in Procs, NEW r \in ProcRecs, proc' = [proc EXCEPT ![p] = r]
    PROVE  proc' \in [Procs -> ProcRecs] /\ proc'[p] = r /\ \A q \in Procs \ {p} : proc'[q] = proc[q]
OBVIOUS

\* A launch that goes wrong.
Mishap == \/ \E a \in Agents : \/ NameCollision(a) \/ NoAgentSockets(a)
                               \/ \E started \in BOOLEAN : LaunchFails(a, started)
          \/ NoRuntimeSockets \/ \E started \in BOOLEAN : RuntimeFails(started)

LEMMA ExecFailsTyped ==
    ASSUME proc \in [Procs -> ProcRecs], NEW p \in Procs, NEW b \in BOOLEAN, ExecFails(p, b)
    PROVE  proc' \in [Procs -> ProcRecs]
<1>1. [proc[p] EXCEPT !.life = "stray"] \in ProcRecs
  BY ProcOps
<1>2. proc' = proc \/ proc' = [proc EXCEPT ![p] = [proc[p] EXCEPT !.life = "stray"]]
  BY DEF ExecFails
<1> QED
  BY <1>1, <1>2

\* The steps that the init goroutine takes.
LEMMA InitStepTyped ==
    ASSUME Typed, InitStep \/ Mishap
    PROVE  Typed'
<1> USE DEF appVars, downVars, coreVars
<1>1. /\ init \in InitRecs /\ gate \in GateRecs /\ service \in ServiceRecs /\ AgentsTyped
      /\ proc \in [Procs -> ProcRecs] /\ watcher \in WatcherRecs /\ fatal \in Fatals \cup {nil}
  BY DEF Typed
<1>2. \A e : e \in Errors /\ Fails(e) => init' \in InitRecs
  BY <1>1 DEF Fails, InitSteps, InitRecs
<1>3. \A e \in Fatals : FirstFatal(e) => fatal' \in Fatals \cup {nil}
  BY <1>1 DEF FirstFatal
<1>4. ASSUME NEW found \in SUBSET Agents, StartInit(found) PROVE Typed'
  <2>1. Cardinality(found) \in Nat
    BY FoundCount
  <2>2. gate' \in GateRecs
    <3>1. [gate.registered EXCEPT !.count = Cardinality(found)] \in Gate
      BY <1>1, <2>1, GateFields DEF Gate
    <3>2. gate' = gate \/ gate' = [gate EXCEPT !.registered = [gate.registered EXCEPT !.count = Cardinality(found)]]
      BY <1>4 DEF StartInit
    <3> QED
      BY <1>1, <3>1, <3>2, GateFields
  <2>3. watcher' \in WatcherRecs
    <3>1. watcher' = watcher \/ watcher' = [watcher EXCEPT !.pc = "idle"]
      BY <1>4 DEF StartInit
    <3>2. [watcher EXCEPT !.pc = "idle"] \in WatcherRecs
      BY <1>1 DEF WatcherRecs
    <3> QED
      BY <1>1, <3>1, <3>2
  <2>4. init' \in InitRecs
    BY <1>1, <1>4 DEF StartInit, InitRecs, InitSteps, Errors
  <2> QED
    BY <1>4, <2>2, <2>3, <2>4 DEF StartInit, Typed, Statuses, AgentsTyped
<1>5. CASE AgentLaunched \/ RuntimeLaunched
  <2>1. PICK p, q : q \in {"launch", "awaitRuntime"} /\ CreateExitedChannel(p, q)
    BY <1>5 DEF AgentLaunched, RuntimeLaunched
  <2>2. proc' \in [Procs -> ProcRecs]
    <3>1. \A x \in Procs : [proc[x] EXCEPT !.exited = "open"] \in ProcRecs
      BY <1>1, ProcOps
    <3>2. proc' = [proc EXCEPT ![p] = [proc[p] EXCEPT !.exited = "open"]]
      BY <2>1 DEF CreateExitedChannel
    <3> QED
      BY <1>1, <3>1, <3>2
  <2>3. init' \in InitRecs
    BY <1>1, <2>1 DEF CreateExitedChannel, InitRecs, InitSteps
  <2> QED
    BY <2>1, <2>2, <2>3 DEF CreateExitedChannel, Typed, AgentsTyped
<1>6. ASSUME NEW a \in Agents, LaunchAgent(a) PROVE Typed'
  <2>1. PICK s \in {"LaunchError", "Started"} : CreateExternalAgent(a, s)
    BY <1>6 DEF LaunchAgent
  <2>2. AgentsTyped'
    BY <1>1, <2>1, AgentSet, NewAgentFacts, PartyFacts DEF CreateExternalAgent, AgentStates
  <2>3. proc' \in [Procs -> ProcRecs]
    <3>1. [proc[a] EXCEPT !.life = "alive"] \in ProcRecs
      BY <1>1, PartyFacts, ProcOps
    <3>2. proc' = proc \/ proc' = [proc EXCEPT ![a] = [proc[a] EXCEPT !.life = "alive"]]
      BY <1>6 DEF LaunchAgent, Exec
    <3> QED
      BY <1>1, <3>1, <3>2
  <2>4. init' \in InitRecs /\ fatal' \in Fatals \cup {nil}
    BY <1>1, <1>2, <1>3, <1>6, ZenonT(60) DEF LaunchAgent, InitRecs, InitSteps, Errors, Fatals
  <2> QED
    BY <1>6, <2>2, <2>3, <2>4 DEF LaunchAgent, Typed
<1>7. ASSUME NEW a \in Agents, CreateExternalAgent(a, "LaunchError") \/ CreateExternalAgent(a, "Started") PROVE AgentsTyped'
  BY <1>1, <1>7, AgentSet, NewAgentFacts, PartyFacts DEF CreateExternalAgent, AgentStates
<1>16. ASSUME NEW a \in Agents, NEW b \in BOOLEAN, LaunchFails(a, b) PROVE Typed'
  <2>1. AgentsTyped'
    BY <1>7, <1>16 DEF LaunchFails
  <2>2. proc' \in [Procs -> ProcRecs]
    BY <1>1, <1>16, ExecFailsTyped, PartyFacts DEF LaunchFails
  <2>3. init' \in InitRecs /\ fatal' \in Fatals \cup {nil}
    BY <1>1, <1>2, <1>3, <1>16 DEF LaunchFails, Errors, Fatals
  <2> QED
    BY <1>16, <2>1, <2>2, <2>3 DEF LaunchFails, Typed
<1>17. ASSUME NEW a \in Agents, NameCollision(a) \/ NoAgentSockets(a) PROVE Typed'
  <2>1. AgentsTyped'
    BY <1>1, <1>7, <1>17 DEF NameCollision, NoAgentSockets, AgentsTyped
  <2>2. init' \in InitRecs
    BY <1>2, <1>17 DEF NameCollision, NoAgentSockets, Errors
  <2> QED
    BY <1>17, <2>1, <2>2 DEF NameCollision, NoAgentSockets, Typed
<1>8. ASSUME NEW g \in {"registered", "runtime", "ready"}, NEW pc, NEW then \in InitSteps, AwaitGate(pc, g, then)
      PROVE Typed'
  <2>1. ResolveGateError("canceled") \in Errors /\ ResolveGateError("timeout") \in Errors
    BY <1>1 DEF ResolveGateError, Errors
  <2>2. init' \in InitRecs
    BY <1>1, <1>2, <1>8, <2>1 DEF AwaitGate, GateOpens, GateTimesOut, InitRecs
  <2>3. gate' \in GateRecs
    <3>1. gate[g] \in Gate
      BY <1>1 DEF GateRecs
    <3>2. CancelWithError(gate[g], "timeout") \in Gate
      BY <3>1, GateOps
    <3>3. gate' = gate \/ gate' = [gate EXCEPT ![g] = CancelWithError(gate[g], "timeout")]
      BY <1>8 DEF AwaitGate, GateOpens, GateTimesOut
    <3> QED
      BY <1>1, <3>2, <3>3 DEF GateRecs
  <2> QED
    BY <1>8, <2>2, <2>3 DEF AwaitGate, Typed, AgentsTyped
<1>9. CASE AwaitExternalAgentsRegistered \/ AwaitRuntimeReady \/ AwaitAgentsReady
  BY <1>8, <1>9 DEF AwaitExternalAgentsRegistered, AwaitRuntimeReady, AwaitAgentsReady, InitSteps
<1>10. CASE StartRuntime
  <2>1. service' \in ServiceRecs
    BY <1>1, <1>10, ServiceFields DEF StartRuntime, PreregisterRuntime, RuntimeStates
  <2>2. proc' \in [Procs -> ProcRecs]
    <3>1. [proc["runtime"] EXCEPT !.life = "alive"] \in ProcRecs
      BY <1>1, PartyFacts, ProcOps
    <3> QED
      BY <1>1, <1>10, <3>1 DEF StartRuntime, Exec
  <2>3. init' \in InitRecs
    BY <1>1, <1>10 DEF StartRuntime, InitRecs, InitSteps
  <2> QED
    BY <1>10, <2>1, <2>2, <2>3 DEF StartRuntime, Typed, AgentsTyped
<1>11. PreregisterRuntime => service' \in ServiceRecs
  <2>1. "Started" \in RuntimeStates
    BY DEF RuntimeStates
  <2> QED
    BY <1>1, <2>1, ServiceFields DEF PreregisterRuntime
<1>18. ASSUME NEW b \in BOOLEAN, RuntimeFails(b) PROVE Typed'
  <2>1. proc' \in [Procs -> ProcRecs]
    BY <1>1, <1>18, ExecFailsTyped, PartyFacts DEF RuntimeFails
  <2>2. init' \in InitRecs /\ fatal' \in Fatals \cup {nil}
    BY <1>1, <1>2, <1>3, <1>18 DEF RuntimeFails, Errors, Fatals
  <2> QED
    BY <1>11, <1>18, <2>1, <2>2 DEF RuntimeFails, Typed, AgentsTyped
<1>19. CASE NoRuntimeSockets
  <2>1. init' \in InitRecs
    BY <1>2, <1>19 DEF NoRuntimeSockets, Errors
  <2> QED
    BY <1>11, <1>19, <2>1 DEF NoRuntimeSockets, Typed, AgentsTyped
<1>12. CASE TurnOff
  <2>1. service' \in ServiceRecs
    BY <1>1, <1>12, ServiceFields DEF TurnOff
  <2>2. init' \in InitRecs
    BY <1>1, <1>12 DEF TurnOff, InitRecs, InitSteps
  <2> QED
    BY <1>12, <2>1, <2>2 DEF TurnOff, Typed, AgentsTyped
<1>13. CASE SetAgentsReadyCount
  <2>1. CountAgents \in Nat
    <3>1. IsFiniteSet(Registered)
      BY PartyFacts, FS_Subset DEF Registered
    <3> QED
      BY <3>1, FS_CardinalityType DEF CountAgents
  <2>2. gate' \in GateRecs
    <3>1. [gate.ready EXCEPT !.count = CountAgents] \in Gate
      BY <1>1, <2>1, GateFields DEF Gate
    <3>2. gate' = gate \/ gate' = [gate EXCEPT !.ready = [gate.ready EXCEPT !.count = CountAgents]]
      BY <1>13 DEF SetAgentsReadyCount
    <3> QED
      BY <1>1, <3>1, <3>2, GateFields
  <2>3. init' \in InitRecs
    BY <1>1, <1>2, <1>13 DEF SetAgentsReadyCount, InitRecs, InitSteps, Errors
  <2> QED
    BY <1>13, <2>2, <2>3 DEF SetAgentsReadyCount, Typed, AgentsTyped
<1>14. CASE InitSucceeds
  <2>1. init' \in InitRecs
    BY <1>1, <1>14 DEF InitSucceeds, InitRecs, InitSteps, Errors
  <2> QED
    BY <1>14, <2>1 DEF InitSucceeds, Typed, AgentsTyped, Statuses
<1>15. CASE InitReturns
  <2>1. init' \in InitRecs
    BY <1>1, <1>15 DEF InitReturns, InitRecs, InitSteps
  <2> QED
    BY <1>15, <2>1 DEF InitReturns, Typed, AgentsTyped
<1> QED
  BY <1>4, <1>5, <1>6, <1>9, <1>10, <1>12, <1>13, <1>14, <1>15, <1>16, <1>17, <1>18, <1>19 DEF InitStep, Mishap

\* What the processes do through the APIs.
LEMMA ApiStepTyped ==
    ASSUME Typed,
           \/ \E a \in Agents, s \in BOOLEAN : RegisterExternalAgent(a, s)
           \/ \E a \in Internals : RegisterInternalAgent(a)
           \/ \E a \in Parties : AgentNext(a) \/ AgentInitError(a) \/ AgentExitError(a)
           \/ RuntimeNext \/ RuntimeInitError
    PROVE  Typed'
<1> USE DEF appVars, downVars, coreVars
<1>1. /\ gate \in GateRecs /\ service \in ServiceRecs /\ AgentsTyped /\ fatal \in Fatals \cup {nil}
      /\ agent \in [Parties -> AgentRecs] /\ \A a \in Internals : agent[a] \in InternalRecs
  BY DEF Typed, AgentsTyped
<1>2. FirstFatal("reported") => fatal' \in Fatals \cup {nil}
  BY <1>1 DEF FirstFatal, Fatals
<1>3. WalkThrough(gate.registered) \in Gate /\ WalkThrough(gate.ready) \in Gate /\ WalkThrough(gate.runtime) \in Gate
  BY <1>1, GateFields, GateOps
<1>4. ASSUME NEW a \in Agents, NEW s \in BOOLEAN, RegisterExternalAgent(a, s) PROVE Typed'
  <2>1. AgentsTyped'
    <3>1. agent[a] \in AgentRecs /\ a \in Parties /\ a \notin Internals
      BY <1>1, PartyFacts
    <3>2. [agent[a] EXCEPT !.state = "Registered", !.subscribed = s] \in AgentRecs
      BY <3>1, SubscribedSet
    <3>3. agent' = [agent EXCEPT ![a] = [agent[a] EXCEPT !.state = "Registered", !.subscribed = s]]
      BY <1>4 DEF RegisterExternalAgent, Register
    <3> QED
      BY <1>1, <3>1, <3>2, <3>3, AgentSet
  <2>2. gate' \in GateRecs
    <3>1. gate' = [gate EXCEPT !.registered = WalkThrough(gate.registered)]
      BY <1>4 DEF RegisterExternalAgent, Register
    <3> QED
      BY <1>1, <1>3, <3>1, GateFields
  <2> QED
    BY <1>4, <2>1, <2>2 DEF RegisterExternalAgent, Typed
<1>5. ASSUME NEW a \in Internals, RegisterInternalAgent(a) PROVE Typed'
  <2>1. AgentsTyped'
    <3>1. a \in Parties /\ agent' = [agent EXCEPT ![a] = NewAgent("Registered")]
      BY <1>5, PartyFacts DEF RegisterInternalAgent, CreateInternalAgent
    <3>2. NewAgent("Registered") \in InternalRecs /\ NewAgent("Registered") \in AgentRecs
      BY NewAgentFacts DEF InternalRecs, AgentStates
    <3> QED
      BY <1>1, <3>1, <3>2, AgentSet
  <2> QED
    BY <1>5, <2>1 DEF RegisterInternalAgent, Typed
<1>6. ASSUME NEW a \in Parties, AgentNext(a) PROVE Typed'
  <2>1. AgentsTyped'
    <3>1. agent[a] \in AgentRecs /\ agent' = [agent EXCEPT ![a] = Ready(agent[a])]
      BY <1>1, <1>6 DEF AgentNext
    <3>2. Ready(agent[a]) \in AgentRecs
      BY <3>1, ReadyFacts
    <3>3. a \in Internals => Ready(agent[a]) \in InternalRecs
      <4> SUFFICES ASSUME a \in Internals PROVE Ready(agent[a]) \in InternalRecs
        OBVIOUS
      <4>1. ~agent[a].subscribed /\ ~agent[a].released
        BY <1>1 DEF InternalRecs
      <4> QED
        BY <3>1, <3>2, <4>1, ReadyFacts DEF InternalRecs
    <3> QED
      BY <1>1, <3>1, <3>2, <3>3, AgentSet
  <2>2. gate' \in GateRecs
    <3>1. gate' = gate \/ gate' = [gate EXCEPT !.ready = WalkThrough(gate.ready)]
      BY <1>6 DEF AgentNext
    <3> QED
      BY <1>1, <1>3, <3>1, GateFields
  <2> QED
    BY <1>6, <2>1, <2>2 DEF AgentNext, Typed
<1>7. ASSUME NEW a \in Parties, NEW to \in {"InitError", "ExitError"}, NEW from, Transition(a, from, to)
      PROVE AgentsTyped'
  <2>1. agent[a] \in AgentRecs /\ agent' = [agent EXCEPT ![a] = [agent[a] EXCEPT !.state = to]]
    BY <1>1, <1>7 DEF Transition
  <2>2. [agent[a] EXCEPT !.state = to] \in AgentRecs
    BY <2>1, StateSet DEF AgentStates
  <2>3. a \in Internals => [agent[a] EXCEPT !.state = to] \in InternalRecs
    <3> SUFFICES ASSUME a \in Internals PROVE [agent[a] EXCEPT !.state = to] \in InternalRecs
      OBVIOUS
    <3>1. ~agent[a].subscribed /\ ~agent[a].released
      BY <1>1 DEF InternalRecs
    <3>2. LET n == [agent[a] EXCEPT !.state = to] IN ~n.subscribed /\ ~n.released /\ n.state = to
      BY <2>1, <3>1, StateSet DEF AgentStates
    <3> QED
      BY <2>2, <3>2 DEF InternalRecs
  <2> QED
    BY <1>1, <2>1, <2>2, <2>3, AgentSet
<1>8. ASSUME NEW a \in Parties, AgentInitError(a) PROVE Typed'
  BY <1>2, <1>7, <1>8 DEF AgentInitError, Typed
<1>9. ASSUME NEW a \in Parties, AgentExitError(a) PROVE Typed'
  BY <1>2, <1>7, <1>9 DEF AgentExitError, Typed
<1>10. CASE RuntimeNext
  <2>1. gate' \in GateRecs
    <3>1. gate' = [gate EXCEPT !.runtime = WalkThrough(gate.runtime)]
      BY <1>10 DEF RuntimeNext
    <3> QED
      BY <1>1, <1>3, <3>1, GateFields
  <2> QED
    BY <1>10, <2>1 DEF RuntimeNext, Typed, AgentsTyped
<1>11. CASE RuntimeInitError
  <2>1. service' \in ServiceRecs
    BY <1>1, <1>11, ServiceFields DEF RuntimeInitError, RuntimeStates
  <2> QED
    BY <1>2, <1>11, <2>1 DEF RuntimeInitError, Typed, AgentsTyped
<1> QED
  BY <1>4, <1>5, <1>6, <1>8, <1>9, <1>10, <1>11

\* Processes that end, and the watcher of their exits.
LEMMA ExitStepTyped ==
    ASSUME Typed, WatcherSteps \/ (\E p \in Procs, z \in BOOLEAN : Exits(p, z)) \/ (\E p \in Procs : Dies(p) \/ StrayExits(p))
    PROVE  Typed'
<1> USE DEF appVars, downVars, coreVars
<1>1. /\ gate \in GateRecs /\ service \in ServiceRecs /\ AgentsTyped /\ fatal \in Fatals \cup {nil}
      /\ agent \in [Parties -> AgentRecs] /\ proc \in [Procs -> ProcRecs] /\ watcher \in WatcherRecs
      /\ awaitingExit \in SUBSET Agents
  BY DEF Typed, AgentsTyped
<1>2. ASSUME NEW p \in Procs, NEW z \in BOOLEAN, Exits(p, z) PROVE Typed'
  <2>1. proc' = [proc EXCEPT ![p] = [proc[p] EXCEPT !.life = "dead", !.zero = z]]
    BY <1>2 DEF Exits
  <2>2. [proc[p] EXCEPT !.life = "dead", !.zero = z] \in ProcRecs
    BY <1>1, ProcOps, ZenonT(60)
  <2>3. proc' \in [Procs -> ProcRecs]
    BY <1>1, <2>1, <2>2
  <2> QED
    BY <1>2, <2>3 DEF Exits, Typed, AgentsTyped
<1>3. ASSUME NEW p \in Procs, Dies(p) PROVE Typed'
  <2>1. [proc[p] EXCEPT !.life = "dead"] \in ProcRecs
    BY <1>1, ProcOps
  <2>2. proc' \in [Procs -> ProcRecs]
    BY <1>1, <1>3, <2>1 DEF Dies
  <2> QED
    BY <1>3, <2>2 DEF Dies, Typed, AgentsTyped
<1>8. ASSUME NEW p \in Procs, StrayExits(p) PROVE Typed'
  <2>1. [proc[p] EXCEPT !.life = "none"] \in ProcRecs
    BY <1>1, ProcOps
  <2>2. proc' \in [Procs -> ProcRecs]
    BY <1>1, <1>8, <2>1 DEF StrayExits
  <2> QED
    BY <1>8, <2>2 DEF StrayExits, Typed, AgentsTyped
<1>4. ASSUME NEW p \in Procs, TakeEvent(p) PROVE Typed'
  <2>1. [proc[p] EXCEPT !.life = "gone"] \in ProcRecs
    BY <1>1, ProcOps
  <2>2. proc' \in [Procs -> ProcRecs]
    BY <1>1, <1>4, <2>1 DEF TakeEvent
  <2>3. watcher' \in WatcherRecs
    BY <1>1, <1>4, WatcherFields DEF TakeEvent
  <2> QED
    BY <1>4, <2>2, <2>3 DEF TakeEvent, Typed, AgentsTyped
<1>5. CASE CheckShuttingDown
  <2>1. PICK q \in {"exit", "crash"} : watcher' = [watcher EXCEPT !.pc = q]
    BY <1>5 DEF CheckShuttingDown, WatcherStep
  <2>2. watcher' \in WatcherRecs
    BY <1>1, <2>1, WatcherFields
  <2> QED
    BY <1>5, <2>2 DEF CheckShuttingDown, Typed, AgentsTyped
<1>6. ASSUME NEW m \in BOOLEAN, Crash(m) PROVE Typed'
  <2>1. watcher' \in WatcherRecs
    BY <1>1, <1>6, WatcherFields DEF Crash
  <2>2. fatal' \in Fatals \cup {nil}
    BY <1>1, <1>6 DEF Crash, FirstFatal, Fatals
  <2>3. shuttingDown' \in BOOLEAN /\ monitor' \in {"waiting", "notified", "gone"}
    BY <1>6 DEF Crash, Typed
  <2> QED
    BY <1>6, <2>1, <2>2, <2>3 DEF Crash, Typed, AgentsTyped
<1>7. CASE HandleProcessExit
  <2>1. watcher' \in WatcherRecs
    BY <1>1, <1>7, WatcherFields DEF HandleProcessExit
  <2>2. service' \in ServiceRecs
    BY <1>1, <1>7, ServiceFields DEF HandleProcessExit, CancelFlows
  <2>3. gate' \in GateRecs
    <3>1. watcher.err \in {nil, "crash", "timeout"}
      BY <1>1 DEF WatcherRecs
    <3>2. gate' = gate \/ gate' = [g \in DOMAIN gate |-> CancelWithError(gate[g], watcher.err)]
      BY <1>7 DEF HandleProcessExit, CancelFlows
    <3> QED
      BY <1>1, <3>1, <3>2, CanceledGates
  <2>4. AgentsTyped'
    <3>1. \/ agent' = agent
          \/ \E a \in Agents, s \in {"Exited", "ShutdownFailed"} : agent' = [agent EXCEPT ![a] = [agent[a] EXCEPT !.state = s]]
      BY <1>1, <1>7 DEF HandleProcessExit
    <3>2. CASE agent' = agent
      BY <1>1, <3>2 DEF AgentsTyped
    <3>3. CASE \E a \in Agents, s \in {"Exited", "ShutdownFailed"} : agent' = [agent EXCEPT ![a] = [agent[a] EXCEPT !.state = s]]
      <4>1. PICK a \in Agents, s \in {"Exited", "ShutdownFailed"} : agent' = [agent EXCEPT ![a] = [agent[a] EXCEPT !.state = s]]
        BY <3>3
      <4>2. a \in Parties /\ a \notin Internals /\ agent[a] \in AgentRecs
        BY <1>1, PartyFacts
      <4>3. [agent[a] EXCEPT !.state = s] \in AgentRecs
        BY <4>2, StateSet DEF AgentStates
      <4> QED
        BY <1>1, <4>1, <4>2, <4>3, AgentSet
    <3> QED
      BY <3>1, <3>2, <3>3
  <2>5. proc' \in [Procs -> ProcRecs]
    <3>1. PICK x : x = IF proc[watcher.p].exited = "open" THEN "closed" ELSE proc[watcher.p].exited
      OBVIOUS
    <3>2. proc' = [proc EXCEPT ![watcher.p] = [proc[watcher.p] EXCEPT !.exited = x, !.zero = FALSE]]
      BY <1>7, <3>1 DEF HandleProcessExit
    <3>3. watcher.p \in Procs => [proc[watcher.p] EXCEPT !.exited = x, !.zero = FALSE] \in ProcRecs
      <4> SUFFICES ASSUME watcher.p \in Procs PROVE [proc[watcher.p] EXCEPT !.exited = x, !.zero = FALSE] \in ProcRecs
        OBVIOUS
      <4>1. proc[watcher.p] \in ProcRecs
        BY <1>1
      <4>2. x \in {"none", "open", "closed"}
        BY <3>1, <4>1 DEF ProcRecs
      <4> QED
        BY <4>1, <4>2, ProcOps, ZenonT(60)
    <3> QED
      BY <1>1, <3>2, <3>3
  <2> QED
    BY <1>7, <2>1, <2>2, <2>3, <2>4, <2>5 DEF HandleProcessExit, Typed
<1> QED
  BY <1>2, <1>3, <1>4, <1>5, <1>6, <1>7, <1>8 DEF WatcherSteps

\* The shutdown, the server and the invoke.
LEMMA DownStepTyped ==
    ASSUME Typed,
           \/ DownStep \/ ShutdownAfterInit \/ ShutdownByMonitor \/ KillRuntimeTimesOut \/ Flush("hangs") \/ StopServer
           \/ \E a \in Agents : AgentStops(a) \/ AgentDeadline(a) \/ KillAgentTimesOut(a) \/ KillAgent(a) \/ KillComesLate(a)
    PROVE  Typed'
<1> USE DEF appVars, downVars, coreVars
<1>1. /\ agent \in [Parties -> AgentRecs] /\ AgentsTyped /\ proc \in [Procs -> ProcRecs]
      /\ down \in DownRecs /\ stop \in [Agents -> StopStates]
      /\ state \in Statuses /\ appErr \in Errors /\ awaitingExit \in SUBSET Agents
  BY DEF Typed, AgentsTyped
<1>2. \A d \in DownRecs : ThenAwaitAll(d) \in DownRecs
  BY ThenAwaitAllFacts
<1>3. \A ps : proc' = KilledAll(ps) => proc' \in [Procs -> ProcRecs]
  BY <1>1, KilledAllFacts
<1>4. ASSUME NEW e \in Errors, Shutdown(e)
      PROVE  /\ down' \in DownRecs /\ state' \in Statuses /\ appErr' \in Errors
             /\ invoke' \in {"none", "checked", "running", "aborted", "body", "answered", "failed", "refused"}
  <2>1. down' = down \/ down' = [down EXCEPT !.pc = "awaitInvokes"]
    BY <1>4 DEF Shutdown
  <2>2. down' \in DownRecs
    BY <1>1, <2>1 DEF DownRecs, DownSteps
  <2>3. state' \in Statuses /\ appErr' \in Errors
    BY <1>1, <1>4 DEF Shutdown, Statuses
  <2>4. invoke' \in {"none", "checked", "running", "aborted", "body", "answered", "failed", "refused"}
    BY <1>4 DEF Shutdown, AbortRunningInvokes, Typed
  <2> QED
    BY <2>2, <2>3, <2>4
<1>5. CASE ShutdownAfterInit
  <2>1. init.err \in Errors
    BY DEF Typed, InitRecs
  <2> QED
    BY <1>4, <1>5, <2>1 DEF ShutdownAfterInit, Typed, AgentsTyped
<1>6. CASE ShutdownByMonitor
  <2>1. fatal \in Errors
    BY DEF Typed, Errors
  <2> QED
    BY <1>4, <1>6, <2>1 DEF ShutdownByMonitor, Typed, AgentsTyped
<1>7. CASE StopServer
  <2>1. "shutdown" \in Errors
    BY DEF Errors
  <2> QED
    BY <1>4, <1>7, <2>1 DEF StopServer, Typed, AgentsTyped
<1>8. CASE Look
  <2>1. PICK d : d = [down EXCEPT !.graceful = CountAgents # 0, !.agents = External,
                                  !.seen = {p \in Procs : HasChannel(p)}]
    OBVIOUS
  <2>2. d \in DownRecs
    <3>1. (CountAgents # 0) \in BOOLEAN /\ External \in SUBSET Agents /\ {p \in Procs : HasChannel(p)} \in SUBSET Procs
      BY DEF External
    <3> QED
      BY <1>1, <2>1, <3>1 DEF DownRecs
  <2>3. \/ down' = [d EXCEPT !.pc = "runtime"] \/ down' = [d EXCEPT !.pc = "killRuntime"]
        \/ down' = ThenAwaitAll(d)
    BY <1>8, <2>1 DEF Look
  <2>4. down' \in DownRecs
    BY <1>2, <2>2, <2>3 DEF DownRecs, DownSteps
  <2>5. proc' \in [Procs -> ProcRecs]
    BY <1>1, <1>3, <1>8 DEF Look
  <2> QED
    BY <1>8, <2>4, <2>5 DEF Look, Typed, AgentsTyped
<1>9. CASE ShutdownRuntime
  <2>1. down' = [down EXCEPT !.pc = "awaitRuntime"] \/ down' = [down EXCEPT !.pc = "flush", !.failed = TRUE]
    BY <1>9 DEF ShutdownRuntime
  <2>2. down' \in DownRecs
    BY <1>1, <2>1 DEF DownRecs, DownSteps
  <2> QED
    BY <1>9, <2>2 DEF ShutdownRuntime, Typed, AgentsTyped
<1>10. CASE AwaitRuntimeExit
  <2>1. down' = [down EXCEPT !.pc = "flush"] \/ down' = [down EXCEPT !.pc = "killRuntime"]
    BY <1>10 DEF AwaitRuntimeExit
  <2>2. down' \in DownRecs
    BY <1>1, <2>1 DEF DownRecs, DownSteps
  <2>3. proc' \in [Procs -> ProcRecs]
    BY <1>1, <1>3, <1>10 DEF AwaitRuntimeExit
  <2> QED
    BY <1>10, <2>2, <2>3 DEF AwaitRuntimeExit, Typed, AgentsTyped
<1>11. ASSUME NEW b \in BOOLEAN, AfterKill(b) PROVE down' \in DownRecs
  <2>1. [down EXCEPT !.failed = b] \in DownRecs
    BY <1>1, DownFields
  <2>2. \/ down' = [[down EXCEPT !.failed = b] EXCEPT !.pc = "flush"]
        \/ down' = ThenAwaitAll([down EXCEPT !.failed = b])
    BY <1>11 DEF AfterKill
  <2> QED
    BY <1>2, <2>1, <2>2 DEF DownRecs, DownSteps
<1>12. CASE RuntimeKilled
  BY <1>1, <1>11, <1>12 DEF RuntimeKilled, Typed, AgentsTyped, DownRecs
<1>13. CASE KillRuntimeTimesOut
  BY <1>11, <1>13, ZenonT(60) DEF KillRuntimeTimesOut, Typed, AgentsTyped
<1>14. CASE ShutdownAgents
  <2>1. PICK launched, told : /\ launched = {a \in down.agents : HasChannel(a)}
                              /\ told = {a \in launched : agent[a].subscribed}
    OBVIOUS
  <2>2. told \subseteq Agents
    BY <1>1, <2>1 DEF DownRecs
  <2>3. down' \in DownRecs
    <3>1. down' = [down EXCEPT !.pc = "awaitAgents", !.agents = {}]
      BY <1>14 DEF ShutdownAgents
    <3> QED
      BY <1>1, <3>1, DownFields, ZenonT(60) DEF DownSteps
  <2>4. awaitingExit' \in SUBSET Agents
    BY <1>1, <1>14, <2>1, <2>2 DEF ShutdownAgents
  <2>5. stop' \in [Agents -> StopStates]
    BY <1>14 DEF ShutdownAgents, StopStates
  <2>6. proc' \in [Procs -> ProcRecs]
    BY <1>1, <1>14 DEF ShutdownAgents
  <2>7. AgentsTyped'
    <3>1. agent' = [a \in Parties |-> IF a \notin told THEN agent[a]
                                      ELSE IF [agent[a] EXCEPT !.released = TRUE].suspended
                                           THEN Resumed([agent[a] EXCEPT !.released = TRUE])
                                           ELSE [agent[a] EXCEPT !.released = TRUE]]
      BY <1>14, <2>1 DEF ShutdownAgents
    <3>2. \A a \in Parties : /\ [agent[a] EXCEPT !.released = TRUE] \in AgentRecs
                             /\ Resumed([agent[a] EXCEPT !.released = TRUE]) \in AgentRecs
      BY <1>1, ReleasedSet, ResumedFacts
    <3>3. \A a \in Parties : agent'[a] \in AgentRecs
      BY <1>1, <3>1, <3>2
    <3>4. \A a \in Internals : agent'[a] = agent[a]
      BY <2>2, <3>1, PartyFacts
    <3> QED
      BY <1>1, <3>1, <3>3, <3>4 DEF AgentsTyped
  <2> QED
    BY <1>14, <2>3, <2>4, <2>5, <2>6, <2>7 DEF ShutdownAgents, Typed
<1>15. ASSUME NEW a \in Agents, AgentStops(a) PROVE Typed'
  BY <1>15 DEF AgentStops, Typed, AgentsTyped, StopStates
<1>16. ASSUME NEW a \in Agents, AgentDeadline(a) \/ KillAgent(a) PROVE Typed'
  <2>1. stop' \in [Agents -> StopStates]
    BY <1>1, <1>16 DEF AgentDeadline, KillAgent, StopStates
  <2>2. proc' \in [Procs -> ProcRecs]
    BY <1>3, <1>16 DEF AgentDeadline, KillAgent
  <2> QED
    BY <1>16, <2>1, <2>2 DEF AgentDeadline, KillAgent, Typed, AgentsTyped
<1>21. ASSUME NEW a \in Agents, KillComesLate(a) PROVE Typed'
  <2>1. down' \in DownRecs
    BY <1>1, <1>21 DEF KillComesLate, DownRecs
  <2>2. stop' \in [Agents -> StopStates]
    BY <1>1, <1>21 DEF KillComesLate, StopStates
  <2> QED
    BY <1>21, <2>1, <2>2 DEF KillComesLate, Typed, AgentsTyped
<1>22. ASSUME NEW q \in {"agents", "hangs"}, Flush(q) PROVE Typed'
  <2>1. down' \in DownRecs
    BY <1>1, <1>22 DEF Flush, DownRecs, DownSteps
  <2> QED
    BY <1>22, <2>1 DEF Flush, Typed, AgentsTyped
<1>17. ASSUME NEW a \in Agents, KillAgentTimesOut(a) PROVE Typed'
  <2>1. PICK b \in BOOLEAN : down' = [down EXCEPT !.failed = b]
    BY <1>17 DEF KillAgentTimesOut
  <2>2. down' \in DownRecs
    BY <1>1, <2>1, DownFields
  <2> QED
    BY <1>17, <2>2 DEF KillAgentTimesOut, Typed, AgentsTyped, StopStates
<1>18. CASE AgentsStopped
  BY <1>1, <1>2, <1>18 DEF AgentsStopped, Typed, AgentsTyped
<1>19. CASE AwaitAll
  <2>1. \/ down' = [down EXCEPT !.pc = "finish", !.wait = {}]
        \/ down' = [down EXCEPT !.pc = "finish", !.wait = {}, !.failed = TRUE]
    BY <1>19 DEF AwaitAll
  <2>2. down' \in DownRecs
    BY <1>1, <2>1 DEF DownRecs, DownSteps
  <2> QED
    BY <1>19, <2>2 DEF AwaitAll, Typed, AgentsTyped
<1>20. CASE Finish
  <2>1. down' \in DownRecs
    BY <1>1, <1>20 DEF Finish, DownRecs, DownSteps
  <2> QED
    BY <1>20, <2>1 DEF Finish, Typed, AgentsTyped, Statuses
<1> QED
  BY <1>5, <1>6, <1>7, <1>8, <1>9, <1>10, <1>12, <1>13, <1>14, <1>15, <1>16, <1>17, <1>18, <1>19,
     <1>20, <1>21, <1>22 DEF DownStep

\* The steps of the invoke, and the end of the server.
LEMMA CallSteps ==
    ASSUME Typed, Invoke \/ HandleInvoke \/ ResponseComes \/ BodyEnds \/ InvokeEnds \/ ServerCloses
    PROVE  /\ UNCHANGED <<appVars, init, downVars, coreVars, proc, watcher, shuttingDown, fatal, monitor, rapi>>
           /\ Typed'
<1>1. \A from, to : InvokeMoves(from, to)
         => UNCHANGED <<appVars, init, downVars, coreVars, proc, watcher, shuttingDown, fatal, monitor, rapi, server>>
  BY DEF InvokeMoves
<1>2. UNCHANGED <<appVars, init, downVars, coreVars, proc, watcher, shuttingDown, fatal, monitor, rapi>>
  BY <1>1 DEF Invoke, HandleInvoke, ResponseComes, BodyEnds, InvokeEnds, ServerCloses
<1>3. /\ server' \in {"up", "stopping", "closed"}
      /\ invoke' \in {"none", "checked", "running", "aborted", "body", "answered", "failed", "refused"}
  BY DEF Invoke, HandleInvoke, ResponseComes, BodyEnds, InvokeEnds, InvokeMoves, ServerCloses, Typed
<1> QED
  BY <1>2, <1>3 DEF Typed, AgentsTyped, appVars, downVars, coreVars

\* The ways a step of the program can be taken, as the inductions use them.
LEMMA Steps ==
    ASSUME [Next]_vars
    PROVE  \/ UNCHANGED vars
           \/ InitStep \/ Mishap
           \/ \/ \E a \in Agents, s \in BOOLEAN : RegisterExternalAgent(a, s)
              \/ \E a \in Internals : RegisterInternalAgent(a)
              \/ \E a \in Parties : AgentNext(a) \/ AgentInitError(a) \/ AgentExitError(a)
              \/ RuntimeNext \/ RuntimeInitError
           \/ WatcherSteps \/ (\E p \in Procs, z \in BOOLEAN : Exits(p, z)) \/ (\E p \in Procs : Dies(p) \/ StrayExits(p))
           \/ \/ DownStep \/ ShutdownAfterInit \/ ShutdownByMonitor \/ KillRuntimeTimesOut \/ Flush("hangs") \/ StopServer
              \/ \E a \in Agents : AgentStops(a) \/ AgentDeadline(a) \/ KillAgentTimesOut(a) \/ KillAgent(a) \/ KillComesLate(a)
           \/ Invoke \/ HandleInvoke \/ ResponseComes \/ BodyEnds \/ InvokeEnds \/ ServerCloses
BY DEF Next, Program, World, Fault, Mishap, Signal, ListenerFails, ServerFollows

LEMMA NextTyped ==
    ASSUME Typed, [Next]_vars
    PROVE  Typed'
<1>1. CASE UNCHANGED vars
  BY <1>1 DEF vars, appVars, downVars, coreVars, Typed, AgentsTyped
<1> QED
  BY <1>1, Steps, InitStepTyped, ApiStepTyped, ExitStepTyped, DownStepTyped, CallSteps

LEMMA InitTyped ==
    ASSUME Init
    PROVE  Typed /\ faults = 0
<1>1. \A b \in BOOLEAN : /\ [pc |-> "none", graceful |-> b, agents |-> {}, failed |-> b, wait |-> {}, seen |-> {},
                             late |-> {}] \in DownRecs
                         /\ [pc |-> "off", p |-> nil, err |-> nil, missed |-> b] \in WatcherRecs
                         /\ [life |-> "none", exited |-> "none", zero |-> b] \in ProcRecs
                         /\ \A n \in Nat : [count |-> n, arrived |-> 0, canceled |-> b, err |-> nil] \in Gate
  BY DEF DownRecs, DownSteps, WatcherRecs, ProcRecs, Gate
<1>2. down \in DownRecs /\ watcher \in WatcherRecs
  BY <1>1, Zenon DEF Init, NewShutdown
<1>3. proc \in [Procs -> ProcRecs]
  BY <1>1 DEF Init
<1>4. gate \in GateRecs
  <2>1. \A n \in Nat : NewGate(n) \in Gate
    BY <1>1 DEF NewGate
  <2>2. 0 \in Nat /\ 1 \in Nat /\ MaxAgentsLimit \in Nat
    BY InstanceAssumption
  <2>3. NewGate(0) \in Gate /\ NewGate(1) \in Gate /\ NewGate(MaxAgentsLimit) \in Gate
    BY <2>1, <2>2
  <2> QED
    BY <2>3 DEF Init, NewInitFlow, GateRecs
<1>5. service \in ServiceRecs
  <2>1. \A b, c \in BOOLEAN : [on |-> b, canceled |-> c, runtime |-> nil] \in ServiceRecs
    BY DEF ServiceRecs, RuntimeStates
  <2> QED
    BY <2>1, Zenon DEF Init
<1>6. AgentsTyped
  <2>1. NoAgent \in AgentRecs /\ NoAgent \in InternalRecs
    BY NewAgentFacts DEF InternalRecs, AgentStates
  <2> QED
    BY <2>1, PartyFacts DEF Init, AgentsTyped
<1>7. init \in InitRecs
  BY DEF Init, InitRecs, InitSteps, Errors
<1>8. stop \in [Agents -> StopStates] /\ awaitingExit \in SUBSET Agents
  BY DEF Init, StopStates
<1>9. state \in Statuses /\ appErr \in Errors /\ monitor \in {"waiting", "notified", "gone"}
  BY DEF Init, StartApp, Statuses, Errors
<1> QED
  BY <1>2, <1>3, <1>4, <1>5, <1>6, <1>7, <1>8, <1>9 DEF Init, Typed

\* TypeOK: every variable keeps to its type, the records of the internal extensions too, which
\* get no subscription and no release.
THEOREM TypeCorrect == Spec => []TypeOK
<1>1. Init => Typed /\ faults \in 0 .. MaxFaults
  <2>1. 0 \in 0 .. MaxFaults
    BY InstanceAssumption
  <2> QED
    BY <2>1, InitTyped
<1>2. Typed /\ faults \in 0 .. MaxFaults /\ [Next]_vars => (Typed /\ faults \in 0 .. MaxFaults)'
  <2>1. faults \in 0 .. MaxFaults /\ [Next]_vars => faults' \in 0 .. MaxFaults
    BY InstanceAssumption DEF Next, vars
  <2> QED
    BY <2>1, NextTyped
<1>3. Typed /\ faults \in 0 .. MaxFaults => TypeOK
  BY DEF Typed, TypeOK, InitRecs, DownRecs, GateRecs, WatcherRecs, AgentsTyped, StopStates
<1> QED
  BY <1>1, <1>2, <1>3, PTL DEF Spec

-----------------------------------------------------------------------------
(* An init that was canceled names its reason. *)

\* A step that starts no shutdown and reports no crash keeps NamedInv if it cancels gates, sets
\* shuttingDown or lets the watcher pass only when there is a reason already.
LEMMA NamedKept ==
    ASSUME NamedInv, UNCHANGED <<appErr, monitor>>, fatal # nil => fatal' # nil,
           init.pc \in {"failed", "returned"} => init'.pc \in {"failed", "returned"},
           init'.err = "gate" => appErr = "shutdown",
           shuttingDown' => shuttingDown \/ down.pc # "none",
           watcher'.pc = "exit" => watcher.pc = "exit" \/ shuttingDown,
           down'.pc = "none" <=> down.pc = "none",
           \A g \in DOMAIN gate' : gate'[g].canceled => Named' \/ Named
    PROVE  NamedInv'
<1>1. Named => Named'
  BY DEF Named
<1> QED
  BY <1>1 DEF NamedInv, CrashNamed

\* Steps that leave the gates as open or canceled as they are.
LEMMA CanceledKept ==
    ASSUME Typed, NamedInv,
           \/ gate' = gate
           \/ \E n \in Nat : gate' = [gate EXCEPT !.registered = [gate.registered EXCEPT !.count = n]]
           \/ \E n \in Nat : gate' = [gate EXCEPT !.ready = [gate.ready EXCEPT !.count = n]]
           \/ gate' = [gate EXCEPT !.registered = WalkThrough(gate.registered)]
           \/ gate' = [gate EXCEPT !.runtime = WalkThrough(gate.runtime)]
           \/ gate' = [gate EXCEPT !.ready = WalkThrough(gate.ready)]
    PROVE  \A g \in DOMAIN gate' : gate'[g].canceled => Named
<1>1. gate \in GateRecs
  BY DEF Typed
<1>2. DOMAIN gate = {"registered", "runtime", "ready"} /\ \A g \in DOMAIN gate : gate[g] \in Gate
  BY <1>1 DEF GateRecs
<1>3. \A g \in Gate : WalkThrough(g).canceled = g.canceled
  BY GateOps
<1>4. \A g \in Gate : \A n \in Nat : [g EXCEPT !.count = n].canceled = g.canceled
  BY DEF Gate
<1>5. gate' = gate \/ \E h \in DOMAIN gate, r \in Gate : gate' = [gate EXCEPT ![h] = r] /\ r.canceled = gate[h].canceled
  <2>1. \A g \in Gate : \A n \in Nat : [g EXCEPT !.count = n] \in Gate
    BY DEF Gate
  <2>2. \A g \in Gate : WalkThrough(g) \in Gate
    BY GateOps
  <2>3. gate.registered \in Gate /\ gate.runtime \in Gate /\ gate.ready \in Gate
    BY <1>1, GateFields
  <2>4. CASE \E n \in Nat : gate' = [gate EXCEPT !.registered = [gate.registered EXCEPT !.count = n]]
    BY <1>2, <1>4, <2>1, <2>3, <2>4, ZenonT(60)
  <2>5. CASE \E n \in Nat : gate' = [gate EXCEPT !.ready = [gate.ready EXCEPT !.count = n]]
    BY <1>2, <1>4, <2>1, <2>3, <2>5, ZenonT(60)
  <2>6. CASE gate' = [gate EXCEPT !.registered = WalkThrough(gate.registered)]
    BY <1>2, <1>3, <2>2, <2>3, <2>6
  <2>7. CASE gate' = [gate EXCEPT !.runtime = WalkThrough(gate.runtime)]
    BY <1>2, <1>3, <2>2, <2>3, <2>7
  <2>8. CASE gate' = [gate EXCEPT !.ready = WalkThrough(gate.ready)]
    BY <1>2, <1>3, <2>2, <2>3, <2>8
  <2> QED
    BY <2>4, <2>5, <2>6, <2>7, <2>8
<1>6. DOMAIN gate' = DOMAIN gate /\ \A g \in DOMAIN gate : gate'[g].canceled = gate[g].canceled
  BY <1>1, <1>5 DEF GateRecs
<1> QED
  BY <1>6 DEF NamedInv

LEMMA InitStepNamed ==
    ASSUME Typed, NamedInv,
           InitStep \/ Mishap
    PROVE  NamedInv'
<1> USE DEF appVars, downVars, coreVars
<1>1. init \in InitRecs /\ gate \in GateRecs /\ fatal \in Fatals \cup {nil} /\ watcher \in WatcherRecs
  BY DEF Typed
<1>2. \A e : Fails(e) => init'.pc = "failed" /\ init'.err = e
  BY <1>1 DEF Fails, InitRecs
<1>3. CrashNamed
  BY DEF NamedInv
<1>4. ASSUME NEW found \in SUBSET Agents, StartInit(found) PROVE NamedInv'
  <2>1. gate' = gate \/ \E n \in Nat : gate' = [gate EXCEPT !.registered = [gate.registered EXCEPT !.count = n]]
    <3>1. Cardinality(found) \in Nat
      BY FoundCount
    <3> QED
      BY <1>4, <3>1 DEF StartInit
  <2>2. init'.err = "gate" => appErr = "shutdown"
    BY <1>1, <1>3, <1>4 DEF StartInit, InitRecs, CrashNamed
  <2>3. watcher'.pc = "exit" => watcher.pc = "exit"
    BY <1>1, <1>4 DEF StartInit, WatcherRecs
  <2>4. \A g \in DOMAIN gate' : gate'[g].canceled => Named
    BY <2>1, CanceledKept
  <2> QED
    BY <1>4, <2>2, <2>3, <2>4, NamedKept DEF StartInit
<1>5. CASE AgentLaunched \/ RuntimeLaunched
  <2>1. PICK p, q : CreateExitedChannel(p, q) /\ init.pc \notin {"failed", "returned"}
    BY <1>5 DEF AgentLaunched, RuntimeLaunched
  <2>2. init'.err = init.err
    BY <1>1, <2>1 DEF CreateExitedChannel, InitRecs
  <2> QED
    BY <1>3, <2>1, <2>2, CanceledKept, NamedKept DEF CreateExitedChannel, CrashNamed
<1>6. ASSUME NEW a \in Agents, LaunchAgent(a) PROVE NamedInv'
  <2>1. init.pc = "launch" /\ (fatal # nil => fatal' # nil)
    BY <1>6 DEF LaunchAgent, FirstFatal
  <2>2. init'.err = "tooMany" \/ init'.err = init.err
    BY <1>1, <1>2, <1>6 DEF LaunchAgent, InitRecs
  <2>3. init'.err = "gate" => appErr = "shutdown"
    BY <1>3, <2>2 DEF CrashNamed
  <2> QED
    BY <1>6, <2>1, <2>3, CanceledKept, NamedKept DEF LaunchAgent
\* A launch that goes wrong has an error of its own.
<1>7. ASSUME NEW e \in {"launch", "platform"}, Fails(e), init.pc \in {"launch", "runtime"},
             UNCHANGED <<appErr, monitor, shuttingDown, watcher, down, gate>>, fatal # nil => fatal' # nil
      PROVE  NamedInv'
  <2>1. init'.err # "gate"
    BY <1>2, <1>7
  <2> QED
    BY <1>7, <2>1, CanceledKept, NamedKept
<1>11. CASE Mishap
  <2>1. ASSUME NEW a \in Agents, NEW b \in BOOLEAN, LaunchFails(a, b) PROVE NamedInv'
    BY <1>7, <2>1 DEF LaunchFails, FirstFatal
  <2>2. ASSUME NEW a \in Agents, NameCollision(a) \/ NoAgentSockets(a) PROVE NamedInv'
    BY <1>7, <2>2 DEF NameCollision, NoAgentSockets
  <2>3. ASSUME NEW b \in BOOLEAN, RuntimeFails(b) PROVE NamedInv'
    BY <1>7, <2>3 DEF RuntimeFails, FirstFatal
  <2>4. CASE NoRuntimeSockets
    BY <1>7, <2>4 DEF NoRuntimeSockets
  <2> QED
    BY <1>11, <2>1, <2>2, <2>3, <2>4 DEF Mishap
<1>8. ASSUME NEW g \in {"registered", "runtime", "ready"}, NEW pc \in InitSteps \ {"failed", "returned"},
             NEW then, AwaitGate(pc, g, then)
      PROVE  NamedInv'
  <2>1. init.pc \notin {"failed", "returned"}
    BY <1>8 DEF AwaitGate
  <2>2. g \in DOMAIN gate
    BY <1>1 DEF GateRecs
  <2>3. CASE GateOpens(g, then)
    <3>1. init'.err = "gate" => appErr = "shutdown"
      <4>1. CASE gate[g].canceled
        <5>1. Named
          BY <2>2, <4>1 DEF NamedInv
        <5>2. fatal # nil \/ appErr = "shutdown"
          BY <2>1, <5>1 DEF Named
        <5>3. init'.err = ResolveGateError("canceled")
          BY <1>2, <2>3, <4>1 DEF GateOpens
        <5>4. fatal # "gate"
          BY <1>1 DEF Fatals, nil
        <5> QED
          BY <5>2, <5>3, <5>4 DEF ResolveGateError
      <4>2. CASE ~gate[g].canceled
        BY <1>1, <1>3, <2>3, <4>2 DEF GateOpens, CrashNamed, InitRecs
      <4> QED
        BY <4>1, <4>2
    <3>2. \A h \in DOMAIN gate' : gate'[h].canceled => Named
      BY <2>3, CanceledKept DEF GateOpens
    <3> QED
      BY <1>8, <2>1, <3>1, <3>2, NamedKept DEF AwaitGate
  <2>4. CASE GateTimesOut(g)
    <3>1. init'.err # "gate" /\ init'.pc = "failed"
      BY <1>1, <1>2, <2>4 DEF GateTimesOut, ResolveGateError, Fatals
    <3>2. Named'
      BY <3>1 DEF Named
    <3> QED
      BY <1>8, <2>1, <3>1, <3>2, NamedKept DEF AwaitGate
  <2> QED
    BY <1>8, <2>3, <2>4 DEF AwaitGate
<1>9. CASE AwaitExternalAgentsRegistered \/ AwaitRuntimeReady \/ AwaitAgentsReady
  BY <1>8, <1>9 DEF AwaitExternalAgentsRegistered, AwaitRuntimeReady, AwaitAgentsReady, InitSteps
<1>10. CASE StartRuntime
  <2>1. init.pc = "runtime" /\ init'.err = init.err
    BY <1>1, <1>10 DEF StartRuntime, InitRecs
  <2> QED
    BY <1>3, <1>10, <2>1, CanceledKept, NamedKept DEF StartRuntime, CrashNamed
<1>12. CASE TurnOff
  <2>1. init.pc = "turnOff" /\ init'.err = init.err
    BY <1>1, <1>12 DEF TurnOff, InitRecs
  <2> QED
    BY <1>3, <1>12, <2>1, CanceledKept, NamedKept DEF TurnOff, CrashNamed
<1>13. CASE SetAgentsReadyCount
  <2>1. gate' = gate \/ \E n \in Nat : gate' = [gate EXCEPT !.ready = [gate.ready EXCEPT !.count = n]]
    <3>1. IsFiniteSet(Registered)
      BY PartyFacts, FS_Subset DEF Registered
    <3>2. CountAgents \in Nat
      BY <3>1, FS_CardinalityType DEF CountAgents
    <3> QED
      BY <1>13, <3>2 DEF SetAgentsReadyCount
  <2>2. init.pc = "setCount" /\ (init'.err = "gate" => appErr = "shutdown")
    BY <1>1, <1>2, <1>3, <1>13 DEF SetAgentsReadyCount, InitRecs, CrashNamed
  <2>3. \A g \in DOMAIN gate' : gate'[g].canceled => Named
    BY <2>1, CanceledKept
  <2> QED
    BY <1>13, <2>2, <2>3, NamedKept DEF SetAgentsReadyCount
<1>14. CASE InitSucceeds
  <2>1. init'.pc = "returned" /\ (init'.err = "gate" => appErr = "shutdown")
    BY <1>1, <1>3, <1>14 DEF InitSucceeds, InitRecs, CrashNamed
  <2> QED
    BY <1>14, <2>1, CanceledKept, NamedKept DEF InitSucceeds
<1>15. CASE InitReturns
  <2>1. init'.pc = "returned" /\ init'.err = init.err
    BY <1>1, <1>15 DEF InitReturns, InitRecs
  <2> QED
    BY <1>3, <1>15, <2>1, CanceledKept, NamedKept DEF InitReturns, CrashNamed
<1> QED
  BY <1>4, <1>5, <1>6, <1>9, <1>10, <1>11, <1>12, <1>13, <1>14, <1>15 DEF InitStep

LEMMA ApiStepNamed ==
    ASSUME Typed, NamedInv,
           \/ \E a \in Agents, s \in BOOLEAN : RegisterExternalAgent(a, s)
           \/ \E a \in Internals : RegisterInternalAgent(a)
           \/ \E a \in Parties : AgentNext(a) \/ AgentInitError(a) \/ AgentExitError(a)
           \/ RuntimeNext \/ RuntimeInitError
    PROVE  NamedInv'
<1> USE DEF appVars, downVars, coreVars
<1>1. UNCHANGED <<appErr, monitor, init, shuttingDown, watcher, down>>
  BY DEF RegisterExternalAgent, RegisterInternalAgent, AgentNext, AgentInitError, AgentExitError,
         RuntimeNext, RuntimeInitError
<1>2. fatal # nil => fatal' # nil
  BY DEF RegisterExternalAgent, RegisterInternalAgent, AgentNext, AgentInitError, AgentExitError,
         RuntimeNext, RuntimeInitError, FirstFatal
<1>3. \/ gate' = gate
      \/ gate' = [gate EXCEPT !.registered = WalkThrough(gate.registered)]
      \/ gate' = [gate EXCEPT !.runtime = WalkThrough(gate.runtime)]
      \/ gate' = [gate EXCEPT !.ready = WalkThrough(gate.ready)]
  BY DEF RegisterExternalAgent, Register, RegisterInternalAgent, AgentNext, AgentInitError, AgentExitError,
         RuntimeNext, RuntimeInitError
<1>4. \A g \in DOMAIN gate' : gate'[g].canceled => Named
  BY <1>3, CanceledKept
<1>5. init.err = "gate" => appErr = "shutdown"
  BY DEF NamedInv, CrashNamed
<1> QED
  BY <1>1, <1>2, <1>4, <1>5, NamedKept

LEMMA ExitStepNamed ==
    ASSUME Typed, NamedInv,
           WatcherSteps \/ (\E p \in Procs, z \in BOOLEAN : Exits(p, z)) \/ (\E p \in Procs : Dies(p) \/ StrayExits(p))
    PROVE  NamedInv'
<1> USE DEF appVars, downVars, coreVars
<1>1. /\ gate \in GateRecs /\ watcher \in WatcherRecs /\ fatal \in Fatals \cup {nil}
      /\ (init.err = "gate" => appErr = "shutdown")
  BY DEF Typed, NamedInv, CrashNamed
<1>2. ASSUME NEW p \in Procs, NEW z \in BOOLEAN, Exits(p, z) \/ Dies(p) \/ StrayExits(p) PROVE NamedInv'
  BY <1>1, <1>2, CanceledKept, NamedKept DEF Exits, Dies, StrayExits
<1>3. ASSUME NEW p \in Procs, TakeEvent(p) PROVE NamedInv'
  <2>1. watcher'.pc = "check"
    BY <1>1, <1>3 DEF TakeEvent, WatcherRecs
  <2> QED
    BY <1>1, <1>3, <2>1, CanceledKept, NamedKept DEF TakeEvent
<1>4. CASE CheckShuttingDown
  <2>1. watcher'.pc = "exit" => shuttingDown
    BY <1>1, <1>4 DEF CheckShuttingDown, WatcherStep, WatcherRecs
  <2> QED
    BY <1>1, <1>4, <2>1, CanceledKept, NamedKept DEF CheckShuttingDown
<1>5. ASSUME NEW m \in BOOLEAN, Crash(m) PROVE NamedInv'
  <2>1. fatal' # nil
    BY <1>5 DEF Crash, FirstFatal, nil
  <2>2. Named'
    BY <2>1 DEF Named
  <2> QED
    BY <1>1, <1>5, <2>1, <2>2 DEF Crash, NamedInv, CrashNamed
<1>6. CASE HandleProcessExit
  <2>1. Named
    BY <1>6 DEF HandleProcessExit, NamedInv
  <2>2. watcher'.pc = "idle"
    BY <1>1, <1>6 DEF HandleProcessExit, WatcherRecs
  <2> QED
    BY <1>1, <1>6, <2>1, <2>2, NamedKept DEF HandleProcessExit
<1> QED
  BY <1>2, <1>3, <1>4, <1>5, <1>6 DEF WatcherSteps

LEMMA DownStepNamed ==
    ASSUME Typed, NamedInv,
           \/ DownStep \/ ShutdownAfterInit \/ ShutdownByMonitor \/ KillRuntimeTimesOut \/ Flush("hangs") \/ StopServer
           \/ \E a \in Agents : AgentStops(a) \/ AgentDeadline(a) \/ KillAgentTimesOut(a) \/ KillAgent(a) \/ KillComesLate(a)
    PROVE  NamedInv'
<1> USE DEF appVars, downVars, coreVars
<1>1. /\ down \in DownRecs /\ init \in InitRecs /\ fatal \in Fatals \cup {nil}
      /\ (init.err = "gate" => appErr = "shutdown")
  BY DEF Typed, NamedInv, CrashNamed
\* Who starts the shutdown has a reason: the init has failed, the fatal error, or an order.
<1>2. ASSUME NEW e, Shutdown(e), e = "shutdown" \/ init.pc = "failed" \/ fatal # nil,
             UNCHANGED <<init, gate, watcher, shuttingDown, fatal>>, monitor' = "notified" => monitor = "notified"
      PROVE  NamedInv'
  <2>1. CASE down.pc = "none"
    <3>1. down'.pc = "awaitInvokes" /\ appErr' = e
      BY <1>1, <1>2, <2>1 DEF Shutdown, DownRecs
    <3>2. appErr = nil /\ init.err # "gate"
      BY <1>1, <2>1 DEF NamedInv, nil
    <3>3. Named'
      BY <1>2, <3>1 DEF Named
    <3> QED
      BY <1>2, <3>1, <3>2, <3>3 DEF NamedInv, CrashNamed
  <2>2. CASE down.pc # "none"
    BY <1>2, <2>2 DEF Shutdown, NamedInv, Named, CrashNamed
  <2> QED
    BY <2>1, <2>2
<1>3. CASE ShutdownAfterInit
  BY <1>2, <1>3 DEF ShutdownAfterInit
<1>4. CASE ShutdownByMonitor
  <2>1. fatal # nil
    BY <1>4 DEF ShutdownByMonitor, NamedInv
  <2> QED
    BY <1>2, <1>4, <2>1 DEF ShutdownByMonitor
<1>5. CASE StopServer
  BY <1>2, <1>5 DEF StopServer
<1>6. CASE \/ DownStep \/ KillRuntimeTimesOut \/ Flush("hangs")
           \/ \E a \in Agents : AgentStops(a) \/ AgentDeadline(a) \/ KillAgentTimesOut(a) \/ KillAgent(a) \/ KillComesLate(a)
  <2>1. UNCHANGED <<appErr, monitor, init, watcher, gate, fatal>>
    BY <1>6 DEF DownStep, Look, ShutdownRuntime, AwaitRuntimeExit, RuntimeKilled, KillRuntimeTimesOut,
                ShutdownAgents, AgentStops, AgentDeadline, KillAgentTimesOut, AgentsStopped, AwaitAll, Finish,
                Flush, KillAgent, KillComesLate
  <2>2. shuttingDown' => shuttingDown \/ down.pc # "none"
    BY <1>6 DEF DownStep, Look, ShutdownRuntime, AwaitRuntimeExit, RuntimeKilled, KillRuntimeTimesOut,
                ShutdownAgents, AgentStops, AgentDeadline, KillAgentTimesOut, AgentsStopped, AwaitAll, Finish,
                Flush, KillAgent, KillComesLate
  <2>3. (down'.pc = "none" <=> down.pc = "none")
    <3>1. \A d \in DownRecs : ThenAwaitAll(d).pc # "none"
      BY ThenAwaitAllFacts
    <3>2. \A b \in BOOLEAN : AfterKill(b) => down'.pc # "none"
      <4> SUFFICES ASSUME NEW b \in BOOLEAN, AfterKill(b) PROVE down'.pc # "none"
        OBVIOUS
      <4>1. [down EXCEPT !.failed = b] \in DownRecs
        BY <1>1 DEF DownRecs
      <4>2. \/ down' = [[down EXCEPT !.failed = b] EXCEPT !.pc = "flush"]
            \/ down' = ThenAwaitAll([down EXCEPT !.failed = b])
        BY DEF AfterKill
      <4> QED
        BY <3>1, <4>1, <4>2 DEF DownRecs
    <3>3. CASE Look
      <4>1. PICK d : d = [down EXCEPT !.graceful = CountAgents # 0, !.agents = External,
                                      !.seen = {p \in Procs : HasChannel(p)}]
        OBVIOUS
      <4>2. d \in DownRecs
        <5>1. (CountAgents # 0) \in BOOLEAN /\ External \in SUBSET Agents /\ {p \in Procs : HasChannel(p)} \in SUBSET Procs
          BY DEF External
        <5> QED
          BY <1>1, <4>1, <5>1 DEF DownRecs
      <4>3. \/ down' = [d EXCEPT !.pc = "runtime"] \/ down' = [d EXCEPT !.pc = "killRuntime"]
            \/ down' = ThenAwaitAll(d)
        BY <3>3, <4>1 DEF Look
      <4>4. down'.pc # "none"
        BY <3>1, <4>2, <4>3 DEF DownRecs
      <4> QED
        BY <3>3, <4>4 DEF Look
    <3>4. CASE RuntimeKilled
      BY <1>1, <3>2, <3>4 DEF RuntimeKilled, DownRecs
    <3>5. CASE KillRuntimeTimesOut
      BY <3>2, <3>5 DEF KillRuntimeTimesOut
    <3>6. CASE AgentsStopped
      BY <1>1, <3>1, <3>6 DEF AgentsStopped
    <3>7. ASSUME NEW a \in Agents, KillAgentTimesOut(a) PROVE down'.pc = down.pc
      <4>1. PICK b \in BOOLEAN : down' = [down EXCEPT !.failed = b]
        BY <3>7 DEF KillAgentTimesOut
      <4> QED
        BY <1>1, <4>1 DEF DownRecs
    <3>11. ASSUME NEW a \in Agents, KillComesLate(a) PROVE down'.pc = down.pc
      BY <1>1, <3>11 DEF KillComesLate, DownRecs
    <3>12. ASSUME NEW q \in {"agents", "hangs"}, Flush(q) PROVE down'.pc # "none" /\ down.pc # "none"
      BY <1>1, <3>12 DEF Flush, DownRecs
    <3>8. CASE ShutdownRuntime
      BY <1>1, <3>8 DEF ShutdownRuntime, DownRecs
    <3>9. CASE AwaitRuntimeExit \/ ShutdownAgents \/ AwaitAll \/ Finish
      <4>1. down'.pc # "none"
        BY <1>1, <3>9 DEF AwaitRuntimeExit, ShutdownAgents, AwaitAll, Finish, DownRecs
      <4>2. down.pc # "none"
        BY <3>9 DEF AwaitRuntimeExit, ShutdownAgents, AwaitAll, Finish
      <4> QED
        BY <4>1, <4>2
    <3>10. ASSUME NEW a \in Agents, AgentStops(a) \/ AgentDeadline(a) \/ KillAgent(a) PROVE down' = down
      BY <3>10 DEF AgentStops, AgentDeadline, KillAgent
    <3> QED
      BY <1>6, <3>3, <3>4, <3>5, <3>6, <3>7, <3>8, <3>9, <3>10, <3>11, <3>12 DEF DownStep
  <2>4. \A g \in DOMAIN gate' : gate'[g].canceled => Named
    BY <2>1, CanceledKept
  <2> QED
    BY <1>1, <2>1, <2>2, <2>3, <2>4, NamedKept
<1> QED
  BY <1>3, <1>4, <1>5, <1>6

LEMMA NextNamed ==
    ASSUME Typed, NamedInv, [Next]_vars
    PROVE  NamedInv'
<1>1. CASE UNCHANGED vars
  BY <1>1 DEF vars, appVars, downVars, coreVars, NamedInv, Named, CrashNamed
<1>2. CASE Invoke \/ HandleInvoke \/ ResponseComes \/ BodyEnds \/ InvokeEnds \/ ServerCloses
  <2>1. UNCHANGED <<appVars, init, downVars, coreVars, proc, watcher, shuttingDown, fatal, monitor, rapi>>
    BY <1>2, CallSteps
  <2> QED
    BY <2>1 DEF appVars, downVars, coreVars, NamedInv, Named, CrashNamed
<1> QED
  BY <1>1, <1>2, Steps, InitStepNamed, ApiStepNamed, ExitStepNamed, DownStepNamed

LEMMA InitNamed ==
    ASSUME Init
    PROVE  NamedInv
<1>1. DOMAIN gate = {"registered", "runtime", "ready"} /\ \A g \in DOMAIN gate : gate[g].canceled = FALSE
  BY DEF Init, NewInitFlow, NewGate
<1>2. down.pc = "none" /\ appErr = nil /\ monitor = "waiting" /\ ~shuttingDown /\ watcher.pc = "off" /\ init.err = nil
  BY DEF Init, StartApp, NewShutdown
<1> QED
  BY <1>1, <1>2 DEF NamedInv, CrashNamed, nil

\* CrashNamed, in every instance: whatever crashed or reported an error before the gates were
\* canceled is what App.Init returns (resolveGateError, processTermination).
THEOREM CrashesNamed == Spec => []CrashNamed
<1>1. Init => Typed /\ NamedInv
  BY InitTyped, InitNamed
<1>2. Typed /\ NamedInv /\ [Next]_vars => (Typed /\ NamedInv)'
  BY NextTyped, NextNamed
<1>3. NamedInv => CrashNamed
  BY DEF NamedInv
<1> QED
  BY <1>1, <1>2, <1>3, PTL DEF Spec

-----------------------------------------------------------------------------
(* A shutdown leaves no process alive that it has seen. *)

\* What every step but a launch does to the processes, and what every step does to the agents.
ProcsKept ==
    \A p \in Procs : /\ proc'[p].exited = "none" <=> proc[p].exited = "none"
                     /\ proc'[p].exited = "closed" => proc[p].exited = "closed" \/ proc[p].life = "gone"
                     /\ proc[p].life = "none" => proc'[p].life = "none"
                     /\ proc[p].life = "gone" => proc'[p].life = "gone"
                     /\ \A l \in {"alive", "stray"} : proc'[p].life = l => proc[p].life = l
AgentsKept == \A a \in Agents : agent[a].state # "absent" => agent'[a].state # "absent"

LEMMA OneProcKept ==
    ASSUME proc \in [Procs -> ProcRecs], NEW p \in Procs, NEW r, proc' = [proc EXCEPT ![p] = r],
           r.exited = "none" <=> proc[p].exited = "none",
           r.exited = "closed" => proc[p].exited = "closed" \/ proc[p].life = "gone",
           proc[p].life = "gone" => r.life = "gone", proc[p].life # "none", r.life \notin {"alive", "stray"}
    PROVE  ProcsKept
<1>1. \A q \in Procs : proc'[q] = IF q = p THEN r ELSE proc[q]
  OBVIOUS
<1> QED
  BY <1>1 DEF ProcsKept

LEMMA LaunchKept ==
    ASSUME LaunchInv, ProcsKept, AgentsKept, UNCHANGED init,
           watcher'.pc \in {"check", "crash", "exit"} => watcher'.p \in Procs /\ proc'[watcher'.p].life = "gone"
    PROVE  LaunchInv'
<1>1. \A p \in Procs : Unlaunched(p)' <=> Unlaunched(p)
  BY DEF Unlaunched
<1>2. \A p \in Procs : HasChannel(p)' <=> HasChannel(p)
  BY DEF ProcsKept, HasChannel
<1>3. (init.pc = "channel" => init.cur \in Agents \ init.todo /\ agent[init.cur].state # "absent")'
  BY DEF LaunchInv, AgentsKept
<1>4. \A p \in Procs : Unlaunched(p)' => ~HasChannel(p)' /\ proc'[p].life = "none"
  BY <1>1, <1>2 DEF LaunchInv, ProcsKept
<1>5. \A a \in Agents : HasChannel(a)' => agent'[a].state # "absent"
  BY <1>2, PartyFacts DEF LaunchInv, AgentsKept
<1>6. \A p \in Procs : proc'[p].exited = "closed" => ~Alive(p)'
  BY DEF LaunchInv, ProcsKept, Alive
<1>7. \A p \in Procs : proc'[p].life = "stray" => ~HasChannel(p)' /\ init'.pc \in {"failed", "returned"}
  BY <1>2 DEF LaunchInv, ProcsKept
<1> QED
  BY <1>3, <1>4, <1>5, <1>6, <1>7 DEF LaunchInv

\* The goroutine of the shutdown stands still.
LEMMA DownKept ==
    ASSUME Typed, DownInv, UNCHANGED <<down, stop>>, state' = "Shutdown" => state = "Shutdown",
           \A p \in Procs : HasChannel(p) => HasChannel(p)',
           \A p \in down.seen : Alive(p)' => Alive(p)
    PROVE  DownInv'
<1>1. down.seen \subseteq Procs
  BY DEF Typed, DownRecs
<1>2. \A p \in Procs : Stopped(p) => Stopped(p)'
  BY DEF Stopped
<1>3. "runtime" \in Procs /\ Agents \subseteq Procs
  BY PartyFacts
<1>4. \A p \in down.seen : Reported(p) => Reported(p)'
  BY DEF Reported
<1> QED
  BY <1>1, <1>2, <1>3, <1>4 DEF DownInv

LEMMA ApiStepStops ==
    ASSUME Typed, StopInv,
           \/ \E a \in Agents, s \in BOOLEAN : RegisterExternalAgent(a, s)
           \/ \E a \in Internals : RegisterInternalAgent(a)
           \/ \E a \in Parties : AgentNext(a) \/ AgentInitError(a) \/ AgentExitError(a)
           \/ RuntimeNext \/ RuntimeInitError
    PROVE  StopInv'
<1> USE DEF appVars, downVars, coreVars
<1>1. UNCHANGED <<state, down, stop, init, proc, watcher>>
  BY DEF RegisterExternalAgent, RegisterInternalAgent, AgentNext, AgentInitError, AgentExitError,
         RuntimeNext, RuntimeInitError
<1>2. agent \in [Parties -> AgentRecs] /\ \A a \in Agents : a \in Parties
  BY PartyFacts DEF Typed, AgentsTyped
<1>3. \A a \in Parties : Ready(agent[a]).state # "absent"
  BY <1>2, ReadyFacts
<1>4. \A a \in Parties : \A s \in {"InitError", "ExitError"} : [agent[a] EXCEPT !.state = s].state # "absent"
  BY <1>2, StateSet DEF AgentStates
<1>5. \A a \in Parties : \A b \in BOOLEAN : [agent[a] EXCEPT !.state = "Registered", !.subscribed = b].state # "absent"
  BY <1>2, SubscribedSet
<1>6. NewAgent("Registered").state # "absent"
  BY NewAgentFacts DEF AgentStates
<1>7. \/ agent' = agent
      \/ \E a \in Parties : \E r : agent' = [agent EXCEPT ![a] = r] /\ r.state # "absent"
  <2>1. CASE \E a \in Agents, s \in BOOLEAN : RegisterExternalAgent(a, s)
    <3>1. PICK a \in Agents, b \in BOOLEAN : RegisterExternalAgent(a, b)
      BY <2>1
    <3>2. agent' = [agent EXCEPT ![a] = [agent[a] EXCEPT !.state = "Registered", !.subscribed = b]]
      BY <3>1 DEF RegisterExternalAgent, Register
    <3> QED
      BY <1>2, <1>5, <3>2
  <2>2. CASE \E a \in Internals : RegisterInternalAgent(a)
    BY <1>6, <2>2, PartyFacts DEF RegisterInternalAgent, CreateInternalAgent
  <2>3. CASE \E a \in Parties : AgentNext(a)
    BY <1>3, <2>3 DEF AgentNext
  <2>4. CASE \E a \in Parties : AgentInitError(a)
    BY <1>4, <2>4 DEF AgentInitError, Transition
  <2>5. CASE \E a \in Parties : AgentExitError(a)
    BY <1>4, <2>5 DEF AgentExitError, Transition
  <2>6. CASE RuntimeNext \/ RuntimeInitError
    BY <2>6 DEF RuntimeNext, RuntimeInitError
  <2> QED
    BY <2>1, <2>2, <2>3, <2>4, <2>5, <2>6
<1>8. AgentsKept
  BY <1>2, <1>7 DEF AgentsKept
<1>9. ProcsKept
  BY <1>1 DEF ProcsKept
<1>10. LaunchInv'
  BY <1>1, <1>8, <1>9, LaunchKept DEF StopInv, LaunchInv
<1>11. DownInv'
  BY <1>1, DownKept DEF StopInv, HasChannel, Alive
<1> QED
  BY <1>10, <1>11 DEF StopInv

LEMMA ExitStepStops ==
    ASSUME Typed, StopInv,
           WatcherSteps \/ (\E p \in Procs, z \in BOOLEAN : Exits(p, z)) \/ (\E p \in Procs : Dies(p) \/ StrayExits(p))
    PROVE  StopInv'
<1> USE DEF appVars, downVars, coreVars
<1>1. /\ agent \in [Parties -> AgentRecs] /\ proc \in [Procs -> ProcRecs] /\ watcher \in WatcherRecs
      /\ LaunchInv /\ down.seen \subseteq Procs
  BY DEF Typed, AgentsTyped, StopInv, DownRecs
<1>2. UNCHANGED <<state, init, down, stop>>
  BY DEF WatcherSteps, Exits, Dies, StrayExits, TakeEvent, CheckShuttingDown, Crash, HandleProcessExit
<1>3. ASSUME NEW p \in Procs, NEW z \in BOOLEAN, Exits(p, z) PROVE LaunchInv' /\ ProcsKept
  <2>1. proc' = [proc EXCEPT ![p] = [proc[p] EXCEPT !.life = "dead", !.zero = z]] /\ proc[p].life = "alive"
    BY <1>3 DEF Exits
  <2>2. LET r == [proc[p] EXCEPT !.life = "dead", !.zero = z]
        IN  r \in ProcRecs /\ r.life = "dead" /\ r.exited = proc[p].exited
    <3>1. proc[p] \in ProcRecs
      BY <1>1
    <3> QED
      BY <3>1 DEF ProcRecs
  <2>3. ProcsKept
    <3>1. PICK r : r = proc'[p]
      OBVIOUS
    <3>2. proc' = [proc EXCEPT ![p] = r] /\ r.life \in {"dead", "gone"} /\ r.exited = proc[p].exited
      BY <1>1, <2>1, <2>2, <3>1
    <3> QED
      BY <1>1, <2>1, <3>2, OneProcKept
  <2> QED
    BY <1>1, <1>2, <1>3, <2>3, LaunchKept DEF Exits, AgentsKept, ProcsKept, LaunchInv
<1>4. ASSUME NEW p \in Procs, Dies(p) PROVE LaunchInv' /\ ProcsKept
  <2>1. proc' = [proc EXCEPT ![p] = [proc[p] EXCEPT !.life = "dead"]] /\ proc[p].life = "killed"
    BY <1>4 DEF Dies
  <2>2. LET r == [proc[p] EXCEPT !.life = "dead"]
        IN  r \in ProcRecs /\ r.life = "dead" /\ r.exited = proc[p].exited
    <3>1. proc[p] \in ProcRecs
      BY <1>1
    <3> QED
      BY <3>1 DEF ProcRecs
  <2>3. ProcsKept
    <3>1. PICK r : r = proc'[p]
      OBVIOUS
    <3>2. proc' = [proc EXCEPT ![p] = r] /\ r.life \in {"dead", "gone"} /\ r.exited = proc[p].exited
      BY <1>1, <2>1, <2>2, <3>1
    <3> QED
      BY <1>1, <2>1, <3>2, OneProcKept
  <2> QED
    BY <1>1, <1>2, <1>4, <2>3, LaunchKept DEF Dies, AgentsKept, ProcsKept, LaunchInv
<1>11. ASSUME NEW p \in Procs, StrayExits(p) PROVE LaunchInv' /\ ProcsKept
  <2>1. proc' = [proc EXCEPT ![p] = [proc[p] EXCEPT !.life = "none"]] /\ proc[p].life = "stray"
    BY <1>11 DEF StrayExits
  <2>2. LET r == [proc[p] EXCEPT !.life = "none"]
        IN  r \in ProcRecs /\ r.life = "none" /\ r.exited = proc[p].exited
    <3>1. proc[p] \in ProcRecs
      BY <1>1
    <3> QED
      BY <3>1 DEF ProcRecs
  <2>3. ProcsKept
    <3>1. PICK r : r = proc'[p]
      OBVIOUS
    <3>2. proc' = [proc EXCEPT ![p] = r] /\ r.life = "none" /\ r.exited = proc[p].exited
      BY <1>1, <2>1, <2>2, <3>1
    <3> QED
      BY <1>1, <2>1, <3>2, OneProcKept
  <2> QED
    BY <1>1, <1>2, <1>11, <2>3, LaunchKept DEF StrayExits, AgentsKept, ProcsKept, LaunchInv
<1>5. ASSUME NEW p \in Procs, TakeEvent(p) PROVE LaunchInv' /\ ProcsKept
  <2>1. proc' = [proc EXCEPT ![p] = [proc[p] EXCEPT !.life = "gone"]] /\ proc[p].life = "dead"
    BY <1>5 DEF TakeEvent
  <2>2. LET r == [proc[p] EXCEPT !.life = "gone"]
        IN  r \in ProcRecs /\ r.life = "gone" /\ r.exited = proc[p].exited
    <3>1. proc[p] \in ProcRecs
      BY <1>1
    <3> QED
      BY <3>1 DEF ProcRecs
  <2>3. ProcsKept
    <3>1. PICK r : r = proc'[p]
      OBVIOUS
    <3>2. proc' = [proc EXCEPT ![p] = r] /\ r.life \in {"dead", "gone"} /\ r.exited = proc[p].exited
      BY <1>1, <2>1, <2>2, <3>1
    <3> QED
      BY <1>1, <2>1, <3>2, OneProcKept
  <2>4. watcher'.p = p
    BY <1>1, <1>5 DEF TakeEvent, WatcherRecs
  <2>5. proc'[p].life = "gone"
    BY <1>1, <2>1, <2>2
  <2>6. AgentsKept
    BY <1>5 DEF TakeEvent, AgentsKept
  <2> QED
    BY <1>1, <1>2, <2>3, <2>4, <2>5, <2>6, LaunchKept
<1>6. ASSUME CheckShuttingDown PROVE LaunchInv' /\ ProcsKept
  <2>1. watcher'.p = watcher.p /\ watcher.pc = "check"
    BY <1>1, <1>6 DEF CheckShuttingDown, WatcherStep, WatcherRecs
  <2>2. ProcsKept /\ AgentsKept /\ proc' = proc
    BY <1>6 DEF CheckShuttingDown, ProcsKept, AgentsKept
  <2>3. LaunchInv'
    BY <1>1, <1>2, <2>1, <2>2, LaunchKept DEF LaunchInv
  <2> QED
    BY <2>2, <2>3
<1>7. ASSUME NEW m \in BOOLEAN, Crash(m) PROVE LaunchInv' /\ ProcsKept
  <2>1. watcher'.p = watcher.p /\ watcher.pc = "crash"
    BY <1>1, <1>7 DEF Crash, WatcherRecs
  <2>2. ProcsKept /\ AgentsKept /\ proc' = proc
    BY <1>7 DEF Crash, ProcsKept, AgentsKept
  <2>3. LaunchInv'
    BY <1>1, <1>2, <2>1, <2>2, LaunchKept DEF LaunchInv
  <2> QED
    BY <2>2, <2>3
<1>8. ASSUME HandleProcessExit PROVE LaunchInv' /\ ProcsKept
  <2>1. watcher.p \in Procs /\ proc[watcher.p].life = "gone" /\ watcher'.pc = "idle"
    BY <1>1, <1>8 DEF HandleProcessExit, LaunchInv, WatcherRecs
  <2>2. PICK x : x = IF proc[watcher.p].exited = "open" THEN "closed" ELSE proc[watcher.p].exited
    OBVIOUS
  <2>3. proc' = [proc EXCEPT ![watcher.p] = [proc[watcher.p] EXCEPT !.exited = x, !.zero = FALSE]]
    BY <1>8, <2>2 DEF HandleProcessExit
  <2>4. proc[watcher.p] \in ProcRecs /\ x \in {"none", "open", "closed"} /\ (x = "none" <=> proc[watcher.p].exited = "none")
    BY <1>1, <2>1, <2>2 DEF ProcRecs
  <2>5. LET r == [proc[watcher.p] EXCEPT !.exited = x, !.zero = FALSE]
        IN  r \in ProcRecs /\ r.life = "gone" /\ r.exited = x
    <3>1. \A b \in BOOLEAN : LET r == [proc[watcher.p] EXCEPT !.exited = x, !.zero = b]
                              IN  r \in ProcRecs /\ r.life = "gone" /\ r.exited = x
      BY <2>1, <2>4 DEF ProcRecs
    <3> QED
      BY <3>1
  <2>6. ProcsKept
    <3>1. PICK r : r = [proc[watcher.p] EXCEPT !.exited = x, !.zero = FALSE]
      OBVIOUS
    <3>2. proc' = [proc EXCEPT ![watcher.p] = r] /\ r.life = "gone" /\ r.exited = x
      BY <2>3, <2>5, <3>1
    <3>3. r.exited = "closed" => proc[watcher.p].exited = "closed" \/ proc[watcher.p].life = "gone"
      BY <2>1
    <3> QED
      BY <1>1, <2>1, <2>4, <3>2, <3>3, OneProcKept
  <2>7. AgentsKept
    <3>1. \/ agent' = agent
          \/ \E s \in {"Exited", "ShutdownFailed"} : agent' = [agent EXCEPT ![watcher.p] = [agent[watcher.p] EXCEPT !.state = s]]
      BY <1>8 DEF HandleProcessExit
    <3>2. ASSUME NEW a \in Agents PROVE agent'[a] = agent[a] \/ agent'[a].state \in {"Exited", "ShutdownFailed"}
      <4>1. a \in Parties /\ agent[a] \in AgentRecs
        BY <1>1, PartyFacts
      <4>2. \A s \in {"Exited", "ShutdownFailed"} : [agent[a] EXCEPT !.state = s].state = s
        BY <4>1 DEF AgentRecs
      <4>3. agent'[a] = agent[a] \/ \E s \in {"Exited", "ShutdownFailed"} : agent'[a] = [agent[a] EXCEPT !.state = s]
        BY <1>1, <3>1, <4>1
      <4> QED
        BY <4>2, <4>3
    <3> QED
      BY <3>2 DEF AgentsKept
  <2> QED
    BY <1>1, <1>2, <2>1, <2>6, <2>7, LaunchKept
<1>9. LaunchInv' /\ ProcsKept
  BY <1>3, <1>4, <1>5, <1>6, <1>7, <1>8, <1>11 DEF WatcherSteps
<1>10. DownInv'
  BY <1>1, <1>2, <1>9, DownKept DEF StopInv, ProcsKept, HasChannel, Alive
<1> QED
  BY <1>9, <1>10 DEF StopInv

LEMMA InitStepStops ==
    ASSUME Typed, StopInv,
           InitStep \/ Mishap
    PROVE  StopInv'
<1> USE DEF appVars, downVars, coreVars
<1>1. /\ agent \in [Parties -> AgentRecs] /\ proc \in [Procs -> ProcRecs] /\ watcher \in WatcherRecs
      /\ LaunchInv /\ DownInv /\ init \in InitRecs
      /\ down.seen \subseteq Procs /\ \A p \in down.seen : HasChannel(p)
  BY DEF Typed, AgentsTyped, StopInv, DownInv, DownRecs
<1>2. UNCHANGED <<down, stop>> /\ (state' = "Shutdown" => state = "Shutdown")
  <2>1. \A p, q : CreateExitedChannel(p, q) => UNCHANGED <<down, stop, state>>
    BY DEF CreateExitedChannel
  <2>2. \A x, y, z : AwaitGate(x, y, z) => UNCHANGED <<down, stop, state>>
    BY DEF AwaitGate
  <2> QED
    BY <2>1, <2>2 DEF InitStep, StartInit, AgentLaunched, RuntimeLaunched, LaunchAgent, StartRuntime,
       AwaitExternalAgentsRegistered, AwaitRuntimeReady, AwaitAgentsReady, TurnOff, SetAgentsReadyCount,
       InitSucceeds, InitReturns, Mishap, LaunchFails, RuntimeFails, NameCollision, NoAgentSockets, NoRuntimeSockets
\* Steps after which no more is to be launched than before, and that touch no process.
<1>3. ASSUME UNCHANGED <<proc, watcher>>, AgentsKept, init'.pc # "channel",
             \A p \in Procs : Unlaunched(p)' => Unlaunched(p),
             init.pc \in {"failed", "returned"} => init'.pc \in {"failed", "returned"}
      PROVE  StopInv'
  <2>1. LaunchInv'
    BY <1>1, <1>3, PartyFacts DEF LaunchInv, AgentsKept, HasChannel, Alive
  <2>2. DownInv'
    BY <1>1, <1>2, <1>3, DownKept DEF HasChannel, Alive
  <2> QED
    BY <2>1, <2>2 DEF StopInv
<1>4. \A e : Fails(e) => init'.pc = "failed" /\ init'.todo = init.todo
  BY <1>1 DEF Fails, InitRecs
\* A launch: the process was not launched, so nobody has seen it.
<1>5. ASSUME NEW p \in Procs, NEW l \in {"alive", "stray"}, proc' = [proc EXCEPT ![p].life = l],
             l = "stray" => init'.pc = "failed", Unlaunched(p), AgentsKept, UNCHANGED watcher,
             \A x \in Procs : Unlaunched(x)' => Unlaunched(x) /\ x # p,
             (init.pc = "channel" => init.cur \in Agents \ init.todo /\ agent[init.cur].state # "absent")'
      PROVE  StopInv'
  <2>1. ~HasChannel(p) /\ proc[p] \in ProcRecs /\ proc[p].life = "none"
    BY <1>1, <1>5 DEF LaunchInv
  <2>2. proc' = [proc EXCEPT ![p] = [proc[p] EXCEPT !.life = l]]
    BY <1>5
  <2>3. [proc[p] EXCEPT !.life = l].exited = proc[p].exited /\ [proc[p] EXCEPT !.life = l].life = l
    BY <2>1 DEF ProcRecs
  <2>4. \A x \in Procs : proc'[x].exited = proc[x].exited /\ (x # p => proc'[x] = proc[x])
    BY <1>1, <2>2, <2>3
  <2>8. proc'[p].life = l
    BY <1>1, <2>2, <2>3
  <2>9. \A x \in Procs : proc[x].life # "stray"
    BY <1>1, <1>5 DEF LaunchInv, Unlaunched
  <2>5. \A x \in Procs : HasChannel(x)' <=> HasChannel(x)
    BY <2>4 DEF HasChannel
  <2>6. DownInv'
    BY <1>1, <1>2, <2>1, <2>4, <2>5, DownKept DEF Alive
  <2>7. LaunchInv'
    <3>1. \A x \in Procs : Unlaunched(x)' => ~HasChannel(x)' /\ proc'[x].life = "none"
      BY <1>1, <1>5, <2>4, <2>5 DEF LaunchInv
    <3>2. \A a \in Agents : HasChannel(a)' => agent'[a].state # "absent"
      BY <1>1, <1>5, <2>5, PartyFacts DEF LaunchInv, AgentsKept
    <3>3. \A x \in Procs : proc'[x].exited = "closed" => ~Alive(x)'
      BY <1>1, <2>1, <2>4 DEF LaunchInv, Alive, HasChannel
    <3>4. (watcher.pc \in {"check", "crash", "exit"} => watcher.p \in Procs /\ proc[watcher.p].life = "gone")'
      BY <1>1, <1>5, <2>1, <2>4 DEF LaunchInv
    <3>5. \A x \in Procs : proc'[x].life = "stray" => ~HasChannel(x)' /\ init'.pc \in {"failed", "returned"}
      BY <1>5, <2>1, <2>4, <2>5, <2>8, <2>9
    <3> QED
      BY <1>5, <3>1, <3>2, <3>3, <3>4, <3>5 DEF LaunchInv
  <2> QED
    BY <2>6, <2>7 DEF StopInv
\* An Exec that fails.
<1>17. ASSUME NEW p \in Procs, NEW b \in BOOLEAN, ExecFails(p, b), NEW e, Fails(e), Unlaunched(p), AgentsKept,
              UNCHANGED watcher
       PROVE  StopInv'
  <2>1. init'.pc = "failed"
    BY <1>4, <1>17
  <2>2. \A x \in Procs : ~Unlaunched(x)'
    BY <2>1 DEF Unlaunched
  <2>3. init.pc \notin {"failed", "returned"}
    BY <1>17 DEF Unlaunched
  <2>4. CASE b
    BY <1>5, <1>17, <2>1, <2>2, <2>4 DEF ExecFails
  <2>5. CASE ~b
    BY <1>3, <1>17, <2>1, <2>2, <2>5 DEF ExecFails
  <2> QED
    BY <2>4, <2>5
<1>6. ASSUME NEW found \in SUBSET Agents, StartInit(found) PROVE StopInv'
  <2>1. init'.pc \in {"launch", "returned"} /\ init.pc = "none"
    BY <1>1, <1>6 DEF StartInit, InitRecs
  <2>2. UNCHANGED <<proc, agent>> /\ (watcher' = watcher \/ watcher'.pc = "idle")
    BY <1>1, <1>6 DEF StartInit, WatcherRecs
  <2>3. \A p \in Procs : Unlaunched(p)
    BY <2>1 DEF Unlaunched
  <2>4. LaunchInv'
    BY <1>1, <2>1, <2>2, <2>3 DEF LaunchInv, HasChannel, Alive
  <2>5. DownInv'
    BY <1>1, <1>2, <2>2, DownKept DEF HasChannel, Alive
  <2> QED
    BY <2>4, <2>5 DEF StopInv
<1>7. ASSUME NEW p \in Procs, NEW q, CreateExitedChannel(p, q), ~Unlaunched(p), p \in Agents => agent[p].state # "absent",
             q # "channel", \A x \in Procs : Unlaunched(x)' => Unlaunched(x), init.pc \notin {"failed", "returned"}
      PROVE  StopInv'
  <2>1. proc[p] \in ProcRecs /\ proc' = [proc EXCEPT ![p] = [proc[p] EXCEPT !.exited = "open"]]
    BY <1>1, <1>7 DEF CreateExitedChannel
  <2>2. LET r == [proc[p] EXCEPT !.exited = "open"] IN r.exited = "open" /\ r.life = proc[p].life
    BY <2>1 DEF ProcRecs
  <2>3. \A x \in Procs : proc'[x].life = proc[x].life /\ (x # p => proc'[x] = proc[x])
    BY <1>1, <2>1, <2>2
  <2>4. proc'[p].exited = "open"
    BY <1>1, <2>1, <2>2
  <2>5. UNCHANGED <<agent, watcher>> /\ init'.pc = q
    BY <1>1, <1>7 DEF CreateExitedChannel, InitRecs
  <2>6. LaunchInv'
    <3>1. \A x \in Procs : Unlaunched(x)' => ~HasChannel(x)' /\ proc'[x].life = "none"
      BY <1>1, <1>7, <2>3 DEF LaunchInv, HasChannel
    <3>2. \A a \in Agents : HasChannel(a)' => agent'[a].state # "absent"
      BY <1>1, <1>7, <2>3, <2>5, PartyFacts DEF LaunchInv, HasChannel
    <3>3. \A x \in Procs : proc'[x].exited = "closed" => ~Alive(x)'
      BY <1>1, <2>3, <2>4 DEF LaunchInv, Alive
    <3>4. (watcher.pc \in {"check", "crash", "exit"} => watcher.p \in Procs /\ proc[watcher.p].life = "gone")'
      BY <1>1, <2>3, <2>5 DEF LaunchInv
    <3>5. \A x \in Procs : proc'[x].life # "stray"
      BY <1>1, <1>7, <2>3 DEF LaunchInv
    <3> QED
      BY <1>7, <2>5, <3>1, <3>2, <3>3, <3>4, <3>5 DEF LaunchInv
  <2>7. DownInv'
    BY <1>1, <1>2, <2>3, <2>4, DownKept DEF HasChannel, Alive
  <2> QED
    BY <2>6, <2>7 DEF StopInv
<1>8. CASE AgentLaunched
  <2>1. init.cur \in Agents \ init.todo /\ agent[init.cur].state # "absent" /\ init.pc = "channel"
    BY <1>1, <1>8 DEF AgentLaunched, LaunchInv
  <2>2. init'.pc = "launch" /\ init'.todo = init.todo
    BY <1>1, <1>8 DEF AgentLaunched, CreateExitedChannel, InitRecs
  <2>3. ~Unlaunched(init.cur) /\ init.cur \in Procs
    BY <2>1, PartyFacts DEF Unlaunched
  <2>4. \A x \in Procs : Unlaunched(x)' => Unlaunched(x)
    BY <2>1, <2>2 DEF Unlaunched
  <2> QED
    BY <1>7, <1>8, <2>1, <2>3, <2>4 DEF AgentLaunched
<1>9. CASE RuntimeLaunched
  <2>1. init'.pc = "awaitRuntime" /\ init'.todo = init.todo /\ init.pc = "runtimeChannel"
    BY <1>1, <1>9 DEF RuntimeLaunched, CreateExitedChannel, InitRecs
  <2>2. ~Unlaunched("runtime") /\ "runtime" \in Procs /\ "runtime" \notin Agents
    BY <1>1, <2>1, PartyFacts DEF Unlaunched, InitRecs
  <2>3. \A x \in Procs : Unlaunched(x)' => Unlaunched(x)
    BY <2>1 DEF Unlaunched
  <2> QED
    BY <1>7, <1>9, <2>1, <2>2, <2>3 DEF RuntimeLaunched
<1>10. ASSUME NEW a \in Agents, NEW s \in {"LaunchError", "Started"}, CreateExternalAgent(a, s)
       PROVE  AgentsKept /\ agent'[a].state = s
  <2>1. NewAgent(s).state = s /\ a \in Parties
    BY NewAgentFacts, PartyFacts DEF AgentStates
  <2>2. agent'[a] = NewAgent(s) /\ \A x \in Parties : x # a => agent'[x] = agent[x]
    BY <1>1, <1>10, <2>1 DEF CreateExternalAgent
  <2> QED
    BY <2>1, <2>2, PartyFacts DEF AgentsKept
<1>11. ASSUME NEW a \in Agents, LaunchAgent(a) PROVE StopInv'
  <2>1. init.pc = "launch" /\ a \in init.todo /\ UNCHANGED watcher /\ Unlaunched(a)
    BY <1>11 DEF LaunchAgent, Unlaunched
  <2>2. CASE CountAgents + 1 > MaxAgentsAllowed
    <3>1. CreateExternalAgent(a, "LaunchError") /\ Fails("tooMany") /\ UNCHANGED proc
      BY <1>11, <2>2 DEF LaunchAgent
    <3>2. \A p \in Procs : Unlaunched(p)' => Unlaunched(p)
      BY <1>4, <3>1 DEF Unlaunched
    <3> QED
      BY <1>3, <1>4, <1>10, <2>1, <3>1, <3>2
  <2>3. CASE ~(CountAgents + 1 > MaxAgentsAllowed)
    <3>1. CreateExternalAgent(a, "Started") /\ Exec(a) /\ init' = [init EXCEPT !.pc = "channel", !.todo = @ \ {a}, !.cur = a]
      BY <1>11, <2>3 DEF LaunchAgent
    <3>2. init'.pc = "channel" /\ init'.todo = init.todo \ {a} /\ init'.cur = a
      BY <1>1, <3>1 DEF InitRecs
    <3>3. agent'[a].state = "Started" /\ AgentsKept
      BY <1>10, <3>1
    <3>4. \A x \in Procs : Unlaunched(x)' => Unlaunched(x) /\ x # a
      BY <2>1, <3>2, PartyFacts DEF Unlaunched
    <3>5. a \in Procs
      BY PartyFacts
    <3> QED
      BY <1>5, <2>1, <3>1, <3>2, <3>3, <3>4, <3>5 DEF Exec
  <2> QED
    BY <2>2, <2>3
<1>12. ASSUME NEW a \in Agents, NEW b \in BOOLEAN, LaunchFails(a, b) PROVE StopInv'
  <2>1. AgentsKept /\ Fails("launch") /\ ExecFails(a, b) /\ UNCHANGED watcher
    BY <1>10, <1>12 DEF LaunchFails
  <2>2. Unlaunched(a) /\ a \in Procs
    BY <1>12, PartyFacts DEF LaunchFails, Unlaunched
  <2> QED
    BY <1>17, <2>1, <2>2
<1>18. ASSUME NEW a \in Agents, NameCollision(a) \/ NoAgentSockets(a) PROVE StopInv'
  <2>1. AgentsKept
    BY <1>10, <1>18 DEF NameCollision, NoAgentSockets, AgentsKept
  <2>2. Fails("platform") /\ UNCHANGED <<proc, watcher>>
    BY <1>18 DEF NameCollision, NoAgentSockets
  <2>3. \A p \in Procs : ~Unlaunched(p)'
    BY <1>4, <2>2 DEF Unlaunched
  <2> QED
    BY <1>3, <1>4, <2>1, <2>2, <2>3
<1>19. ASSUME NEW b \in BOOLEAN, RuntimeFails(b) PROVE StopInv'
  <2>1. AgentsKept /\ Fails("launch") /\ ExecFails("runtime", b) /\ UNCHANGED watcher
    BY <1>19 DEF RuntimeFails, AgentsKept
  <2>2. Unlaunched("runtime") /\ "runtime" \in Procs
    BY <1>19, PartyFacts DEF RuntimeFails, Unlaunched
  <2> QED
    BY <1>17, <2>1, <2>2
<1>13. CASE StartRuntime
  <2>1. init.pc = "runtime" /\ init'.pc = "runtimeChannel" /\ init'.todo = init.todo
    BY <1>1, <1>13 DEF StartRuntime, InitRecs
  <2>2. UNCHANGED watcher /\ Exec("runtime") /\ AgentsKept
    BY <1>13 DEF StartRuntime, AgentsKept
  <2>3. \A x \in Procs : Unlaunched(x)' => Unlaunched(x) /\ x # "runtime"
    BY <1>1, <2>1, PartyFacts DEF Unlaunched, InitRecs
  <2>4. Unlaunched("runtime") /\ "runtime" \in Procs
    BY <2>1, PartyFacts DEF Unlaunched
  <2> QED
    BY <1>5, <2>1, <2>2, <2>3, <2>4 DEF Exec
<1>14. ASSUME NEW g, NEW pc \in {"launch", "awaitRuntime", "awaitReady"}, NEW then \in {"runtime", "turnOff", "ready"},
              AwaitGate(pc, g, then), then = "runtime" => pc = "launch"
       PROVE  StopInv'
  <2>1. init.pc = pc /\ init'.pc \in {"failed", then} /\ init'.todo = init.todo
    BY <1>1, <1>4, <1>14 DEF AwaitGate, GateOpens, GateTimesOut, InitRecs
  <2>2. UNCHANGED <<proc, watcher>> /\ AgentsKept
    BY <1>14 DEF AwaitGate, AgentsKept
  <2>3. \A p \in Procs : Unlaunched(p)' => Unlaunched(p)
    BY <1>14, <2>1 DEF Unlaunched
  <2> QED
    BY <1>3, <2>1, <2>2, <2>3
<1>15. CASE AwaitExternalAgentsRegistered \/ AwaitRuntimeReady \/ AwaitAgentsReady
  BY <1>14, <1>15 DEF AwaitExternalAgentsRegistered, AwaitRuntimeReady, AwaitAgentsReady
<1>16. CASE NoRuntimeSockets \/ TurnOff \/ SetAgentsReadyCount \/ InitSucceeds \/ InitReturns
  <2>1. init'.pc \in {"failed", "setCount", "awaitReady", "returned"} /\ init'.todo = init.todo
    BY <1>1, <1>4, <1>16 DEF NoRuntimeSockets, TurnOff, SetAgentsReadyCount, InitSucceeds, InitReturns, InitRecs
  <2>4. init.pc \in {"failed", "returned"} => init'.pc = "returned"
    BY <1>1, <1>16 DEF NoRuntimeSockets, TurnOff, SetAgentsReadyCount, InitSucceeds, InitReturns, InitRecs
  <2>2. UNCHANGED <<proc, watcher>> /\ AgentsKept
    BY <1>16 DEF NoRuntimeSockets, TurnOff, SetAgentsReadyCount, InitSucceeds, InitReturns, AgentsKept
  <2>3. \A p \in Procs : Unlaunched(p)' => Unlaunched(p)
    BY <2>1 DEF Unlaunched
  <2> QED
    BY <1>3, <2>1, <2>2, <2>3, <2>4
<1> QED
  BY <1>6, <1>8, <1>9, <1>11, <1>12, <1>13, <1>15, <1>16, <1>18, <1>19 DEF InitStep, Mishap

LEMMA DownStepStops ==
    ASSUME Typed, StopInv,
           \/ DownStep \/ ShutdownAfterInit \/ ShutdownByMonitor \/ KillRuntimeTimesOut \/ Flush("hangs") \/ StopServer
           \/ \E a \in Agents : AgentStops(a) \/ AgentDeadline(a) \/ KillAgentTimesOut(a) \/ KillAgent(a) \/ KillComesLate(a)
    PROVE  StopInv'
<1> USE DEF appVars, downVars, coreVars
<1>1. /\ agent \in [Parties -> AgentRecs] /\ proc \in [Procs -> ProcRecs] /\ down \in DownRecs
      /\ LaunchInv /\ DownInv /\ down.seen \subseteq Procs /\ \A p \in down.seen : HasChannel(p)
      /\ stop \in [Agents -> StopStates]
  BY DEF Typed, AgentsTyped, StopInv, DownInv, DownRecs
<1>2. UNCHANGED <<init, watcher>>
  BY DEF ShutdownAfterInit, ShutdownByMonitor, StopServer, DownStep, Look, ShutdownRuntime, AwaitRuntimeExit,
         RuntimeKilled, KillRuntimeTimesOut, ShutdownAgents, AgentStops, AgentDeadline, KillAgentTimesOut,
         AgentsStopped, AwaitAll, Finish, Flush, KillAgent, KillComesLate
\* The shutdown kills, and does nothing else to a process.
<1>3. ASSUME NEW ps, proc' = KilledAll(ps)
      PROVE  /\ ProcsKept /\ \A p \in ps \cap Procs : HasChannel(p) => ~Alive(p)'
             /\ \A p \in Procs : (HasChannel(p)' <=> HasChannel(p)) /\ (Alive(p)' => Alive(p))
  <2>1. \A p \in Procs : /\ proc'[p].exited = proc[p].exited
                         /\ proc'[p].life = IF p \in ps /\ proc[p].life = "alive" THEN "killed" ELSE proc[p].life
    BY <1>1, <1>3, KilledAllFacts
  <2>2. \A p \in Procs : HasChannel(p) => proc[p].life # "stray"
    BY <1>1 DEF LaunchInv
  <2> QED
    BY <2>1, <2>2 DEF ProcsKept, Alive, HasChannel
<1>4. ASSUME proc' = proc
      PROVE  ProcsKept /\ \A p \in Procs : (HasChannel(p)' <=> HasChannel(p)) /\ (Alive(p)' => Alive(p))
  BY <1>4 DEF ProcsKept, Alive, HasChannel
<1>5. ASSUME ProcsKept, AgentsKept PROVE LaunchInv'
  BY <1>1, <1>2, <1>5, LaunchKept DEF LaunchInv, ProcsKept
<1>6. ASSUME NEW d \in DownRecs, down' = ThenAwaitAll(d), d.seen \subseteq Procs, \A p \in d.seen : HasChannel(p),
             \A p \in d.seen : ~Alive(p) \/ p \in d.late, UNCHANGED <<proc, state>>, state # "Shutdown"
      PROVE  DownInv'
  <2>1. down'.pc \in {"awaitAll", "finish"} /\ down'.seen = d.seen /\ down'.late = d.late /\ down'.failed = d.failed
    BY <1>6, ThenAwaitAllFacts DEF SameView
  <2>2. down'.pc = "finish" => d.failed
    BY <1>6, ThenAwaitAllFacts
  <2>3. down'.pc = "awaitAll" => down'.wait = {p \in Procs : HasChannel(p)}
    BY <1>6, ThenAwaitAllFacts
  <2>4. \A p \in Procs : (HasChannel(p)' <=> HasChannel(p)) /\ (Alive(p)' <=> Alive(p))
    BY <1>6 DEF HasChannel, Alive
  <2>5. \A p \in Procs : Stopped(p)'
    BY <1>6, <2>1, <2>4 DEF Stopped
  <2>6. down'.pc = "finish" => \A p \in down'.seen : Reported(p)'
    BY <1>6, <2>1, <2>2, <2>4 DEF Reported
  <2>7. down'.pc = "awaitAll" => down'.seen \subseteq down'.wait
    BY <1>6, <2>1, <2>3
  <2>8. \A p \in down'.seen : HasChannel(p)'
    BY <1>6, <2>1, <2>4
  <2> QED
    BY <1>6, <2>1, <2>5, <2>6, <2>7, <2>8 DEF DownInv
<1>7. "runtime" \in Procs /\ Agents \subseteq Procs /\ Procs = Agents \cup {"runtime"}
  BY PartyFacts DEF Procs
<1>8. ASSUME NEW e, Shutdown(e), UNCHANGED <<proc, agent, stop>> PROVE StopInv'
  <2>1. LaunchInv'
    BY <1>4, <1>5, <1>8 DEF AgentsKept
  <2>2. CASE down.pc = "none"
    <3>1. down'.pc = "awaitInvokes" /\ down'.seen = down.seen /\ state' = "ShuttingDown"
      BY <1>1, <1>8, <2>2 DEF Shutdown, DownRecs
    <3>2. DownInv'
      BY <1>1, <1>4, <1>8, <3>1 DEF DownInv
    <3> QED
      BY <2>1, <3>2 DEF StopInv
  <2>3. CASE down.pc # "none"
    <3>1. UNCHANGED <<down, state>>
      BY <1>8, <2>3 DEF Shutdown
    <3>2. DownInv'
      BY <1>1, <1>4, <1>8, <3>1, DownKept
    <3> QED
      BY <2>1, <3>2 DEF StopInv
  <2> QED
    BY <2>2, <2>3
<1>9. CASE ShutdownAfterInit \/ ShutdownByMonitor \/ StopServer
  BY <1>8, <1>9 DEF ShutdownAfterInit, ShutdownByMonitor, StopServer
<1>10. CASE Look
  <2>1. PICK d : d = [down EXCEPT !.graceful = CountAgents # 0, !.agents = External,
                                  !.seen = {p \in Procs : HasChannel(p)}]
    OBVIOUS
  <2>2. /\ d \in DownRecs /\ d.graceful = (CountAgents # 0) /\ d.agents = External
        /\ d.seen = {p \in Procs : HasChannel(p)}
    <3>1. (CountAgents # 0) \in BOOLEAN /\ External \in SUBSET Agents /\ {p \in Procs : HasChannel(p)} \in SUBSET Procs
      BY DEF External
    <3> QED
      BY <1>1, <2>1, <3>1 DEF DownRecs
  <2>3. UNCHANGED <<state, agent, stop>> /\ state # "Shutdown"
    BY <1>1, <1>10 DEF Look, DownInv
  <2>4. d.seen \cap Agents \subseteq External
    BY <1>1, <2>2, PartyFacts DEF LaunchInv, External, Registered
  <2>5. CASE CountAgents # 0
    <3>1. proc' = proc /\ down' = [d EXCEPT !.pc = "runtime"]
      BY <1>10, <2>1, <2>2, <2>5 DEF Look
    <3>2. down'.pc = "runtime" /\ down'.graceful /\ down'.agents = External /\ down'.seen = d.seen
      BY <2>2, <2>5, <3>1 DEF DownRecs
    <3>3. DownInv'
      BY <1>4, <2>2, <2>3, <2>4, <3>1, <3>2 DEF DownInv
    <3> QED
      BY <1>4, <1>5, <2>3, <3>1, <3>3 DEF StopInv, AgentsKept
  <2>6. CASE CountAgents = 0
    <3>1. Registered = {}
      <4>1. IsFiniteSet(Registered)
        BY PartyFacts, FS_Subset DEF Registered
      <4> QED
        BY <2>6, <4>1, FS_EmptySet DEF CountAgents
    <3>2. d.seen \subseteq {"runtime"} /\ ~d.graceful
      BY <1>7, <2>2, <2>4, <2>6, <3>1 DEF External
    <3>3. CASE HasChannel("runtime")
      <4>1. proc' = KilledAll({"runtime"}) /\ down' = [d EXCEPT !.pc = "killRuntime"]
        BY <1>10, <2>1, <2>2, <2>6, <3>3 DEF Look
      <4>2. down'.pc = "killRuntime" /\ ~down'.graceful /\ down'.seen = d.seen
        BY <2>2, <3>2, <4>1 DEF DownRecs
      <4>3. ProcsKept /\ ~Alive("runtime")' /\ \A p \in Procs : HasChannel(p)' <=> HasChannel(p)
        BY <1>3, <1>7, <3>3, <4>1
      <4>4. DownInv'
        BY <2>2, <2>3, <3>2, <4>2, <4>3 DEF DownInv, Stopped
      <4> QED
        BY <1>5, <2>3, <4>3, <4>4 DEF StopInv, AgentsKept
    <3>4. CASE ~HasChannel("runtime")
      <4>1. proc' = proc /\ down' = ThenAwaitAll(d)
        BY <1>10, <2>1, <2>2, <2>6, <3>4 DEF Look
      <4>2. d.seen = {}
        BY <2>2, <3>2, <3>4
      <4>4. DownInv'
        BY <1>6, <2>2, <2>3, <4>1, <4>2
      <4> QED
        BY <1>4, <1>5, <2>3, <4>1, <4>4 DEF StopInv, AgentsKept
    <3> QED
      BY <3>3, <3>4
  <2>7. CountAgents = 0 \/ CountAgents # 0
    OBVIOUS
  <2> QED
    BY <2>5, <2>6, <2>7
<1>11. CASE ShutdownRuntime
  <2>1. UNCHANGED <<state, agent, stop, proc>> /\ state # "Shutdown" /\ down.graceful /\ down.pc = "runtime"
    BY <1>1, <1>11 DEF ShutdownRuntime, DownInv
  <2>2. SameView(down', down) /\ down'.pc = IF HasChannel("runtime") THEN "awaitRuntime" ELSE "flush"
    BY <1>1, <1>11 DEF ShutdownRuntime, DownRecs, SameView
  <2>3. DownInv'
    BY <1>1, <1>4, <1>7, <2>1, <2>2 DEF DownInv, Stopped, SameView
  <2> QED
    BY <1>4, <1>5, <2>1, <2>3 DEF StopInv, AgentsKept
<1>12. CASE AwaitRuntimeExit
  <2>1. UNCHANGED <<state, agent, stop>> /\ state # "Shutdown" /\ down.graceful /\ down.pc = "awaitRuntime"
    BY <1>1, <1>12 DEF AwaitRuntimeExit, DownInv
  <2>2. SameView(down', down) /\ down'.pc \in {"flush", "killRuntime"}
    BY <1>1, <1>12 DEF AwaitRuntimeExit, DownRecs, SameView
  <2>3. /\ "runtime" \in down.seen => ~Alive("runtime")'
        /\ ProcsKept /\ \A p \in Procs : HasChannel(p)' <=> HasChannel(p)
    <3>1. CASE proc["runtime"].exited = "closed" /\ UNCHANGED proc
      BY <1>1, <1>4, <1>7, <3>1 DEF LaunchInv, Alive
    <3>2. CASE proc' = KilledAll({"runtime"})
      BY <1>1, <1>3, <1>7, <3>2
    <3> QED
      BY <1>12, <3>1, <3>2 DEF AwaitRuntimeExit
  <2>4. DownInv'
    BY <1>1, <2>1, <2>2, <2>3 DEF DownInv, Stopped, SameView
  <2> QED
    BY <1>5, <2>1, <2>3, <2>4 DEF StopInv, AgentsKept
<1>13. ASSUME NEW b \in BOOLEAN, AfterKill(b), UNCHANGED <<state, agent, stop, proc>>, down.pc = "killRuntime"
       PROVE  StopInv'
  <2>1. state # "Shutdown" /\ Stopped("runtime")
    BY <1>1, <1>13 DEF DownInv
  <2>2. PICK d \in DownRecs : d = [down EXCEPT !.failed = b]
    BY <1>1 DEF DownRecs
  <2>3. SameView(d, down)
    BY <1>1, <2>2 DEF DownRecs, SameView
  <2>4. CASE down.graceful
    <3>1. down' = [d EXCEPT !.pc = "flush"]
      BY <1>13, <2>2, <2>3, <2>4 DEF AfterKill, SameView
    <3>2. down'.pc = "flush" /\ SameView(down', down)
      BY <2>2, <2>3, <3>1 DEF DownRecs, SameView
    <3>3. DownInv'
      BY <1>1, <1>4, <1>7, <1>13, <2>1, <2>4, <3>2 DEF DownInv, Stopped, SameView
    <3> QED
      BY <1>4, <1>5, <1>13, <3>3 DEF StopInv, AgentsKept
  <2>5. CASE ~down.graceful
    <3>1. down' = ThenAwaitAll(d)
      BY <1>13, <2>2, <2>3, <2>5 DEF AfterKill, SameView
    <3>3. d.seen = down.seen /\ d.late = down.late /\ down.seen \subseteq {"runtime"}
      BY <1>1, <1>13, <2>3, <2>5 DEF DownInv, SameView
    <3>4. DownInv'
      BY <1>1, <1>6, <1>13, <2>1, <3>1, <3>3 DEF Stopped
    <3> QED
      BY <1>4, <1>5, <1>13, <3>4 DEF StopInv, AgentsKept
  <2> QED
    BY <2>4, <2>5
<1>14. CASE RuntimeKilled
  <2>1. down.failed \in BOOLEAN
    BY <1>1 DEF DownRecs
  <2> QED
    BY <1>13, <1>14, <2>1 DEF RuntimeKilled
<1>15. CASE KillRuntimeTimesOut
  BY <1>13, <1>15 DEF KillRuntimeTimesOut
<1>16. CASE ShutdownAgents
  <2>1. PICK launched, told : /\ launched = {a \in down.agents : HasChannel(a)}
                              /\ told = {a \in launched : agent[a].subscribed}
    OBVIOUS
  <2>2. /\ UNCHANGED <<proc, state>>
        /\ stop' = [a \in Agents |-> IF a \in told THEN "waiting" ELSE IF a \in launched THEN "kill" ELSE "none"]
    BY <1>16, <2>1 DEF ShutdownAgents
  <2>3. down.graceful /\ down.pc = "agents" /\ state # "Shutdown" /\ Stopped("runtime")
    BY <1>1, <1>16 DEF ShutdownAgents, DownInv
  <2>4. down'.pc = "awaitAgents" /\ down'.seen = down.seen /\ down'.late = down.late
    BY <1>1, <1>16 DEF ShutdownAgents, DownRecs
  <2>5. ProcsKept /\ \A p \in Procs : (HasChannel(p)' <=> HasChannel(p)) /\ (Alive(p)' => Alive(p))
    BY <1>4, <2>2
  <2>6. \A a \in Agents : stop'[a] \in {"waiting", "kill"} \/ Stopped(a)'
    <3> SUFFICES ASSUME NEW a \in Agents, a \in down.seen PROVE a \in launched
      BY <2>2, <2>4 DEF Stopped
    <3> QED
      BY <1>1, <2>1, <2>3 DEF DownInv
  <2>7. DownInv'
    BY <1>1, <1>7, <2>2, <2>3, <2>4, <2>5, <2>6 DEF DownInv, Stopped
  <2>8. AgentsKept
    <3>1. agent' = [a \in Parties |-> IF a \notin told THEN agent[a]
                                      ELSE IF [agent[a] EXCEPT !.released = TRUE].suspended
                                           THEN Resumed([agent[a] EXCEPT !.released = TRUE])
                                           ELSE [agent[a] EXCEPT !.released = TRUE]]
      BY <1>16, <2>1 DEF ShutdownAgents
    <3>2. ASSUME NEW a \in Agents, agent[a].state # "absent" PROVE agent'[a].state # "absent"
      <4>1. a \in Parties /\ agent[a] \in AgentRecs
        BY <1>1, PartyFacts
      <4>2. PICK r : r = [agent[a] EXCEPT !.released = TRUE]
        OBVIOUS
      <4>3. r \in AgentRecs /\ r.state = agent[a].state
        BY <4>1, <4>2, ReleasedSet
      <4>4. Resumed(r).state # "absent"
        BY <3>2, <4>3, ResumedFacts
      <4> QED
        BY <3>1, <3>2, <4>1, <4>2, <4>3, <4>4
    <3> QED
      BY <3>2 DEF AgentsKept
  <2> QED
    BY <1>5, <2>5, <2>7, <2>8 DEF StopInv
<1>17. ASSUME NEW a \in Agents, AgentStops(a) PROVE StopInv'
  <2>1. UNCHANGED <<proc, agent, down, state>> /\ stop' = [stop EXCEPT ![a] = "done"]
    BY <1>17 DEF AgentStops
  <2>2. ~Alive(a)
    BY <1>1, <1>7, <1>17 DEF AgentStops, LaunchInv, Terminated, Alive
  <2>3. \A x \in Agents : x # a => stop'[x] = stop[x]
    BY <1>1, <2>1
  <2>5. Stopped(a)' /\ \A p \in Procs : Stopped(p) => Stopped(p)'
    BY <1>4, <1>7, <2>1, <2>2 DEF Stopped
  <2>6. \A p \in down.seen : Reported(p) => Reported(p)'
    BY <1>1, <1>4, <2>1 DEF Reported
  <2>4. DownInv'
    BY <1>1, <1>4, <1>7, <2>1, <2>3, <2>5, <2>6 DEF DownInv
  <2> QED
    BY <1>4, <1>5, <2>1, <2>4 DEF StopInv, AgentsKept
<1>18. ASSUME NEW a \in Agents, AgentDeadline(a) \/ KillAgent(a) PROVE StopInv'
  <2>1. UNCHANGED <<agent, down, state>> /\ stop' = [stop EXCEPT ![a] = "killing"] /\ proc' = KilledAll({a})
    BY <1>18 DEF AgentDeadline, KillAgent
  <2>2. /\ ProcsKept /\ (a \in down.seen => ~Alive(a)')
        /\ \A p \in Procs : (HasChannel(p)' <=> HasChannel(p)) /\ (Alive(p)' => Alive(p))
    BY <1>1, <1>3, <1>7, <2>1
  <2>3. \A x \in Agents : x # a => stop'[x] = stop[x]
    BY <1>1, <2>1
  <2>4. Stopped(a)' /\ \A p \in Procs : Stopped(p) => Stopped(p)'
    BY <2>1, <2>2 DEF Stopped
  <2>5. \A p \in down.seen : Reported(p) => Reported(p)'
    BY <1>1, <2>1, <2>2 DEF Reported
  <2>6. DownInv'
    BY <1>1, <1>7, <2>1, <2>2, <2>3, <2>4, <2>5 DEF DownInv
  <2> QED
    BY <1>5, <2>1, <2>2, <2>6 DEF StopInv, AgentsKept
\* Only what the helpers of the shutdown report changes.
<1>23. ASSUME UNCHANGED <<agent, proc, state>>, NEW a \in Agents, stop' = [stop EXCEPT ![a] = "done"],
              stop[a] \notin {"waiting", "kill"} \/ a \in down'.late,
              down'.pc = down.pc, down'.graceful = down.graceful, down'.agents = down.agents, down'.seen = down.seen,
              down'.wait = down.wait, down.late \subseteq down'.late, down.failed => down'.failed
       PROVE  StopInv'
  <2>1. \A x \in Agents : x # a => stop'[x] = stop[x]
    BY <1>1, <1>23
  <2>2. \A p \in Procs : Stopped(p) => Stopped(p)'
    BY <1>4, <1>23 DEF Stopped
  <2>3. \A p \in down.seen : Reported(p) => Reported(p)'
    BY <1>1, <1>4, <1>23 DEF Reported
  <2>4. down.pc = "awaitAgents" => \A x \in Agents : stop'[x] \in {"waiting", "kill"} \/ Stopped(x)'
    <3> SUFFICES ASSUME down.pc = "awaitAgents", NEW x \in Agents PROVE stop'[x] \in {"waiting", "kill"} \/ Stopped(x)'
      OBVIOUS
    <3>1. stop[x] \in {"waiting", "kill"} \/ Stopped(x)
      BY <1>1 DEF DownInv
    <3>2. CASE x # a
      BY <1>7, <2>1, <2>2, <3>1, <3>2
    <3>3. CASE x = a
      BY <1>7, <1>23, <2>2, <3>1, <3>3 DEF Stopped
    <3> QED
      BY <3>2, <3>3
  <2>5. DownInv'
    BY <1>1, <1>4, <1>7, <1>23, <2>2, <2>3, <2>4 DEF DownInv
  <2> QED
    BY <1>4, <1>5, <1>23, <2>5 DEF StopInv, AgentsKept
<1>19. ASSUME NEW a \in Agents, KillAgentTimesOut(a) PROVE StopInv'
  <2>1. PICK b \in BOOLEAN : down' = [down EXCEPT !.failed = b] /\ b = (down.failed \/ a \in awaitingExit)
    BY <1>19 DEF KillAgentTimesOut
  <2>2. down'.pc = down.pc /\ SameView(down', down) /\ down'.wait = down.wait /\ (down.failed => down'.failed)
    BY <1>1, <2>1 DEF DownRecs, SameView
  <2>3. UNCHANGED <<agent, proc, state>> /\ stop' = [stop EXCEPT ![a] = "done"] /\ stop[a] = "killing"
    BY <1>19 DEF KillAgentTimesOut
  <2> QED
    BY <1>23, <2>2, <2>3 DEF SameView
<1>24. ASSUME NEW a \in Agents, KillComesLate(a) PROVE StopInv'
  <2>1. /\ UNCHANGED <<agent, proc, state>> /\ stop' = [stop EXCEPT ![a] = "done"]
        /\ down' = [down EXCEPT !.late = down.late \cup {a}]
    BY <1>24 DEF KillComesLate
  <2>2. /\ down'.pc = down.pc /\ down'.graceful = down.graceful /\ down'.agents = down.agents /\ down'.seen = down.seen
        /\ down'.wait = down.wait /\ down'.late = down.late \cup {a} /\ down'.failed = down.failed
    BY <1>1, <2>1 DEF DownRecs
  <2> QED
    BY <1>23, <2>1, <2>2
<1>25. ASSUME NEW q \in {"agents", "hangs"}, Flush(q) PROVE StopInv'
  <2>1. UNCHANGED <<agent, proc, state, stop>> /\ down.pc = "flush"
    BY <1>25 DEF Flush
  <2>2. down'.pc = q /\ SameView(down', down)
    BY <1>1, <1>25 DEF Flush, DownRecs, SameView
  <2>3. state # "Shutdown" /\ down.graceful /\ Stopped("runtime")
    BY <1>1, <2>1 DEF DownInv
  <2>4. DownInv'
    BY <1>1, <1>4, <1>7, <1>25, <2>1, <2>2, <2>3 DEF DownInv, Stopped, SameView
  <2> QED
    BY <1>4, <1>5, <2>1, <2>4 DEF StopInv, AgentsKept
<1>20. CASE AgentsStopped
  <2>1. /\ UNCHANGED <<agent, proc, state, stop>> /\ down.pc = "awaitAgents" /\ down' = ThenAwaitAll(down)
        /\ \A a \in Agents : stop[a] \in {"none", "done"}
    BY <1>20 DEF AgentsStopped
  <2>2. \A p \in Procs : Stopped(p)
    BY <1>1, <1>7, <2>1 DEF DownInv
  <2>3. state # "Shutdown"
    BY <1>1, <2>1 DEF DownInv
  <2>4. \A p \in down.seen : ~Alive(p) \/ p \in down.late
    BY <1>1, <2>2 DEF Stopped
  <2>5. DownInv'
    BY <1>1, <1>6, <2>1, <2>3, <2>4
  <2> QED
    BY <1>4, <1>5, <2>1, <2>5 DEF StopInv, AgentsKept
\* Either every channel is closed, or the time is up and that is an error.
<1>21. CASE AwaitAll
  <2>1. UNCHANGED <<agent, proc, state, stop>> /\ down.pc = "awaitAll"
    BY <1>21 DEF AwaitAll
  <2>2. /\ down'.pc = "finish" /\ down'.seen = down.seen /\ down'.late = down.late
        /\ (\A p \in down.wait : proc[p].exited = "closed") \/ down'.failed
    <3>1. CASE (\A p \in down.wait : proc[p].exited = "closed") /\ down' = [down EXCEPT !.pc = "finish", !.wait = {}]
      BY <1>1, <3>1 DEF DownRecs
    <3>2. CASE down' = [down EXCEPT !.pc = "finish", !.wait = {}, !.failed = TRUE]
      BY <1>1, <3>2 DEF DownRecs
    <3> QED
      BY <1>21, <3>1, <3>2 DEF AwaitAll
  <2>3. (\A p \in Procs : Stopped(p)) /\ down.seen \subseteq down.wait /\ state # "Shutdown"
    BY <1>1, <2>1 DEF DownInv
  <2>4. ASSUME NEW p \in down.seen PROVE Reported(p)'
    <3>1. p \in Procs /\ p \in down.wait /\ (~Alive(p) \/ p \in down.late)
      BY <1>1, <2>3 DEF Stopped
    <3>2. proc[p].exited = "closed" => ~Alive(p)
      BY <1>1, <3>1 DEF LaunchInv
    <3> QED
      BY <1>4, <2>1, <2>2, <3>1, <3>2 DEF Reported
  <2>5. DownInv'
    BY <1>1, <1>4, <2>1, <2>2, <2>3, <2>4 DEF DownInv
  <2> QED
    BY <1>4, <1>5, <2>1, <2>5 DEF StopInv, AgentsKept
<1>22. CASE Finish
  <2>1. UNCHANGED <<agent, proc, stop>> /\ down.pc = "finish"
    BY <1>22 DEF Finish
  <2>2. down'.pc = "done" /\ SameView(down', down) /\ down'.failed = down.failed
    BY <1>1, <1>22 DEF Finish, DownRecs, SameView
  <2>3. \A p \in down.seen : Reported(p)
    BY <1>1, <2>1 DEF DownInv
  <2>4. \A p \in down.seen : Reported(p)'
    BY <1>1, <1>4, <2>1, <2>2, <2>3 DEF Reported, SameView
  <2>5. DownInv'
    BY <1>1, <1>4, <2>1, <2>2, <2>4 DEF DownInv, SameView
  <2> QED
    BY <1>4, <1>5, <2>1, <2>5 DEF StopInv, AgentsKept
<1> QED
  BY <1>9, <1>10, <1>11, <1>12, <1>14, <1>15, <1>16, <1>17, <1>18, <1>19, <1>20, <1>21, <1>22, <1>24, <1>25 DEF DownStep

LEMMA NextStops ==
    ASSUME Typed, StopInv, [Next]_vars
    PROVE  StopInv'
<1>1. CASE UNCHANGED <<state, init, down, stop, proc, watcher, agent>>
  <2>1. LaunchInv'
    BY <1>1 DEF StopInv, LaunchInv, Unlaunched, HasChannel, Alive
  <2>2. DownInv'
    BY <1>1, DownKept DEF StopInv, HasChannel, Alive
  <2> QED
    BY <2>1, <2>2 DEF StopInv
<1>2. CASE UNCHANGED vars
  BY <1>1, <1>2 DEF vars, appVars, downVars, coreVars
<1>3. CASE Invoke \/ HandleInvoke \/ ResponseComes \/ BodyEnds \/ InvokeEnds \/ ServerCloses
  BY <1>1, <1>3, CallSteps DEF appVars, downVars, coreVars
<1> QED
  BY <1>2, <1>3, Steps, InitStepStops, ApiStepStops, ExitStepStops, DownStepStops

LEMMA InitStops ==
    ASSUME Init
    PROVE  StopInv
<1>1. \A p \in Procs : proc[p].life = "none" /\ proc[p].exited = "none"
  BY DEF Init
<1>2. init.pc = "none" /\ watcher.pc = "off" /\ down.pc = "none" /\ down.seen = {} /\ state = "Idle"
  BY DEF Init, StartApp, NewShutdown
<1>3. LaunchInv
  BY <1>1, <1>2, PartyFacts DEF LaunchInv, HasChannel, Alive
<1>4. DownInv
  BY <1>2 DEF DownInv
<1> QED
  BY <1>3, <1>4 DEF StopInv

\* SeenProcessesStopped, in every instance: when App.Shutdown is over, each process whose exited
\* channel the shutdown found has exited or has been sent SIGKILL, whichever deadline passed,
\* whichever kill timed out and whatever was launched meanwhile; an extension whose kill came too
\* late is the exception, and the shutdown has noted an error then (shutdown.go, process.go).
THEOREM SeenStopped == Spec => []SeenProcessesStopped
<1>1. Init => Typed /\ StopInv
  BY InitTyped, InitStops
<1>2. Typed /\ StopInv /\ [Next]_vars => (Typed /\ StopInv)'
  BY NextTyped, NextStops
<1>3. StopInv => SeenProcessesStopped
  BY DEF StopInv, DownInv, Reported, SeenProcessesStopped
<1> QED
  BY <1>1, <1>2, <1>3, PTL DEF Spec

-----------------------------------------------------------------------------
(* An init that succeeds has waited for everybody. *)

LEMMA AskersCount ==
    ASSUME \A a \in Parties : AskedSound(agent[a])
    PROVE  /\ Askers \subseteq Registered /\ Cardinality(Askers) \in Nat /\ CountAgents \in Nat
           /\ MaxAgentsLimit \in Nat /\ Cardinality(Askers) <= CountAgents /\ CountAgents < MaxAgentsLimit
           /\ Cardinality(Askers) = CountAgents => Askers = Registered
           /\ \A a \in Parties \ Askers : Cardinality(Askers \cup {a}) = Cardinality(Askers) + 1
<1>1. IsFiniteSet(Parties) /\ MaxAgentsLimit \in Nat /\ MaxAgentsLimit > Cardinality(Parties)
  BY InstanceAssumption, PartyFacts DEF Parties
<1>2. Askers \subseteq Registered /\ Registered \subseteq Parties
  BY DEF Askers, Registered, AskedSound
<1>3. IsFiniteSet(Registered) /\ CountAgents <= Cardinality(Parties)
  BY <1>1, <1>2, FS_Subset DEF CountAgents
<1>4. IsFiniteSet(Askers) /\ Cardinality(Askers) <= CountAgents /\ (Cardinality(Askers) = CountAgents => Askers = Registered)
  BY <1>2, <1>3, FS_Subset DEF CountAgents
<1>5. Cardinality(Askers) \in Nat /\ CountAgents \in Nat /\ Cardinality(Parties) \in Nat
  BY <1>1, <1>3, <1>4, FS_CardinalityType DEF CountAgents
<1>6. \A a \in Parties \ Askers : Cardinality(Askers \cup {a}) = Cardinality(Askers) + 1
  BY <1>4, FS_AddElement
<1> QED
  BY <1>1, <1>2, <1>3, <1>4, <1>5, <1>6

\* The same extensions are known and the same have asked.
SameParties == Askers' = Askers /\ Registered' = Registered /\ \A a \in Parties : AskedSound(agent'[a])

LEMMA OneParty ==
    ASSUME agent \in [Parties -> AgentRecs], AskInv, NEW a \in Parties, NEW r, agent' = [agent EXCEPT ![a] = r],
           AskedSound(r), r.asked = agent[a].asked, r.state = "absent" <=> agent[a].state = "absent"
    PROVE  SameParties
<1>1. \A x \in Parties : agent'[x] = IF x = a THEN r ELSE agent[x]
  OBVIOUS
<1>2. \A x \in Parties : agent'[x].asked = agent[x].asked /\ (agent'[x].state = "absent" <=> agent[x].state = "absent")
  BY <1>1
<1>3. \A x \in Parties : AskedSound(agent'[x])
  BY <1>1 DEF AskInv
<1> QED
  BY <1>2, <1>3 DEF SameParties, Askers, Registered

\* The gates count as before.
SameCounts == /\ gate'.runtime.count = gate.runtime.count /\ gate'.runtime.arrived = gate.runtime.arrived
              /\ gate'.ready.count = gate.ready.count /\ gate'.ready.arrived = gate.ready.arrived

LEMMA ReadyKept ==
    ASSUME ReadyInv, SameParties, SameCounts, UNCHANGED <<init, readyOnce>>, service'.on = service.on
    PROVE  ReadyInv'
<1>1. CountAgents' = CountAgents /\ Cardinality(Askers)' = Cardinality(Askers)
  BY DEF SameParties, CountAgents
<1>2. AskInv'
  BY PartyFacts DEF ReadyInv, AskInv, SameParties, Registered
<1>3. (init.pc = "ready" => \A a \in Registered : agent[a].asked)'
  BY DEF ReadyInv, CountInv, SameParties, Askers, Registered
<1>4. CountInv'
  BY <1>1, <1>3 DEF ReadyInv, CountInv, SameCounts
<1> QED
  BY <1>2, <1>4 DEF ReadyInv

LEMMA UnchangedParties ==
    ASSUME AskInv, agent' = agent
    PROVE  SameParties
BY DEF AskInv, SameParties, Askers, Registered

\* What the gates that are counted look like after a step.
LEMMA ReadyGates ==
    ASSUME NEW f \in GateRecs
    PROVE  /\ \A g \in Gate : LET n == [f EXCEPT !.registered = g] IN n.runtime = f.runtime /\ n.ready = f.ready
           /\ \A g \in Gate : LET n == [f EXCEPT !.runtime = g] IN n.runtime = g /\ n.ready = f.ready
           /\ \A g \in Gate : LET n == [f EXCEPT !.ready = g] IN n.runtime = f.runtime /\ n.ready = g
           /\ f.runtime.count \in Nat /\ f.runtime.arrived \in Nat /\ f.ready.count \in Nat /\ f.ready.arrived \in Nat
<1>1. f.runtime \in Gate /\ f.ready \in Gate
  BY DEF GateRecs
<1>2. \A g \in Gate : g.count \in Nat /\ g.arrived \in Nat
  BY DEF Gate
<1>3. /\ \A g \in Gate : LET n == [f EXCEPT !.registered = g] IN n.runtime = f.runtime /\ n.ready = f.ready
      /\ \A g \in Gate : LET n == [f EXCEPT !.runtime = g] IN n.runtime = g /\ n.ready = f.ready
      /\ \A g \in Gate : LET n == [f EXCEPT !.ready = g] IN n.runtime = f.runtime /\ n.ready = g
  BY DEF GateRecs
<1> QED
  BY <1>1, <1>2, <1>3

LEMMA ApiStepReady ==
    ASSUME Typed, ReadyInv,
           \/ \E a \in Agents, s \in BOOLEAN : RegisterExternalAgent(a, s)
           \/ \E a \in Internals : RegisterInternalAgent(a)
           \/ \E a \in Parties : AgentNext(a) \/ AgentInitError(a) \/ AgentExitError(a)
           \/ RuntimeNext \/ RuntimeInitError
    PROVE  ReadyInv'
<1> USE DEF appVars, downVars, coreVars
<1>1. /\ agent \in [Parties -> AgentRecs] /\ gate \in GateRecs /\ service \in ServiceRecs
      /\ AskInv /\ CountInv /\ \A a \in Parties : AskedSound(agent[a])
  BY DEF Typed, AgentsTyped, ReadyInv, AskInv
<1>2. gate.registered \in Gate /\ gate.runtime \in Gate /\ gate.ready \in Gate
  BY <1>1, GateFields
<1>3. ASSUME NEW a \in Agents, NEW s \in BOOLEAN, RegisterExternalAgent(a, s) PROVE ReadyInv'
  <2>1. agent[a] \in AgentRecs /\ a \in Parties /\ agent[a].state = "Started"
    BY <1>1, <1>3, PartyFacts DEF RegisterExternalAgent, Register
  <2>2. PICK r : r = [agent[a] EXCEPT !.state = "Registered", !.subscribed = s]
    OBVIOUS
  <2>3. r.state = "Registered" /\ r.asked = agent[a].asked /\ ~agent[a].asked
    BY <1>1, <2>1, <2>2, SubscribedSet, ZenonT(60) DEF AskedSound
  <2>4. agent' = [agent EXCEPT ![a] = r]
    BY <1>3, <2>2 DEF RegisterExternalAgent, Register
  <2>5. SameParties
    BY <1>1, <2>1, <2>3, <2>4, OneParty DEF AskedSound
  <2>6. SameCounts
    <3>1. WalkThrough(gate.registered) \in Gate
      BY <1>2, GateOps
    <3>2. gate' = [gate EXCEPT !.registered = WalkThrough(gate.registered)]
      BY <1>3 DEF RegisterExternalAgent, Register
    <3> QED
      BY <1>1, <3>1, <3>2, ReadyGates DEF SameCounts
  <2> QED
    BY <1>3, <2>5, <2>6, ReadyKept DEF RegisterExternalAgent
\* An internal extension: the service is on, so nobody has been counted yet.
<1>4. ASSUME NEW a \in Internals, RegisterInternalAgent(a) PROVE ReadyInv'
  <2>1. a \in Parties /\ agent[a].state = "absent" /\ service.on /\ agent' = [agent EXCEPT ![a] = NewAgent("Registered")]
    BY <1>4, PartyFacts DEF RegisterInternalAgent, CreateInternalAgent
  <2>2. NewAgent("Registered").state = "Registered" /\ NewAgent("Registered").asked = FALSE
    BY NewAgentFacts DEF AgentStates
  <2>3. UNCHANGED <<init, gate, service, readyOnce>>
    BY <1>4 DEF RegisterInternalAgent
  <2>4. \A x \in Parties : agent'[x] = IF x = a THEN NewAgent("Registered") ELSE agent[x]
    BY <1>1, <2>1
  <2>5. Askers' = Askers
    BY <1>1, <2>1, <2>2, <2>4 DEF Askers, AskedSound
  <2>6. \A x \in Parties : AskedSound(agent'[x])
    BY <1>1, <2>2, <2>4 DEF AskedSound
  <2>7. \A x \in Agents : agent'[x] = agent[x]
    BY <2>1, <2>4, <1>4, PartyFacts
  <2>8. AskInv'
    BY <1>1, <2>3, <2>6, <2>7 DEF AskInv
  <2>9. init.pc \notin {"setCount", "awaitReady", "ready"}
    BY <1>1, <2>1 DEF CountInv
  <2>10. CountInv'
    BY <1>1, <2>3, <2>5, <2>9 DEF CountInv
  <2> QED
    BY <2>8, <2>10 DEF ReadyInv
<1>5. ASSUME NEW a \in Parties, AgentNext(a) PROVE ReadyInv'
  <2>1. agent[a] \in AgentRecs /\ agent' = [agent EXCEPT ![a] = Ready(agent[a])] /\ UNCHANGED <<init, service, readyOnce>>
    BY <1>1, <1>5 DEF AgentNext
  <2>2. PICK r : r = Ready(agent[a])
    OBVIOUS
  <2>3. r.asked /\ r.state \in {"Ready", "Running"} /\ r \in AgentRecs
    BY <2>1, <2>2, ReadyFacts
  <2>4. \A x \in Parties : agent'[x] = IF x = a THEN r ELSE agent[x]
    BY <1>1, <2>1, <2>2
  <2>5. CASE agent[a].state = "Running"
    <3>1. agent[a].asked = TRUE /\ r.asked = TRUE
      BY <1>1, <2>1, <2>3, <2>5 DEF AskedSound, AgentRecs
    <3>2. SameParties
      BY <1>1, <2>1, <2>2, <2>3, <2>5, <3>1, OneParty DEF AskedSound
    <3>3. gate' = gate
      BY <1>5, <2>5 DEF AgentNext
    <3> QED
      BY <2>1, <3>2, <3>3, ReadyKept DEF SameCounts
  <2>6. CASE agent[a].state = "Registered"
    <3>1. a \in Registered /\ a \notin Askers
      BY <1>1, <2>6 DEF Registered, Askers, AskedSound
    <3>2. Askers' = Askers \cup {a}
      BY <2>3, <2>4 DEF Askers
    <3>3. Registered' = Registered
      BY <2>3, <2>4, <2>6 DEF Registered
    <3>4. \A x \in Parties : AskedSound(agent'[x])
      BY <1>1, <2>3, <2>4 DEF AskedSound
    <3>5. AskInv'
      BY <1>1, <2>1, <3>3, <3>4, PartyFacts DEF AskInv, Registered
    <3>6. gate'.runtime = gate.runtime /\ gate'.ready = WalkThrough(gate.ready)
      <4>1. WalkThrough(gate.ready) \in Gate
        BY <1>2, GateOps
      <4>2. gate' = [gate EXCEPT !.ready = WalkThrough(gate.ready)]
        BY <1>5, <2>6 DEF AgentNext
      <4> QED
        BY <1>1, <4>1, <4>2, ReadyGates
    <3>7. /\ gate'.ready.count = gate.ready.count
          /\ gate'.ready.arrived = IF gate.ready.arrived = gate.ready.count THEN gate.ready.arrived ELSE gate.ready.arrived + 1
      BY <1>2, <3>6, GateOps
    <3>8. CountAgents' = CountAgents /\ Cardinality(Askers)' = Cardinality(Askers) + 1 /\ Cardinality(Askers) < CountAgents
          /\ Cardinality(Askers) < MaxAgentsLimit
      <4>1. Cardinality(Askers \cup {a}) = Cardinality(Askers) + 1
        BY <1>1, <3>1, AskersCount
      <4>2. /\ Cardinality(Askers) \in Nat /\ CountAgents \in Nat /\ MaxAgentsLimit \in Nat
            /\ Cardinality(Askers) <= CountAgents /\ CountAgents < MaxAgentsLimit
            /\ Cardinality(Askers) = CountAgents => Askers = Registered
        BY <1>1, AskersCount
      <4>3. Cardinality(Askers) # CountAgents
        BY <3>1, <4>2
      <4> QED
        BY <3>2, <3>3, <4>1, <4>2, <4>3 DEF CountAgents
    \* The gate is not full yet, whichever count it has.
    <3>9. init.pc \notin {"failed", "returned"} => gate.ready.arrived # gate.ready.count /\ gate.ready.arrived = Cardinality(Askers)
      <4>1. Cardinality(Askers) # CountAgents /\ Cardinality(Askers) # MaxAgentsLimit
        <5>1. Cardinality(Askers) \in Nat /\ CountAgents \in Nat /\ MaxAgentsLimit \in Nat
          BY <1>1, AskersCount
        <5> QED
          BY <3>8, <5>1
      <4> QED
        BY <1>1, <4>1 DEF CountInv
    <3>10. init.pc # "ready"
      BY <1>1, <3>1 DEF CountInv, Askers, Registered
    <3>11. init.pc \notin {"failed", "returned"} => gate'.ready.arrived = Cardinality(Askers)'
      BY <3>7, <3>8, <3>9
    <3>12. CountInv'
      BY <1>1, <2>1, <3>6, <3>7, <3>8, <3>10, <3>11 DEF CountInv
    <3> QED
      BY <3>5, <3>12 DEF ReadyInv
  <2> QED
    BY <1>5, <2>5, <2>6 DEF AgentNext
<1>6. ASSUME NEW a \in Parties, NEW to \in {"InitError", "ExitError"}, NEW from \in SUBSET {"Registered", "Ready", "Running"},
             Transition(a, from, to)
      PROVE  SameParties
  <2>1. agent[a] \in AgentRecs /\ agent[a].state # "absent"
    BY <1>1, <1>6 DEF Transition
  <2>2. PICK r : r = [agent[a] EXCEPT !.state = to]
    OBVIOUS
  <2>3. r.state = to /\ r.asked = agent[a].asked
    BY <2>1, <2>2, StateSet DEF AgentStates
  <2>4. agent' = [agent EXCEPT ![a] = r]
    BY <1>6, <2>2 DEF Transition
  <2> QED
    BY <1>1, <2>1, <2>3, <2>4, OneParty DEF AskedSound
<1>7. ASSUME NEW a \in Parties, AgentInitError(a) \/ AgentExitError(a) PROVE ReadyInv'
  BY <1>6, <1>7, ReadyKept DEF AgentInitError, AgentExitError, SameCounts
<1>8. CASE RuntimeNext
  <2>1. UNCHANGED <<init, service, agent>> /\ readyOnce' = TRUE /\ gate' = [gate EXCEPT !.runtime = WalkThrough(gate.runtime)]
    BY <1>8 DEF RuntimeNext
  <2>2. WalkThrough(gate.runtime) \in Gate /\ WalkThrough(gate.runtime).count = gate.runtime.count
    BY <1>2, GateOps
  <2>3. gate'.runtime.count = gate.runtime.count /\ gate'.ready = gate.ready
    BY <1>1, <2>1, <2>2, ReadyGates
  <2>4. SameParties
    BY <1>1, <2>1, UnchangedParties
  <2>5. AskInv'
    BY <1>1, <2>1 DEF AskInv
  <2>6. CountInv'
    BY <1>1, <2>1, <2>3, <2>4 DEF CountInv, SameParties, CountAgents
  <2> QED
    BY <2>5, <2>6 DEF ReadyInv
<1>9. CASE RuntimeInitError
  <2>1. service'.on = service.on
    BY <1>1, <1>9, ServiceFields DEF RuntimeInitError, RuntimeStates
  <2>2. UNCHANGED <<init, gate, agent, readyOnce>>
    BY <1>9 DEF RuntimeInitError
  <2> QED
    BY <1>1, <2>1, <2>2, UnchangedParties, ReadyKept DEF SameCounts
<1> QED
  BY <1>3, <1>4, <1>5, <1>7, <1>8, <1>9

LEMMA ExitStepReady ==
    ASSUME Typed, ReadyInv,
           WatcherSteps \/ (\E p \in Procs, z \in BOOLEAN : Exits(p, z)) \/ (\E p \in Procs : Dies(p) \/ StrayExits(p))
    PROVE  ReadyInv'
<1> USE DEF appVars, downVars, coreVars
<1>1. /\ agent \in [Parties -> AgentRecs] /\ gate \in GateRecs /\ service \in ServiceRecs
      /\ AskInv /\ \A a \in Parties : AskedSound(agent[a])
      /\ awaitingExit \subseteq Agents /\ watcher \in WatcherRecs
  BY DEF Typed, AgentsTyped, ReadyInv, AskInv
<1>2. CASE UNCHANGED <<init, coreVars>>
  BY <1>1, <1>2, UnchangedParties, ReadyKept DEF SameCounts
<1>3. CASE (\E p \in Procs, z \in BOOLEAN : Exits(p, z)) \/ (\E p \in Procs : Dies(p) \/ StrayExits(p) \/ TakeEvent(p))
           \/ CheckShuttingDown \/ \E m \in BOOLEAN : Crash(m)
  <2>1. UNCHANGED <<init, coreVars>>
    BY <1>3 DEF Exits, Dies, StrayExits, TakeEvent, CheckShuttingDown, Crash
  <2> QED
    BY <1>2, <2>1
<1>4. CASE HandleProcessExit
  <2>1. service'.on = service.on /\ UNCHANGED <<init, readyOnce>>
    BY <1>1, <1>4, ServiceFields DEF HandleProcessExit, CancelFlows
  <2>2. SameCounts
    <3>1. watcher.err \in {nil, "crash", "timeout"}
      BY <1>1 DEF WatcherRecs
    <3>2. gate' = gate \/ gate' = [g \in DOMAIN gate |-> CancelWithError(gate[g], watcher.err)]
      BY <1>4 DEF HandleProcessExit, CancelFlows
    <3>3. gate.runtime \in Gate /\ gate.ready \in Gate /\ DOMAIN gate = {"registered", "runtime", "ready"}
      BY <1>1, GateFields
    <3>4. /\ CancelWithError(gate.runtime, watcher.err).count = gate.runtime.count
          /\ CancelWithError(gate.runtime, watcher.err).arrived = gate.runtime.arrived
          /\ CancelWithError(gate.ready, watcher.err).count = gate.ready.count
          /\ CancelWithError(gate.ready, watcher.err).arrived = gate.ready.arrived
      BY <3>1, <3>3, GateOps
    <3> QED
      BY <3>2, <3>3, <3>4 DEF SameCounts
  <2>3. SameParties
    <3>1. CASE agent' = agent
      BY <1>1, <3>1, UnchangedParties
    <3>2. CASE watcher.p \in awaitingExit /\ agent[watcher.p].state = "Running"
      <4>1. watcher.p \in Parties /\ agent[watcher.p] \in AgentRecs
        BY <1>1, <3>2, PartyFacts
      <4>2. PICK s \in {"Exited", "ShutdownFailed"} : agent' = [agent EXCEPT ![watcher.p] = [agent[watcher.p] EXCEPT !.state = s]]
        BY <1>4, <3>2 DEF HandleProcessExit
      <4>3. PICK r : r = [agent[watcher.p] EXCEPT !.state = s]
        OBVIOUS
      <4>4. r.state = s /\ r.asked = agent[watcher.p].asked
        BY <4>1, <4>3, StateSet DEF AgentStates
      <4> QED
        BY <1>1, <3>2, <4>1, <4>2, <4>3, <4>4, OneParty DEF AskedSound
    <3> QED
      BY <1>4, <3>1, <3>2 DEF HandleProcessExit
  <2> QED
    BY <2>1, <2>2, <2>3, ReadyKept
<1> QED
  BY <1>3, <1>4 DEF WatcherSteps

LEMMA DownStepReady ==
    ASSUME Typed, ReadyInv,
           \/ DownStep \/ ShutdownAfterInit \/ ShutdownByMonitor \/ KillRuntimeTimesOut \/ Flush("hangs") \/ StopServer
           \/ \E a \in Agents : AgentStops(a) \/ AgentDeadline(a) \/ KillAgentTimesOut(a) \/ KillAgent(a) \/ KillComesLate(a)
    PROVE  ReadyInv'
<1> USE DEF appVars, downVars, coreVars
<1>1. agent \in [Parties -> AgentRecs] /\ AskInv /\ \A a \in Parties : AskedSound(agent[a])
  BY DEF Typed, AgentsTyped, ReadyInv, AskInv
<1>2. CASE ~ShutdownAgents
  <2>1. UNCHANGED <<init, coreVars>>
    BY <1>2 DEF ShutdownAfterInit, ShutdownByMonitor, StopServer, DownStep, Look, ShutdownRuntime,
         AwaitRuntimeExit, RuntimeKilled, KillRuntimeTimesOut, AgentStops, AgentDeadline, KillAgentTimesOut,
         AgentsStopped, AwaitAll, Finish, Flush, KillAgent, KillComesLate
  <2> QED
    BY <1>1, <2>1, UnchangedParties, ReadyKept DEF SameCounts
<1>3. CASE ShutdownAgents
  <2>1. UNCHANGED <<init, gate, service, readyOnce>>
    BY <1>3 DEF ShutdownAgents
  <2>2. PICK told : agent' = [a \in Parties |-> IF a \notin told THEN agent[a]
                                                ELSE IF [agent[a] EXCEPT !.released = TRUE].suspended
                                                     THEN Resumed([agent[a] EXCEPT !.released = TRUE])
                                                     ELSE [agent[a] EXCEPT !.released = TRUE]]
    BY <1>3 DEF ShutdownAgents
  <2>3. ASSUME NEW a \in Parties
        PROVE  /\ agent'[a].asked = agent[a].asked /\ AskedSound(agent'[a])
               /\ agent'[a].state = "absent" <=> agent[a].state = "absent"
    <3>1. PICK r : r = [agent[a] EXCEPT !.released = TRUE]
      OBVIOUS
    <3>2. r \in AgentRecs /\ r.state = agent[a].state /\ r.asked = agent[a].asked
      BY <1>1, <3>1, ReleasedSet
    <3>3. Resumed(r).asked = r.asked /\ Resumed(r).state = IF r.state = "Ready" THEN "Running" ELSE r.state
      BY <3>2, ResumedFacts
    <3>4. agent'[a] \in {agent[a], r, Resumed(r)}
      BY <2>2, <3>1
    <3> QED
      BY <1>1, <3>2, <3>3, <3>4 DEF AskedSound
  <2>4. SameParties
    BY <2>3 DEF SameParties, Askers, Registered
  <2> QED
    BY <2>1, <2>4, ReadyKept DEF SameCounts
<1> QED
  BY <1>2, <1>3

LEMMA InitStepReady ==
    ASSUME Typed, ReadyInv,
           InitStep \/ Mishap
    PROVE  ReadyInv'
<1> USE DEF appVars, downVars, coreVars
<1>1. /\ agent \in [Parties -> AgentRecs] /\ gate \in GateRecs /\ service \in ServiceRecs /\ init \in InitRecs
      /\ AskInv /\ CountInv /\ \A a \in Parties : AskedSound(agent[a]) /\ fatal \in Fatals \cup {nil}
  BY DEF Typed, AgentsTyped, ReadyInv, AskInv
<1>2. \A e : Fails(e) => init'.pc = "failed" /\ init'.err = e
  BY <1>1 DEF Fails, InitRecs
<1>3. readyOnce' = readyOnce
  <2>1. \A p, q : CreateExitedChannel(p, q) => UNCHANGED readyOnce
    BY DEF CreateExitedChannel
  <2>2. \A x, y, z : AwaitGate(x, y, z) => UNCHANGED readyOnce
    BY DEF AwaitGate
  <2> QED
    BY <2>1, <2>2 DEF InitStep, StartInit, AgentLaunched, RuntimeLaunched, LaunchAgent, StartRuntime,
       AwaitExternalAgentsRegistered, AwaitRuntimeReady, AwaitAgentsReady, TurnOff, SetAgentsReadyCount,
       InitSucceeds, InitReturns, Mishap, LaunchFails, RuntimeFails, NameCollision, NoAgentSockets, NoRuntimeSockets
\* An init that has failed or returned has nothing to wait for any more.
<1>4. ASSUME SameParties, init'.pc \in {"failed", "returned"}, init'.pc = "failed" => init'.err # nil,
             gate'.runtime.count = gate.runtime.count, gate'.runtime.arrived = gate.runtime.arrived
      PROVE  ReadyInv'
  <2>1. AskInv'
    BY <1>4 DEF AskInv, SameParties
  <2>2. CountInv'
    BY <1>1, <1>3, <1>4 DEF CountInv
  <2> QED
    BY <2>1, <2>2 DEF ReadyInv
\* One that launches, or waits for the runtime, has counted nobody.
<1>5. ASSUME SameParties, SameCounts, service'.on = service.on,
             init.pc \in {"none", "launch", "channel", "runtime", "runtimeChannel"},
             init'.pc \in {"launch", "channel", "runtime", "runtimeChannel", "awaitRuntime"},
             \A a \in init'.todo : a \in init.todo \/ init.pc = "none",
             init'.pc \in {"launch", "channel"} => init.pc \in {"none", "launch", "channel"}
      PROVE  ReadyInv'
  <2>1. CountAgents' = CountAgents /\ Cardinality(Askers)' = Cardinality(Askers)
    BY <1>5 DEF SameParties, CountAgents
  <2>2. \A a \in Agents : agent'[a].state = "absent" <=> agent[a].state = "absent"
    BY <1>5, PartyFacts DEF SameParties, Registered
  <2>3. AskInv'
    BY <1>1, <1>5, <2>2 DEF AskInv, SameParties
  <2>4. CountInv'
    BY <1>1, <1>3, <1>5, <2>1 DEF CountInv, SameCounts
  <2> QED
    BY <2>3, <2>4 DEF ReadyInv
<1>6. ASSUME NEW found \in SUBSET Agents, StartInit(found) PROVE ReadyInv'
  <2>1. SameParties /\ service'.on = service.on
    BY <1>1, <1>6, UnchangedParties DEF StartInit
  <2>2. SameCounts
    <3>1. Cardinality(found) \in Nat
      BY FoundCount
    <3>2. [gate.registered EXCEPT !.count = Cardinality(found)] \in Gate
      BY <1>1, <3>1, GateFields
    <3>3. gate' = gate \/ gate' = [gate EXCEPT !.registered = [gate.registered EXCEPT !.count = Cardinality(found)]]
      BY <1>6 DEF StartInit
    <3>4. gate'.runtime = gate.runtime /\ gate'.ready = gate.ready
      BY <1>1, <3>3 DEF GateRecs
    <3> QED
      BY <3>4 DEF SameCounts
  <2>3. init.pc = "none" /\ init'.pc \in {"launch", "returned"}
    BY <1>1, <1>6 DEF StartInit, InitRecs
  <2> QED
    BY <1>4, <1>5, <2>1, <2>2, <2>3 DEF SameCounts
<1>7. CASE AgentLaunched \/ RuntimeLaunched
  <2>1. PICK p, q : /\ CreateExitedChannel(p, q)
                    /\ (q = "launch" /\ init.pc = "channel") \/ (q = "awaitRuntime" /\ init.pc = "runtimeChannel")
    BY <1>7 DEF AgentLaunched, RuntimeLaunched
  <2>2. init'.pc = q /\ init'.todo = init.todo /\ UNCHANGED <<agent, gate, service>>
    BY <1>1, <2>1 DEF CreateExitedChannel, InitRecs
  <2> QED
    BY <1>1, <1>5, <2>1, <2>2, UnchangedParties DEF SameCounts
\* A new external extension: it was absent, and has not asked.
<1>8. ASSUME NEW a \in Agents, NEW s \in {"LaunchError", "Started"}, CreateExternalAgent(a, s), a \in init.todo, init.pc = "launch"
      PROVE  /\ Askers' = Askers /\ \A x \in Parties : AskedSound(agent'[x])
             /\ \A x \in Agents : x # a => agent'[x] = agent[x]
  <2>1. a \in Parties /\ agent[a].state = "absent" /\ ~agent[a].asked
    BY <1>1, <1>8, PartyFacts DEF AskInv, AskedSound
  <2>2. NewAgent(s).state = s /\ NewAgent(s).asked = FALSE
    BY NewAgentFacts DEF AgentStates
  <2>3. \A x \in Parties : agent'[x] = IF x = a THEN NewAgent(s) ELSE agent[x]
    BY <1>1, <1>8, <2>1 DEF CreateExternalAgent
  <2>4. Askers' = Askers
    BY <2>1, <2>2, <2>3 DEF Askers
  <2>5. \A x \in Parties : AskedSound(agent'[x])
    BY <1>1, <2>2, <2>3 DEF AskedSound
  <2> QED
    BY <2>3, <2>4, <2>5, PartyFacts
<1>9. ASSUME NEW a \in Agents, LaunchAgent(a) PROVE ReadyInv'
  <2>1. init.pc = "launch" /\ a \in init.todo /\ UNCHANGED <<gate, service>>
    BY <1>9 DEF LaunchAgent
  <2>2. PICK s \in {"LaunchError", "Started"} : CreateExternalAgent(a, s)
    BY <1>9 DEF LaunchAgent
  <2>3. /\ Askers' = Askers /\ \A x \in Parties : AskedSound(agent'[x])
        /\ \A x \in Agents : x # a => agent'[x] = agent[x]
    BY <1>8, <2>1, <2>2
  <2>4. (init'.pc = "failed" /\ init'.err = "tooMany") \/ (init'.pc = "channel" /\ init'.todo = init.todo \ {a})
    BY <1>1, <1>2, <1>9 DEF LaunchAgent, InitRecs
  <2>5. AskInv'
    BY <1>1, <2>1, <2>3, <2>4 DEF AskInv
  <2>6. CountInv'
    BY <1>1, <1>3, <2>1, <2>3, <2>4 DEF CountInv, nil
  <2> QED
    BY <2>5, <2>6 DEF ReadyInv
<1>10. ASSUME NEW a \in Agents, (\E b \in BOOLEAN : LaunchFails(a, b)) \/ NoAgentSockets(a) PROVE ReadyInv'
  <2>1. init.pc = "launch" /\ a \in init.todo /\ UNCHANGED <<gate, service>> /\ init'.pc = "failed" /\ init'.err # nil
    BY <1>2, <1>10 DEF LaunchFails, NoAgentSockets, nil
  <2>2. PICK s \in {"LaunchError", "Started"} : CreateExternalAgent(a, s)
    BY <1>10 DEF LaunchFails, NoAgentSockets
  <2>3. Askers' = Askers /\ \A x \in Parties : AskedSound(agent'[x])
    BY <1>8, <2>1, <2>2
  <2>4. AskInv'
    BY <1>1, <2>1, <2>3 DEF AskInv
  <2>5. CountInv'
    BY <1>1, <1>3, <2>1, <2>3 DEF CountInv
  <2> QED
    BY <2>4, <2>5 DEF ReadyInv
<1>11. ASSUME NEW g \in {"registered", "runtime", "ready"}, NEW pc, NEW then, AwaitGate(pc, g, then)
       PROVE  \/ init'.pc = then /\ init'.todo = init.todo /\ gate[g].arrived = gate[g].count /\ UNCHANGED gate
              \/ ReadyInv'
  <2>1. UNCHANGED <<service, agent>> /\ SameParties
    BY <1>1, <1>11, UnchangedParties DEF AwaitGate
  <2>2. CASE GateOpens(g, then) /\ ~gate[g].canceled
    <3>1. init' = [init EXCEPT !.pc = then] /\ gate[g].arrived = gate[g].count /\ UNCHANGED gate
      BY <2>2 DEF GateOpens, Passable
    <3> QED
      BY <1>1, <3>1 DEF InitRecs
  <2>3. CASE GateOpens(g, then) /\ gate[g].canceled
    <3>1. init'.pc = "failed" /\ init'.err = ResolveGateError("canceled") /\ gate' = gate
      BY <1>2, <2>3 DEF GateOpens
    <3>2. init'.err # nil
      BY <1>1, <3>1 DEF ResolveGateError, nil
    <3> QED
      BY <1>4, <2>1, <3>1, <3>2
  <2>4. CASE GateTimesOut(g)
    <3>1. init'.pc = "failed" /\ init'.err # nil
      BY <1>1, <1>2, <2>4 DEF GateTimesOut, ResolveGateError, nil
    <3>2. gate'.runtime.count = gate.runtime.count /\ gate'.runtime.arrived = gate.runtime.arrived
      <4>1. gate[g] \in Gate /\ gate' = [gate EXCEPT ![g] = CancelWithError(gate[g], "timeout")]
        BY <1>1, <2>4 DEF GateTimesOut, GateRecs
      <4>2. PICK r : r = CancelWithError(gate[g], "timeout")
        OBVIOUS
      <4>3. r \in Gate /\ r.count = gate[g].count /\ r.arrived = gate[g].arrived
        BY <4>1, <4>2, GateOps
      <4>4. gate'.runtime = IF g = "runtime" THEN r ELSE gate.runtime
        BY <1>1, <4>1, <4>2 DEF GateRecs
      <4> QED
        BY <4>3, <4>4
    <3> QED
      BY <1>4, <2>1, <3>1, <3>2
  <2> QED
    BY <1>11, <2>2, <2>3, <2>4 DEF AwaitGate
<1>12. CASE AwaitExternalAgentsRegistered
  <2>1. init.pc = "launch" /\ UNCHANGED <<service, agent>>
    BY <1>12 DEF AwaitExternalAgentsRegistered, AwaitGate
  <2>2. CASE init'.pc = "runtime" /\ init'.todo = init.todo /\ UNCHANGED gate
    BY <1>1, <1>5, <2>1, <2>2, UnchangedParties DEF SameCounts
  <2> QED
    BY <1>11, <1>12, <2>2 DEF AwaitExternalAgentsRegistered
\* The runtime's gate opens only after its first /next.
<1>13. CASE AwaitRuntimeReady
  <2>1. init.pc = "awaitRuntime" /\ UNCHANGED <<service, agent>>
    BY <1>13 DEF AwaitRuntimeReady, AwaitGate
  <2>2. CASE init'.pc = "turnOff" /\ gate.runtime.arrived = gate.runtime.count /\ UNCHANGED gate
    <3>1. readyOnce
      BY <1>1, <2>2 DEF CountInv
    <3>2. SameParties /\ AskInv'
      BY <1>1, <2>1, <2>2, UnchangedParties DEF AskInv
    <3>3. CountInv'
      BY <1>1, <1>3, <2>1, <2>2, <3>1, <3>2 DEF CountInv, SameParties, CountAgents
    <3> QED
      BY <3>2, <3>3 DEF ReadyInv
  <2> QED
    BY <1>11, <1>13, <2>2 DEF AwaitRuntimeReady
\* The last gate opens only when those who asked are all that are registered.
<1>14. CASE AwaitAgentsReady
  <2>1. init.pc = "awaitReady" /\ UNCHANGED <<service, agent>>
    BY <1>14 DEF AwaitAgentsReady, AwaitGate
  <2>2. CASE init'.pc = "ready" /\ gate.ready.arrived = gate.ready.count /\ UNCHANGED gate
    <3>1. Cardinality(Askers) = CountAgents
      BY <1>1, <2>1, <2>2 DEF CountInv
    <3>2. Askers = Registered
      BY <1>1, <3>1, AskersCount
    <3>3. SameParties /\ AskInv'
      BY <1>1, <2>1, <2>2, UnchangedParties DEF AskInv
    <3>4. (\A a \in Registered : agent[a].asked)'
      BY <2>1, <3>2 DEF Askers, Registered
    <3>5. CountInv'
      BY <1>1, <1>3, <2>1, <2>2, <3>3, <3>4 DEF CountInv, SameParties, CountAgents
    <3> QED
      BY <3>3, <3>5 DEF ReadyInv
  <2> QED
    BY <1>11, <1>14, <2>2 DEF AwaitAgentsReady
<1>15. CASE StartRuntime
  <2>1. service'.on = service.on
    BY <1>1, <1>15, ServiceFields DEF StartRuntime, PreregisterRuntime, RuntimeStates
  <2>2. UNCHANGED <<gate, agent>> /\ init.pc = "runtime" /\ init'.pc = "runtimeChannel" /\ init'.todo = init.todo
    BY <1>1, <1>15 DEF StartRuntime, InitRecs
  <2> QED
    BY <1>1, <1>5, <2>1, <2>2, UnchangedParties DEF SameCounts
<1>16. CASE (\E b \in BOOLEAN : RuntimeFails(b)) \/ NoRuntimeSockets \/ \E a \in Agents : NameCollision(a)
  <2>1. UNCHANGED <<gate, agent>> /\ init'.pc = "failed" /\ init'.err # nil
    BY <1>2, <1>16 DEF RuntimeFails, NoRuntimeSockets, NameCollision, nil
  <2> QED
    BY <1>1, <1>4, <2>1, UnchangedParties
<1>17. CASE TurnOff
  <2>1. init.pc = "turnOff" /\ init'.pc = "setCount" /\ UNCHANGED <<gate, agent>>
    BY <1>1, <1>17 DEF TurnOff, InitRecs
  <2>2. service'.on = FALSE
    BY <1>1, <1>17, ServiceFields DEF TurnOff
  <2>3. SameParties /\ AskInv'
    BY <1>1, <2>1, UnchangedParties DEF AskInv
  <2>4. CountInv'
    BY <1>1, <1>3, <2>1, <2>2, <2>3 DEF CountInv, SameParties, CountAgents
  <2> QED
    BY <2>3, <2>4 DEF ReadyInv
<1>18. CASE SetAgentsReadyCount
  <2>1. init.pc = "setCount" /\ UNCHANGED <<service, agent>>
    BY <1>18 DEF SetAgentsReadyCount
  <2>2. SameParties
    BY <1>1, <2>1, UnchangedParties
  <2>3. CASE CountOK(gate.ready, CountAgents)
    <3>1. gate' = [gate EXCEPT !.ready = [gate.ready EXCEPT !.count = CountAgents]] /\ init'.pc = "awaitReady"
      BY <1>1, <1>18, <2>3 DEF SetAgentsReadyCount, InitRecs
    <3>2. PICK r : r = [gate.ready EXCEPT !.count = CountAgents]
      OBVIOUS
    <3>3. r \in Gate /\ r.count = CountAgents /\ r.arrived = gate.ready.arrived
      <4>1. CountAgents \in Nat /\ gate.ready \in Gate
        BY <1>1, AskersCount, GateFields
      <4> QED
        BY <3>2, <4>1 DEF Gate
    <3>4. gate'.ready = r /\ gate'.runtime = gate.runtime
      BY <1>1, <3>1, <3>2, <3>3, ReadyGates
    <3>5. AskInv'
      BY <1>1, <2>1, <3>1 DEF AskInv
    <3>6. CountInv'
      BY <1>1, <1>3, <2>1, <2>2, <3>1, <3>3, <3>4 DEF CountInv, SameParties, CountAgents
    <3> QED
      BY <3>5, <3>6 DEF ReadyInv
  <2>4. CASE ~CountOK(gate.ready, CountAgents)
    BY <1>2, <1>4, <1>18, <2>2, <2>4 DEF SetAgentsReadyCount, nil
  <2> QED
    BY <2>3, <2>4
<1>19. CASE InitSucceeds \/ InitReturns
  <2>1. init'.pc = "returned" /\ UNCHANGED <<gate, agent>>
    BY <1>1, <1>19 DEF InitSucceeds, InitReturns, InitRecs
  <2> QED
    BY <1>1, <1>4, <2>1, UnchangedParties
<1> QED
  BY <1>6, <1>7, <1>9, <1>10, <1>12, <1>13, <1>14, <1>15, <1>16, <1>17, <1>18, <1>19 DEF InitStep, Mishap

LEMMA NextReady ==
    ASSUME Typed, ReadyInv, [Next]_vars
    PROVE  ReadyInv'
<1>1. CASE UNCHANGED <<init, coreVars>>
  <2>1. AskInv
    BY DEF ReadyInv
  <2> QED
    BY <1>1, <2>1, UnchangedParties, ReadyKept DEF SameCounts, coreVars
<1>2. CASE UNCHANGED vars
  BY <1>1, <1>2 DEF vars
<1>3. CASE Invoke \/ HandleInvoke \/ ResponseComes \/ BodyEnds \/ InvokeEnds \/ ServerCloses
  BY <1>1, <1>3, CallSteps
<1> QED
  BY <1>2, <1>3, Steps, InitStepReady, ApiStepReady, ExitStepReady, DownStepReady

LEMMA InitReady ==
    ASSUME Init
    PROVE  ReadyInv
<1>1. \A a \in Parties : agent[a].state = "absent" /\ agent[a].asked = FALSE
  BY DEF Init, NoAgent
<1>2. init.pc = "none" /\ init.err = nil /\ gate.runtime = NewGate(1) /\ gate.ready = NewGate(MaxAgentsLimit)
  BY DEF Init, NewInitFlow
<1>3. AskInv
  BY <1>1, PartyFacts DEF AskInv, AskedSound
<1>4. Askers = {}
  BY <1>1 DEF Askers
<1>5. CountInv
  BY <1>2, <1>4, FS_EmptySet DEF CountInv, NewGate
<1> QED
  BY <1>3, <1>5 DEF ReadyInv

\* InitOkMeansReady, in every instance: App.Init returns without an error only when the runtime
\* and every registered extension have asked for their first event; the count is taken after the
\* registration is closed, and the gate cannot fill up before (waitExtensionsToBeReady).
THEOREM OkInitsAreReady == Spec => InitOkMeansReady
<1>1. Init => Typed /\ ReadyInv
  BY InitTyped, InitReady
<1>2. Typed /\ ReadyInv /\ [Next]_vars => (Typed /\ ReadyInv)'
  BY NextTyped, NextReady
<1>3. Typed /\ ReadyInv /\ [Next]_vars
         => [init.pc # "returned" /\ init'.pc = "returned" /\ init'.err = nil
                => readyOnce /\ \A a \in Registered : agent[a].asked]_vars
  <2> SUFFICES ASSUME Typed, ReadyInv, [Next]_vars, init.pc # "returned", init'.pc = "returned", init'.err = nil
               PROVE  readyOnce /\ \A a \in Registered : agent[a].asked
    OBVIOUS
  <2>1. init \in InitRecs /\ CountInv /\ init' # init
    BY DEF Typed, ReadyInv
  <2>2. CASE init.pc = "ready"
    BY <2>1, <2>2 DEF CountInv
  <2>3. \A e : ~Fails(e)
    BY <2>1 DEF Fails, InitRecs
  <2>4. CASE InitStep \/ Mishap
    <3>1. \A p, q : q # "returned" => ~CreateExitedChannel(p, q)
      BY <2>1 DEF CreateExitedChannel, InitRecs
    <3>2. \A x, y, z : z # "returned" => ~AwaitGate(x, y, z)
      BY <2>1, <2>3 DEF AwaitGate, GateOpens, GateTimesOut, InitRecs
    <3>3. \A found \in SUBSET Agents : ~StartInit(found)
      BY <2>1 DEF StartInit, InitRecs, nil
    <3>4. ~Mishap /\ \A a \in Agents : ~LaunchAgent(a)
      BY <2>1, <2>3 DEF Mishap, LaunchAgent, LaunchFails, NameCollision, NoAgentSockets, RuntimeFails,
                        NoRuntimeSockets, InitRecs
    <3>5. ~StartRuntime /\ ~TurnOff /\ ~SetAgentsReadyCount
      BY <2>1, <2>3 DEF StartRuntime, TurnOff, SetAgentsReadyCount, InitRecs
    <3>6. ~InitReturns
      BY <2>1 DEF InitReturns, CountInv, InitRecs
    <3>7. InitSucceeds
      BY <2>4, <3>1, <3>2, <3>3, <3>4, <3>5, <3>6 DEF InitStep, AgentLaunched, RuntimeLaunched,
         AwaitExternalAgentsRegistered, AwaitRuntimeReady, AwaitAgentsReady
    <3> QED
      BY <2>2, <3>7 DEF InitSucceeds
  <2>5. CASE UNCHANGED vars
    BY <2>1, <2>5 DEF vars
  <2>6. CASE Invoke \/ HandleInvoke \/ ResponseComes \/ BodyEnds \/ InvokeEnds \/ ServerCloses
    BY <2>1, <2>6, CallSteps
  <2>7. CASE \/ \E a \in Agents, s \in BOOLEAN : RegisterExternalAgent(a, s)
             \/ \E a \in Internals : RegisterInternalAgent(a)
             \/ \E a \in Parties : AgentNext(a) \/ AgentInitError(a) \/ AgentExitError(a)
             \/ RuntimeNext \/ RuntimeInitError
    BY <2>1, <2>7 DEF RegisterExternalAgent, RegisterInternalAgent, AgentNext, AgentInitError, AgentExitError,
                      RuntimeNext, RuntimeInitError
  <2>8. CASE WatcherSteps \/ (\E p \in Procs, z \in BOOLEAN : Exits(p, z)) \/ (\E p \in Procs : Dies(p) \/ StrayExits(p))
    BY <2>1, <2>8 DEF WatcherSteps, Exits, Dies, StrayExits, TakeEvent, CheckShuttingDown, Crash, HandleProcessExit
  <2>9. CASE \/ DownStep \/ ShutdownAfterInit \/ ShutdownByMonitor \/ KillRuntimeTimesOut \/ Flush("hangs") \/ StopServer
             \/ \E a \in Agents : AgentStops(a) \/ AgentDeadline(a) \/ KillAgentTimesOut(a) \/ KillAgent(a) \/ KillComesLate(a)
    BY <2>1, <2>9 DEF ShutdownAfterInit, ShutdownByMonitor, StopServer, DownStep, Look, ShutdownRuntime,
         AwaitRuntimeExit, RuntimeKilled, KillRuntimeTimesOut, ShutdownAgents, AgentStops, AgentDeadline,
         KillAgentTimesOut, AgentsStopped, AwaitAll, Finish, Flush, KillAgent, KillComesLate
  <2> QED
    BY <2>4, <2>5, <2>6, <2>7, <2>8, <2>9, Steps
<1> QED
  BY <1>1, <1>2, <1>3, PTL DEF Spec, InitOkMeansReady
=============================================================================
