----------------------------- MODULE HotReload -----------------------------
(***************************************************************************)
(* Hot reloading (cmd/localstack/hotreloading.go, awsutil.go and           *)
(* filenotify/poller.go): pollers compare snapshots of the watched         *)
(* folders, the listener turns their events into changes and watches new   *)
(* folders, a debouncer turns bursts of changes into one signal, and the   *)
(* reset listener resets the sandbox for each signal.  The next invocation *)
(* loads the code again.                                                   *)
(*                                                                         *)
(* A version of a file stands for its mode, size and modification time; a  *)
(* poll reads a folder in one step.  The polling strategy is modelled; the *)
(* other one is the fsnotify library.                                      *)
(***************************************************************************)
EXTENDS Naturals, FiniteSets, Sequences, SequencesExt

CONSTANTS
    Folders, Files,  \* paths of the watched tree
    Root,            \* the target path
    Below,           \* what a removal of a path takes with it: itself and its descendants
    ChanCap,         \* capacity of changeChannel and of debouncedChannel
    MaxEdits,        \* edits of the tree
    MaxFaults        \* polls that fail

Paths == Folders \cup Files

ASSUME HotReloadAssumption ==
    /\ Root \in Folders /\ Folders \cap Files = {}
    /\ Below \in [Paths -> SUBSET Paths] /\ Below[Root] = Paths
    /\ ChanCap \in Nat \ {0} /\ MaxEdits \in Nat /\ MaxFaults \in Nat

VARIABLES
    fs,         \* the tree: the version of a path, 0 when it is not there
    edits,      \* how many edits there were
    up, loaded, \* whether a runtime is up, and the tree it has read
    items,      \* the goroutines of the poller: folder, last snapshot, events not yet taken
    watches,    \* the names in filePoller.watches
    starter,    \* AddTargetPaths
    watch,      \* Watch: where it is and the folders it still has to add
    watchedFolders,
    changes,    \* changeChannel
    debounce,   \* the debouncer: where it is and whether its timer runs
    debounced,  \* debouncedChannel
    resetting,  \* whether resetListener is in a Reset
    stopped,    \* "no", "closed" (the watcher), "fatal" (the program)
    faults

vars == <<fs, edits, up, loaded, items, watches, starter, watch, watchedFolders, changes,
          debounce, debounced, resetting, stopped, faults>>
tree     == <<fs, edits>>
poller   == <<items, watches, faults>>
listener == <<watch, watchedFolders, changes>>
reloader == <<debounce, debounced, resetting>>

\* The entries of a folder: what is below it and below no other folder in it.
Children(d) == {p \in Below[d] \ {d} : \A q \in (Folders \cap Below[d]) \ {d, p} : p \notin Below[q]}

Exists(p) == fs[p] # 0

NoTree == [p \in Paths |-> 0]

\* recording.record: a folder that is not there has no entries.
Record(d) == [present |-> Exists(d), entries |-> [p \in Children(d) |-> IF Exists(d) THEN fs[p] ELSE 0]]

\* getSubFolders lists a folder before those below it.
First(folders) == CHOOSE d \in folders : \A e \in folders \ {d} : d \notin Below[e]

GetSubFolders(d) == IF Exists(d) THEN {q \in Folders \cap Below[d] : Exists(q)} ELSE {}

TypeOK ==
    /\ fs \in [Paths -> Nat] /\ edits \in 0 .. MaxEdits /\ up \in BOOLEAN /\ loaded \in [Paths -> Nat]
    /\ \A i \in DOMAIN items : /\ items[i].name \in Folders
                               /\ items[i].failed \in BOOLEAN
                               /\ \A e \in items[i].events : e.path \in Paths
    /\ watches \subseteq Folders /\ watchedFolders \subseteq Folders
    /\ starter \in [pc : {"walk", "add", "done"}, todo : SUBSET Folders]
    /\ watch \in [pc : {"select", "add", "send"}, todo : SUBSET Folders]
    /\ changes \in 0 .. ChanCap /\ debounced \in 0 .. ChanCap
    /\ debounce \in [pc : {"select", "send"}, timer : BOOLEAN]
    /\ resetting \in BOOLEAN /\ stopped \in {"no", "closed", "fatal"} /\ faults \in 0 .. MaxFaults

Init ==
    /\ fs = [p \in Paths |-> IF p = Root \/ p \in Files \cap Children(Root) THEN 1 ELSE 0]
    /\ edits = 0 /\ up = FALSE /\ loaded = NoTree
    /\ items = <<>> /\ watches = {} /\ watchedFolders = {}
    /\ starter = [pc |-> "walk", todo |-> {}] /\ watch = [pc |-> "select", todo |-> {}]
    /\ changes = 0 /\ debounced = 0 /\ debounce = [pc |-> "select", timer |-> FALSE]
    /\ resetting = FALSE /\ stopped = "no" /\ faults = 0

-----------------------------------------------------------------------------
\* The user edits the tree and invokes the function.  Two kinds of edit are left out, which no
\* poll can see: one between the first start of the runtime and the end of AddTargetPaths,
\* and one that undoes, within a polling interval, what a runtime has loaded.

Polled == \A i \in DOMAIN items : Record(items[i].name) = items[i].left

Settled == up => starter.pc = "done" /\ (fs = loaded => Polled)

Edit(tree2) ==
    /\ Settled /\ edits < MaxEdits /\ edits' = edits + 1 /\ fs' = tree2
    /\ UNCHANGED <<up, loaded, poller, starter, listener, reloader, stopped>>

ParentExists(p) == \E d \in Folders : p \in Children(d) /\ Exists(d)

Write(p)       == ParentExists(p) /\ Edit([fs EXCEPT ![p] = edits + 2])
MakeFolder(d)  == ParentExists(d) /\ ~Exists(d) /\ Edit([fs EXCEPT ![d] = 1])
MoveIn(d)      == ParentExists(d) /\ ~Exists(d)
                  /\ Edit([q \in Paths |-> IF q \in Below[d] THEN 1 ELSE fs[q]])
RemovePath(p)  == p # Root /\ Exists(p) /\ Edit([q \in Paths |-> IF q \in Below[p] THEN 0 ELSE fs[q]])

\* An init reads the code.
Load ==
    /\ ~up /\ up' = TRUE /\ loaded' = fs
    /\ UNCHANGED <<tree, poller, starter, listener, reloader, stopped>>

-----------------------------------------------------------------------------
\* filePoller

\* Add refuses a folder that is gone and one that is watched; a goroutine of its own polls
\* the folder from its present state on.
CanAdd(d) == Exists(d) /\ d \notin watches /\ stopped = "no"

Add(d) ==
    IF CanAdd(d)
    THEN /\ watches' = watches \cup {d}
         /\ items' = Append(items, [name |-> d, left |-> Record(d), events |-> {}, failed |-> FALSE])
    ELSE UNCHANGED <<watches, items>>

CheckChange(l, r, isDir) ==
    CASE l = 0 /\ r # 0 -> "Create"
      [] l # 0 /\ r = 0 -> "Remove"
      [] l = r \/ (l # 0 /\ r # 0 /\ isDir) -> "none"
      [] OTHER -> "Write"

Present(r) == {p \in DOMAIN r.entries : r.entries[p] # 0}

\* Only the side with more entries is looked at: of a removal and a creation between two
\* polls only the removal is seen.  Before it the side of the last poll.
LeftSide(l, r) == Present(l)
LargerSide(l, r) ==
    IF Cardinality(Present(r)) > Cardinality(Present(l)) THEN Present(r) ELSE Present(l)

\* checkForChanges: the folder itself first, then its entries.
CheckForChanges(name, l, r) ==
    LET op(p)  == CheckChange(l.entries[p], r.entries[p], p \in Folders)
        dirOp  == CheckChange(IF l.present THEN 1 ELSE 0, IF r.present THEN 1 ELSE 0, TRUE)
    IN  IF dirOp # "none" THEN {[path |-> name, op |-> dirOp]}
        ELSE {[path |-> p, op |-> op(p)] : p \in {q \in LargerSide(l, r) : op(q) # "none"}}

Idle(i) == items[i].events = {} /\ ~items[i].failed

\* One round of filePoller.watch.
Poll(i) ==
    /\ stopped = "no" /\ Idle(i) /\ Record(items[i].name) # items[i].left
    /\ items' = [items EXCEPT ![i].events = CheckForChanges(items[i].name, items[i].left, Record(items[i].name)),
                              ![i].left = Record(items[i].name)]
    /\ UNCHANGED <<tree, up, loaded, watches, faults, starter, listener, reloader, stopped>>

\* A folder that cannot be read: the error is sent, and the cleared recording is kept.
PollFails(i) ==
    /\ stopped = "no" /\ Idle(i) /\ faults < MaxFaults /\ faults' = faults + 1
    /\ \E present \in BOOLEAN :
           items' = [items EXCEPT ![i].failed = TRUE,
                                  ![i].left = [present |-> present, entries |-> [p \in DOMAIN @.entries |-> 0]]]
    /\ UNCHANGED <<tree, up, loaded, watches, starter, listener, reloader, stopped>>

\* The context of the watcher is canceled: polling ends, the channels stay open.
Close ==
    /\ stopped = "no" /\ stopped' = "closed" /\ watches' = {}
    /\ items' = [i \in DOMAIN items |-> [items[i] EXCEPT !.events = {}, !.failed = FALSE]]
    /\ UNCHANGED <<tree, up, loaded, faults, starter, listener, reloader>>

-----------------------------------------------------------------------------
\* RunHotReloadingListener

\* AddTargetPaths lists the folders and then adds them; one that is gone by then ends the
\* program.
ListTargetPaths ==
    /\ starter.pc = "walk" /\ stopped = "no"
    /\ starter' = [pc |-> "add", todo |-> GetSubFolders(Root)]
    /\ UNCHANGED <<tree, up, loaded, poller, listener, reloader, stopped>>

AddTargetPaths ==
    /\ starter.pc = "add" /\ stopped = "no"
    /\ IF starter.todo = {}
       THEN starter' = [starter EXCEPT !.pc = "done"] /\ UNCHANGED <<items, watches, stopped>>
       ELSE LET d == First(starter.todo)
            IN  /\ starter' = [starter EXCEPT !.todo = @ \ {d}] /\ Add(d)
                /\ stopped' = IF CanAdd(d) THEN stopped ELSE "fatal"
    /\ UNCHANGED <<tree, up, loaded, faults, listener, reloader>>

\* Watch takes an event: a new folder is listed and then added with those below it, a path
\* that is gone is taken from the lists.
TakeEvent(i) ==
    \E e \in items[i].events :
        /\ stopped = "no" /\ watch.pc = "select"
        /\ items' = [items EXCEPT ![i].events = @ \ {e}]
        /\ LET new == IF e.op = "Create" /\ e.path \in Folders THEN GetSubFolders(e.path) ELSE {}
               old == IF e.op = "Remove" THEN watchedFolders \cap Below[e.path] ELSE {}
           IN  /\ watch' = [pc |-> IF new = {} THEN "send" ELSE "add", todo |-> new]
               /\ watchedFolders' = watchedFolders \ old /\ watches' = watches \ old
        /\ UNCHANGED <<tree, up, loaded, faults, starter, changes, reloader, stopped>>

TakeError(i) ==
    /\ stopped = "no" /\ watch.pc = "select" /\ items[i].failed
    /\ items' = [items EXCEPT ![i].failed = FALSE]
    /\ UNCHANGED <<tree, up, loaded, watches, faults, starter, listener, reloader, stopped>>

\* An error of Add is only logged, the folder is listed all the same.
AddFolder ==
    /\ watch.pc = "add"
    /\ LET d == First(watch.todo)
       IN  /\ Add(d) /\ watchedFolders' = watchedFolders \cup {d}
           /\ watch' = [pc |-> IF watch.todo = {d} THEN "send" ELSE "add", todo |-> watch.todo \ {d}]
    /\ UNCHANGED <<tree, up, loaded, faults, starter, changes, reloader, stopped>>

SendChange ==
    /\ watch.pc = "send" /\ changes < ChanCap
    /\ changes' = changes + 1 /\ watch' = [watch EXCEPT !.pc = "select"]
    /\ UNCHANGED <<tree, up, loaded, poller, starter, watchedFolders, reloader, stopped>>

\* debounceChannel: every change starts the timer again.
DebounceChange ==
    /\ debounce.pc = "select" /\ changes > 0 /\ changes' = changes - 1
    /\ debounce' = [debounce EXCEPT !.timer = TRUE]
    /\ UNCHANGED <<tree, up, loaded, poller, starter, watch, watchedFolders, debounced, resetting, stopped>>

DebounceFires ==
    /\ debounce.pc = "select" /\ debounce.timer /\ debounce' = [pc |-> "send", timer |-> FALSE]
    /\ UNCHANGED <<tree, up, loaded, poller, starter, listener, debounced, resetting, stopped>>

DebounceSend ==
    /\ debounce.pc = "send" /\ debounced < ChanCap /\ debounced' = debounced + 1
    /\ debounce' = [debounce EXCEPT !.pc = "select"]
    /\ UNCHANGED <<tree, up, loaded, poller, starter, listener, resetting, stopped>>

\* resetListener runs once the target paths are added.  Reset stops the runtime.
ResetListener ==
    /\ starter.pc = "done" /\ ~resetting /\ debounced > 0
    /\ debounced' = debounced - 1 /\ resetting' = TRUE
    /\ UNCHANGED <<tree, up, loaded, poller, starter, listener, debounce, stopped>>

ResetReturns ==
    /\ resetting /\ resetting' = FALSE /\ up' = FALSE /\ loaded' = NoTree
    /\ UNCHANGED <<tree, poller, starter, listener, debounce, debounced, stopped>>

-----------------------------------------------------------------------------
Program ==
    \/ ListTargetPaths \/ AddTargetPaths \/ AddFolder \/ SendChange
    \/ DebounceChange \/ DebounceFires \/ DebounceSend \/ ResetListener \/ ResetReturns
    \/ \E i \in DOMAIN items : Poll(i) \/ TakeEvent(i) \/ TakeError(i)

World ==
    \/ \E p \in Files : Write(p)
    \/ \E p \in Paths : RemovePath(p)
    \/ \E d \in Folders \ {Root} : MakeFolder(d) \/ MoveIn(d)
    \/ Load \/ Close \/ \E i \in DOMAIN items : PollFails(i)

Next == stopped # "fatal" /\ (Program \/ World)

\* The program goes on while it can and its timers fire; nobody has to edit or invoke.
Spec == Init /\ [][Next]_vars /\ WF_vars(stopped # "fatal" /\ Program)

-----------------------------------------------------------------------------
\* A folder that no goroutine polls: one that was listed as it came into being, or came
\* between two polls together with a removal.
Unwatched == \E d \in Folders : Exists(d) /\ \A i \in DOMAIN items : items[i].name # d

\* A poll that failed has forgotten what was there, and with it a path that is gone since.
Forgotten == faults > 0 /\ \E p \in Paths : loaded[p] # 0 /\ ~Exists(p)

\* When the edits are over, no runtime is left that has read an older tree, however edits,
\* polls, bursts, full channels and resets fall together; unless the watcher was stopped,
\* overlooked a folder or forgot a path.
ChangesReload == <>[](up => loaded = fs) \/ <>[](stopped # "no" \/ Unwatched \/ Forgotten)
=============================================================================
