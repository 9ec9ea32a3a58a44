------------------------------ MODULE Settings ------------------------------
(***************************************************************************)
(* SettingsManager (packages/coding-agent/src/core/settings-manager.ts):   *)
(* global and project settings of several processes over settings.json and *)
(* its lock file, with hand edits.                                         *)
(*                                                                         *)
(* A setting is a leaf: a field, or a key of a nested field; its value is  *)
(* the number of the act that set it, 0 for unset.  The queue of writes of *)
(* a process runs one task at a time; a task blocks its process, and only  *)
(* other processes take steps between its system calls.                    *)
(***************************************************************************)
EXTENDS Integers, Sequences, FiniteSets

CONSTANTS
    Processes,   \* numbered from 1
    Fields,
    Scenarios,   \* what may happen in a behaviour, as a set of records:
                 \*   scopes    the scopes that are set and edited
                 \*   procs     bound: processes
                 \*   present   whether the files exist at first
                 \*   awaits    whether writes are awaited before trust is changed, and
                 \*             reload() before the next setting
                 \*   sets, edits, reloads, trusts, failures   bounds
    None,        \* no process; no file
    Bad          \* the content of a file that is not JSON

Scopes == {"global", "project"}
Bounds == {"sets", "edits", "reloads", "trusts", "failures"}

ASSUME SettingsAssumption ==
    /\ Processes \subseteq Nat
    /\ Scenarios \subseteq [scopes : SUBSET Scopes, procs : Nat, present : BOOLEAN, awaits : BOOLEAN,
                            sets : Nat, edits : Nat, reloads : Nat, trusts : Nat, failures : Nat]
    /\ None \notin Processes /\ None # Bad /\ {None, Bad} \intersect [Fields -> Nat] = {}

VARIABLES
    scenario,
    file,      \* of each scope: a value for each field, None or Bad
    lock,      \* of each scope: the process that holds the lock file, or None
    proc,      \* the SettingsManager of each process
    used,      \* how often each bound was used
    setters,   \* history: of each setting, the processes that set it; None for a hand edit
    last       \* history: of each setting, its last value

vars == <<scenario, file, lock, proc, used, setters, last>>

Unset == [f \in Fields |-> 0]
Content(s) == IF file[s] \in {None, Bad} THEN Unset ELSE file[s]
NoTask == [scope |-> "global", snapshot |-> Unset, fields |-> {}]

\* A manager: settings in memory, fields modified and not yet saved, scopes whose
\* file could not be loaded, the queue of writes, the task under way and what it
\* read, the tasks a reload waits for (and itself), scopes with a recorded error.
NewManager == [mem |-> [s \in Scopes |-> Content(s)], modified |-> [s \in Scopes |-> {}],
               loadError |-> {}, trusted |-> TRUE, queue |-> <<>>, pc |-> "idle", read |-> Unset,
               reload |-> 0, errors |-> {}]

Uses(bound) == /\ used[bound] < scenario[bound]
               /\ used' = [used EXCEPT ![bound] = @ + 1]
Is(p, rec) == proc' = [proc EXCEPT ![p] = rec]
Idle(p) == p <= scenario.procs /\ proc[p].pc = "idle"
Task(p) == proc[p].queue[1]

(***************************************************************************)
(* Setters                                                                 *)
(***************************************************************************)
\* Any setter: memory, the mark, and a write of a snapshot, unless the file of
\* the scope could not be loaded.
Set(p, s, f) ==
    LET value == used.sets + 1
        mem == [proc[p].mem[s] EXCEPT ![f] = value]
        modified == proc[p].modified[s] \union {f}
    IN /\ Idle(p) /\ s \in scenario.scopes
       /\ s = "project" => proc[p].trusted
       /\ scenario.awaits => proc[p].reload = 0
       /\ Uses("sets")
       /\ Is(p, [proc[p] EXCEPT
                    !.mem[s] = mem, !.modified[s] = modified,
                    !.queue = IF s \in proc[p].loadError THEN @
                              ELSE Append(@, [scope |-> s, snapshot |-> mem, fields |-> modified])])
       /\ setters' = [setters EXCEPT ![s][f] = @ \union {p}]
       /\ last' = [last EXCEPT ![s][f] = value]
       /\ UNCHANGED <<file, lock>>

(***************************************************************************)
(* The queue of writes                                                     *)
(***************************************************************************)
\* A task is done: what waits for the queue is one nearer.
Popped(rec) == [rec EXCEPT !.pc = "idle", !.queue = Tail(@), !.read = Unset,
                           !.reload = IF @ > 1 THEN @ - 1 ELSE @]
Recorded(rec, s) == [rec EXCEPT !.errors = @ \union {s}]

\* withLock looks whether there is a file: one that does not exist is taken as
\* empty, and locked only before it is written.
Begin(p) ==
    /\ Idle(p) /\ proc[p].queue # <<>>
    /\ IF Task(p).scope = "project" /\ ~proc[p].trusted
       THEN Is(p, Popped(Recorded(proc[p], "project")))
       ELSE Is(p, [proc[p] EXCEPT !.pc = IF file[Task(p).scope] = None THEN "absent" ELSE "locking"])
    /\ UNCHANGED <<file, lock, used, setters, last>>

Read(p) ==
    LET s == Task(p).scope IN
    /\ proc[p].pc = "locking" /\ lock[s] = None
    /\ IF file[s] = Bad
       THEN Is(p, Popped(Recorded(proc[p], s))) /\ UNCHANGED lock
       ELSE /\ lock' = [lock EXCEPT ![s] = p]
            /\ Is(p, [proc[p] EXCEPT !.pc = "storing", !.read = Content(s)])
    /\ UNCHANGED <<file, used, setters, last>>

LockAbsent(p) ==
    LET s == Task(p).scope IN
    /\ proc[p].pc = "absent" /\ lock[s] = None
    /\ lock' = [lock EXCEPT ![s] = p]
    /\ Is(p, [proc[p] EXCEPT !.pc = "storing"])
    /\ UNCHANGED <<file, used, setters, last>>

\* The lock stays taken for all attempts: the write is dropped, the marks stay.
LockFails(p) ==
    LET s == Task(p).scope IN
    /\ proc[p].pc \in {"locking", "absent"} /\ lock[s] # None
    /\ Uses("failures")
    /\ Is(p, Popped(Recorded(proc[p], s)))
    /\ UNCHANGED <<file, lock, setters, last>>

Merged(p, fields) ==
    [f \in Fields |-> IF f \in fields THEN Task(p).snapshot[f] ELSE proc[p].read[f]]

\* Mutant: the whole snapshot is written.
Store_Snapshot(p) ==
    LET s == Task(p).scope IN
    /\ proc[p].pc = "storing"
    /\ file' = [file EXCEPT ![s] = Merged(p, Fields)]
    /\ lock' = [lock EXCEPT ![s] = None]
    /\ Is(p, Popped([proc[p] EXCEPT !.modified[s] = {}]))
    /\ UNCHANGED <<used, setters, last>>

\* Mutant: the fields that count are those marked when the task runs.
Store_LiveMarks(p) ==
    LET s == Task(p).scope IN
    /\ proc[p].pc = "storing"
    /\ file' = [file EXCEPT ![s] = Merged(p, proc[p].modified[s])]
    /\ lock' = [lock EXCEPT ![s] = None]
    /\ Is(p, Popped([proc[p] EXCEPT !.modified[s] = {}]))
    /\ UNCHANGED <<used, setters, last>>

\* persistScopedSettings: the modified fields of the snapshot replace those read;
\* the marks of the scope are cleared, those made since the snapshot with them.
Store(p) ==
    LET s == Task(p).scope IN
    /\ proc[p].pc = "storing"
    /\ file' = [file EXCEPT ![s] = Merged(p, Task(p).fields)]
    /\ lock' = [lock EXCEPT ![s] = None]
    /\ Is(p, Popped([proc[p] EXCEPT !.modified[s] = {}]))
    /\ UNCHANGED <<used, setters, last>>

(***************************************************************************)
(* reload() and setProjectTrusted()                                        *)
(***************************************************************************)
Reload(p) ==
    /\ Idle(p) /\ proc[p].reload = 0
    /\ Uses("reloads")
    /\ Is(p, [proc[p] EXCEPT !.reload = Len(proc[p].queue) + 1])
    /\ UNCHANGED <<file, lock, setters, last>>

\* A scope is loaded: the settings, or {} for a project that is not trusted; an
\* error leaves "keep" in memory and its scope unsaved from then on.
Loaded(rec, s, keep) ==
    IF s = "project" /\ ~rec.trusted
    THEN [rec EXCEPT !.mem[s] = Unset, !.loadError = @ \ {s}]
    ELSE IF file[s] = Bad
         THEN Recorded([rec EXCEPT !.mem[s] = keep, !.loadError = @ \union {s}], s)
         ELSE [rec EXCEPT !.mem[s] = Content(s), !.loadError = @ \ {s}]

Unmarked(rec, scopes) ==
    [rec EXCEPT !.modified = [s \in Scopes |-> IF s \in scopes THEN {} ELSE @[s]]]

\* The queue of the moment of the call is done: both files are loaded.
ReloadRuns(p) ==
    /\ Idle(p) /\ proc[p].reload = 1
    /\ lock = [s \in Scopes |-> None]
    /\ LET global == Loaded([proc[p] EXCEPT !.reload = 0], "global", proc[p].mem["global"])
       IN Is(p, Unmarked(Loaded(global, "project", proc[p].mem["project"]), Scopes))
    /\ UNCHANGED <<file, lock, used, setters, last>>

SetProjectTrusted(p) ==
    /\ Idle(p) /\ lock["project"] = None
    /\ scenario.awaits => proc[p].queue = <<>> /\ proc[p].reload = 0
    /\ Uses("trusts")
    /\ Is(p, Unmarked(Loaded([proc[p] EXCEPT !.trusted = ~@], "project", Unset), {"project"}))
    /\ UNCHANGED <<file, lock, setters, last>>

(***************************************************************************)
(* Hand edits, between the tasks of all processes                          *)
(***************************************************************************)
NoTaskOn(s) == \A p \in Processes : proc[p].pc # "idle" => Task(p).scope # s

Edit(s, f) ==
    /\ NoTaskOn(s) /\ s \in scenario.scopes
    /\ Uses("edits")
    /\ file' = [file EXCEPT ![s] = [Content(s) EXCEPT ![f] = scenario.sets + used.edits + 1]]
    /\ setters' = [setters EXCEPT ![s][f] = @ \union {None}]
    /\ UNCHANGED <<lock, proc, last>>

\* The user leaves the file with a typing error; another edit repairs it.
Misedit(s) ==
    /\ NoTaskOn(s) /\ s \in scenario.scopes /\ file[s] \notin {None, Bad}
    /\ Uses("edits")
    /\ file' = [file EXCEPT ![s] = Bad]
    /\ setters' = [setters EXCEPT ![s] = [f \in Fields |-> @[f] \union {None}]]
    /\ UNCHANGED <<lock, proc, last>>

(***************************************************************************)
(* Specification                                                           *)
(***************************************************************************)
Init ==
    /\ scenario \in Scenarios
    /\ file = [s \in Scopes |-> IF scenario.present THEN Unset ELSE None]
    /\ lock = [s \in Scopes |-> None]
    /\ proc = [p \in Processes |-> NewManager]
    /\ used = [b \in Bounds |-> 0]
    /\ setters = [s \in Scopes |-> [f \in Fields |-> {}]]
    /\ last = [s \in Scopes |-> Unset]

TaskStep(p) == Begin(p) \/ Read(p) \/ LockAbsent(p) \/ LockFails(p) \/ Store(p)

\* The system really may stop: nothing happens until the user acts.
Next ==
    /\ \/ \E p \in Processes :
             \/ TaskStep(p) \/ Reload(p) \/ ReloadRuns(p) \/ SetProjectTrusted(p)
             \/ \E s \in Scopes, f \in Fields : Set(p, s, f)
       \/ \E s \in Scopes : Misedit(s) \/ (\E f \in Fields : Edit(s, f))
    /\ UNCHANGED scenario

Spec == Init /\ [][Next]_vars

(***************************************************************************)
(* Properties                                                              *)
(***************************************************************************)
\* Every variable has its type; the lock of a scope is held by a process whose task
\* is about to store that scope, and by no other.
TypeOK ==
    /\ scenario \in Scenarios /\ \A b \in Bounds : used[b] <= scenario[b]
    /\ file \in [Scopes -> [Fields -> Nat] \union {None, Bad}]
    /\ \A p \in Processes :
          /\ proc[p].mem \in [Scopes -> [Fields -> Nat]]
          /\ proc[p].modified \in [Scopes -> SUBSET Fields]
          /\ proc[p].loadError \subseteq Scopes /\ proc[p].errors \subseteq Scopes
          /\ proc[p].pc \in {"idle", "locking", "absent", "storing"}
          /\ proc[p].pc # "idle" => proc[p].queue # <<>>
          /\ proc[p].reload \in 0..(Len(proc[p].queue) + 1)
    /\ \A s \in Scopes, p \in Processes :
          lock[s] = p <=> proc[p].pc = "storing" /\ Task(p).scope = s
    /\ setters \in [Scopes -> [Fields -> SUBSET (Processes \union {None})]]

Stores(p) == proc[p].pc = "storing" /\ proc'[p].pc = "idle"
HandEdit == used'.edits # used.edits

\* "Preserves externally added settings": a process changes nothing in a file
\* but settings it was told to change, whatever other processes and the user
\* wrote there, and whatever its own memory holds; a file that cannot be parsed
\* is left to the user to repair.
OthersKept ==
    [][\A s \in Scopes :
          /\ file[s] = Bad => file'[s] = Bad \/ HandEdit
          /\ \A f \in Fields :
                Content(s)[f] # Content(s)'[f] =>
                   HandEdit \/ (\E p \in Processes : Stores(p) /\ p \in setters[s][f])]_vars

\* When all writes are done, a setting that only one process has set, and not the
\* user, is in the file as it was set last, and in the memory of that process,
\* unless an error of its scope was recorded: nothing that a burst of setters, a
\* reload or a write of another setting does loses it.
SetIsKept ==
    (\A p \in Processes : proc[p].queue = <<>> /\ proc[p].reload = 0) =>
        \A p \in Processes, s \in Scopes, f \in Fields :
            setters[s][f] = {p} /\ s \notin proc[p].errors =>
                /\ Content(s)[f] = last[s][f]
                /\ s = "global" \/ proc[p].trusted => proc[p].mem[s][f] = last[s][f]
=============================================================================
