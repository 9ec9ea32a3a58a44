--------------------------- MODULE SettingsProofs ---------------------------
(***************************************************************************)
(* Theorems about Settings: a process changes nothing in a file but the    *)
(* settings it was told to change, and no setting of its own is lost.      *)
(***************************************************************************)
EXTENDS Settings, TLAPS

(***************************************************************************)
(* Types                                                                   *)
(***************************************************************************)
Values == [Fields -> Nat]
TaskRecord == [scope : Scopes, snapshot : Values, fields : SUBSET Fields]
Manager ==
    [mem : [Scopes -> Values], modified : [Scopes -> SUBSET Fields], loadError : SUBSET Scopes,
     trusted : BOOLEAN, queue : Seq(TaskRecord), pc : {"idle", "locking", "absent", "storing"},
     read : Values, reload : Nat, errors : SUBSET Scopes]

TypeInv ==
    /\ scenario \in Scenarios
    /\ file \in [Scopes -> Values \union {None, Bad}]
    /\ lock \in [Scopes -> Processes \union {None}]
    /\ proc \in [Processes -> Manager]
    /\ used \in [Bounds -> Nat] /\ \A b \in Bounds : used[b] <= scenario[b]
    /\ setters \in [Scopes -> [Fields -> SUBSET (Processes \union {None})]]
    /\ last \in [Scopes -> Values]
    /\ \A p \in Processes :
           proc[p].pc # "idle" => proc[p].queue # <<>> /\ p <= scenario.procs

\* The content of a file, whatever is there, is a value for each field.
LEMMA ContentType ==
    ASSUME TypeInv, NEW s \in Scopes
    PROVE  /\ Content(s) \in Values /\ Unset \in Values
           /\ file[s] \notin {None, Bad} => Content(s) = file[s]
BY DEF TypeInv, Content, Unset, Values

\* The task under way.
LEMMA TaskType ==
    ASSUME NEW rec \in Manager, rec.queue # <<>>
    PROVE  /\ rec.queue[1] \in TaskRecord
           /\ Tail(rec.queue) \in Seq(TaskRecord) /\ Len(rec.queue) \in Nat \ {0}
           /\ Len(Tail(rec.queue)) = Len(rec.queue) - 1
           /\ \A i \in DOMAIN Tail(rec.queue) : Tail(rec.queue)[i] = rec.queue[i + 1]
BY DEF Manager

\* A task that is done leaves the rest of the manager alone.
LEMMA PoppedFields ==
    ASSUME NEW rec \in Manager, rec.queue # <<>>
    PROVE  /\ Popped(rec) \in Manager
           /\ Popped(rec).mem = rec.mem /\ Popped(rec).modified = rec.modified
           /\ Popped(rec).loadError = rec.loadError /\ Popped(rec).trusted = rec.trusted
           /\ Popped(rec).errors = rec.errors /\ Popped(rec).pc = "idle"
           /\ Popped(rec).queue = Tail(rec.queue) /\ Popped(rec).read = Unset
           /\ Popped(rec).reload = IF rec.reload > 1 THEN rec.reload - 1 ELSE rec.reload
<1>1. Unset \in Values
  BY DEF Unset, Values
<1>2. Tail(rec.queue) \in Seq(TaskRecord)
  BY TaskType
<1>3. (IF rec.reload > 1 THEN rec.reload - 1 ELSE rec.reload) \in Nat
  BY DEF Manager
<1>. QED
  BY <1>1, <1>2, <1>3 DEF Popped, Manager

\* An error is recorded.
LEMMA RecordedFields ==
    ASSUME NEW rec \in Manager, NEW s \in Scopes
    PROVE  /\ Recorded(rec, s) \in Manager /\ Recorded(rec, s).errors = rec.errors \union {s}
           /\ Recorded(rec, s).mem = rec.mem /\ Recorded(rec, s).modified = rec.modified
           /\ Recorded(rec, s).loadError = rec.loadError
           /\ Recorded(rec, s).trusted = rec.trusted
           /\ Recorded(rec, s).pc = rec.pc /\ Recorded(rec, s).queue = rec.queue
           /\ Recorded(rec, s).read = rec.read /\ Recorded(rec, s).reload = rec.reload
BY DEF Recorded, Manager

\* A scope is loaded, or its error is recorded; the other scope stays as it is.
LEMMA LoadedFields ==
    ASSUME TypeInv, NEW rec \in Manager, NEW s \in Scopes, NEW keep \in Values,
           NEW new, new = Loaded(rec, s, keep)
    PROVE  /\ new \in Manager
           /\ new.modified = rec.modified /\ new.trusted = rec.trusted /\ new.pc = rec.pc
           /\ new.queue = rec.queue /\ new.read = rec.read /\ new.reload = rec.reload
           /\ \A t \in Scopes \ {s} : new.mem[t] = rec.mem[t]
           /\ rec.errors \subseteq new.errors
           /\ rec.loadError \subseteq rec.errors => new.loadError \subseteq new.errors
           /\ s \in new.errors \/ (s = "project" /\ ~rec.trusted) \/ new.mem[s] = Content(s)
<1>1. Content(s) \in Values /\ Unset \in Values
  BY ContentType
<1>2. CASE s = "project" /\ ~rec.trusted
  <2> DEFINE x == [rec EXCEPT !.mem[s] = Unset, !.loadError = @ \ {s}]
  <2>1. /\ x \in Manager /\ x.mem = [rec.mem EXCEPT ![s] = Unset]
        /\ x.loadError = rec.loadError \ {s} /\ x.errors = rec.errors
        /\ x.modified = rec.modified /\ x.trusted = rec.trusted /\ x.pc = rec.pc
        /\ x.queue = rec.queue /\ x.read = rec.read /\ x.reload = rec.reload
    BY <1>1 DEF Manager
  <2>0. new = x
    BY <1>2 DEF Loaded
  <2>. HIDE DEF x
  <2>2. \A t \in Scopes \ {s} : x.mem[t] = rec.mem[t]
    BY <2>1
  <2>. QED
    BY <1>2, <2>0, <2>1, <2>2
<1>3. CASE ~(s = "project" /\ ~rec.trusted) /\ file[s] = Bad
  <2> DEFINE old == [rec EXCEPT !.mem[s] = keep, !.loadError = @ \union {s}]
  <2>1. /\ old \in Manager /\ old.mem = [rec.mem EXCEPT ![s] = keep]
        /\ old.loadError = rec.loadError \union {s} /\ old.errors = rec.errors
        /\ old.modified = rec.modified /\ old.trusted = rec.trusted /\ old.pc = rec.pc
        /\ old.queue = rec.queue /\ old.read = rec.read /\ old.reload = rec.reload
    BY DEF Manager
  <2>2. new = Recorded(old, s)
    BY <1>3 DEF Loaded
  <2>. HIDE DEF old
  <2>3. \A t \in Scopes \ {s} : old.mem[t] = rec.mem[t]
    BY <2>1
  <2>4. /\ Recorded(old, s) \in Manager /\ Recorded(old, s).errors = old.errors \union {s}
        /\ Recorded(old, s).mem = old.mem /\ Recorded(old, s).modified = old.modified
        /\ Recorded(old, s).loadError = old.loadError /\ Recorded(old, s).trusted = old.trusted
        /\ Recorded(old, s).pc = old.pc /\ Recorded(old, s).queue = old.queue
        /\ Recorded(old, s).read = old.read /\ Recorded(old, s).reload = old.reload
    BY <2>1, RecordedFields
  <2>. HIDE DEF Recorded
  <2>. QED
    BY <2>1, <2>2, <2>3, <2>4
<1>4. CASE ~(s = "project" /\ ~rec.trusted) /\ file[s] # Bad
  <2> DEFINE x == [rec EXCEPT !.mem[s] = Content(s), !.loadError = @ \ {s}]
  <2>1. /\ x \in Manager /\ x.mem = [rec.mem EXCEPT ![s] = Content(s)]
        /\ x.loadError = rec.loadError \ {s} /\ x.errors = rec.errors
        /\ x.modified = rec.modified /\ x.trusted = rec.trusted /\ x.pc = rec.pc
        /\ x.queue = rec.queue /\ x.read = rec.read /\ x.reload = rec.reload
    BY <1>1 DEF Manager
  <2>0. new = x
    BY <1>4 DEF Loaded
  <2>. HIDE DEF x
  <2>2. (\A t \in Scopes \ {s} : x.mem[t] = rec.mem[t]) /\ x.mem[s] = Content(s)
    BY <2>1 DEF Manager
  <2>. QED
    BY <2>0, <2>1, <2>2
<1>. QED
  BY <1>2, <1>3, <1>4

\* Marks are taken away, and nothing else.
LEMMA UnmarkedFields ==
    ASSUME NEW rec \in Manager, NEW scopes
    PROVE  LET new == Unmarked(rec, scopes) IN
           /\ new \in Manager
           /\ new.mem = rec.mem /\ new.trusted = rec.trusted /\ new.pc = rec.pc
           /\ new.queue = rec.queue /\ new.read = rec.read /\ new.reload = rec.reload
           /\ new.loadError = rec.loadError /\ new.errors = rec.errors
           /\ \A s \in Scopes : new.modified[s] \subseteq rec.modified[s]
<1> DEFINE marks == [s \in Scopes |-> IF s \in scopes THEN {} ELSE rec.modified[s]]
<1>1. Unmarked(rec, scopes) = [rec EXCEPT !.modified = marks]
  BY DEF Unmarked
<1>2. marks \in [Scopes -> SUBSET Fields] /\ \A s \in Scopes : marks[s] \subseteq rec.modified[s]
  BY DEF Manager
<1>. HIDE DEF marks
<1>. QED
  BY <1>1, <1>2 DEF Manager

(***************************************************************************)
(* What the steps do to the manager of their process                       *)
(***************************************************************************)

\* Fields that a task does not touch before it is done.
Same(rec, new) ==
    /\ new.mem = rec.mem /\ new.modified = rec.modified /\ new.loadError = rec.loadError
    /\ new.trusted = rec.trusted /\ new.errors = rec.errors
    /\ new.queue = rec.queue /\ new.reload = rec.reload

\* The end of a task; its marks may go.
Pops(rec, new) ==
    /\ new.mem = rec.mem /\ new.loadError = rec.loadError /\ new.trusted = rec.trusted
    /\ \A s \in Scopes : new.modified[s] \subseteq rec.modified[s]
    /\ new.pc = "idle" /\ new.read = Unset /\ new.queue = Tail(rec.queue)
    /\ new.reload = IF rec.reload > 1 THEN rec.reload - 1 ELSE rec.reload

\* A task goes on, to wait for the lock or with the lock and what is in the file.
Moves(p, new) ==
    /\ Same(proc[p], new) /\ proc[p].pc # "storing" /\ UNCHANGED <<file, used>>
    /\ \/ new.pc = "locking" /\ new.read = proc[p].read /\ UNCHANGED lock
       \/ /\ new.pc = "absent" /\ file[Task(p).scope] = None /\ new.read = proc[p].read
          /\ UNCHANGED lock
       \/ /\ new.pc = "storing"
          /\ lock[Task(p).scope] = None /\ lock' = [lock EXCEPT ![Task(p).scope] = p]
          /\ \/ file[Task(p).scope] # Bad /\ new.read = Content(Task(p).scope)
             \/ proc[p].pc = "absent" /\ new.read = proc[p].read

\* A task is dropped with an error.
Drops(p, new) ==
    /\ Pops(proc[p], new) /\ proc[p].pc # "storing" /\ UNCHANGED <<file, lock>>
    /\ new.errors = proc[p].errors \union {Task(p).scope}
    /\ UNCHANGED used \/ Uses("failures")

\* A task writes the file and releases its lock.
Saves(p, new) ==
    /\ Pops(proc[p], new) /\ proc[p].pc = "storing" /\ new.errors = proc[p].errors
    /\ file' = [file EXCEPT ![Task(p).scope] = Merged(p, Task(p).fields)]
    /\ lock' = [lock EXCEPT ![Task(p).scope] = None]
    /\ UNCHANGED used

LEMMA TaskEffect ==
    ASSUME TypeInv, NEW p \in Processes, TaskStep(p)
    PROVE  /\ p <= scenario.procs /\ proc[p].queue # <<>> /\ UNCHANGED <<setters, last>>
           /\ \E new \in Manager : Is(p, new) /\ (Moves(p, new) \/ Drops(p, new) \/ Saves(p, new))
<1>1. /\ p <= scenario.procs /\ proc[p].queue # <<>> /\ UNCHANGED <<setters, last>>
      /\ proc[p] \in Manager
  BY DEF TaskStep, Begin, Read, LockAbsent, LockFails, Store, Idle, TypeInv
<1>2. Task(p) \in TaskRecord /\ Task(p).scope \in Scopes
  BY <1>1, TaskType DEF Task, TaskRecord
<1>3. ASSUME Is(p, Popped(Recorded(proc[p], Task(p).scope))), proc[p].pc # "storing",
             UNCHANGED <<file, lock>>, UNCHANGED used \/ Uses("failures")
      PROVE  \E new \in Manager : Is(p, new) /\ Drops(p, new)
  <2> DEFINE old == Recorded(proc[p], Task(p).scope)
             new == Popped(old)
  <2>1. /\ old \in Manager /\ old.errors = proc[p].errors \union {Task(p).scope}
        /\ old.mem = proc[p].mem /\ old.modified = proc[p].modified
        /\ old.loadError = proc[p].loadError /\ old.trusted = proc[p].trusted
        /\ old.queue = proc[p].queue /\ old.reload = proc[p].reload
    BY <1>1, <1>2, RecordedFields
  <2>. HIDE DEF old
  <2>2. /\ new \in Manager /\ new.errors = old.errors /\ new.mem = old.mem
        /\ new.modified = old.modified /\ new.loadError = old.loadError
        /\ new.trusted = old.trusted /\ new.pc = "idle" /\ new.read = Unset
        /\ new.queue = Tail(old.queue)
        /\ new.reload = IF old.reload > 1 THEN old.reload - 1 ELSE old.reload
    BY <1>1, <2>1, PoppedFields
  <2>3. Is(p, new)
    BY <1>3 DEF old
  <2>. HIDE DEF new
  <2>4. Drops(p, new)
    BY <1>3, <2>1, <2>2 DEF Drops, Pops
  <2>. QED
    BY <2>2, <2>3, <2>4
<1>4. ASSUME NEW pc \in {"locking", "absent", "storing"}, NEW read \in Values
      PROVE  /\ [proc[p] EXCEPT !.pc = pc, !.read = read] \in Manager
             /\ Same(proc[p], [proc[p] EXCEPT !.pc = pc, !.read = read])
             /\ [proc[p] EXCEPT !.pc = pc, !.read = read].pc = pc
             /\ [proc[p] EXCEPT !.pc = pc, !.read = read].read = read
  BY <1>1 DEF Manager, Same
<1>5. CASE Begin(p)
  <2>1. CASE Task(p).scope = "project" /\ ~proc[p].trusted
    BY <1>3, <1>5, <2>1 DEF Begin, Idle
  <2>2. CASE ~(Task(p).scope = "project" /\ ~proc[p].trusted)
    <3>1. PICK pc \in {"locking", "absent", "storing"} :
             /\ Is(p, [proc[p] EXCEPT !.pc = pc])
             /\ pc # "storing" /\ (pc = "absent" => file[Task(p).scope] = None)
      BY <1>5, <2>2 DEF Begin
    <3> DEFINE read == proc[p].read
               new == [proc[p] EXCEPT !.pc = pc, !.read = read]
    <3>2. /\ read \in Values
          /\ [proc[p] EXCEPT !.pc = pc] = new
      BY <1>1 DEF Manager
    <3>. HIDE DEF read
    <3>3. new \in Manager /\ Same(proc[p], new) /\ new.pc = pc /\ new.read = read
      BY <1>1, <3>1, <3>2 DEF Manager, Same
    <3>. USE DEF read
    <3>4. Is(p, new)
      BY <3>1, <3>2
    <3>. HIDE DEF new
    <3>5. Moves(p, new)
      BY <1>5, <3>1, <3>3 DEF Moves, Begin, Idle
    <3>. QED
      BY <1>1, <3>3, <3>4, <3>5
  <2>. QED
    BY <2>1, <2>2, <1>1
<1>6. CASE Read(p)
  <2>1. CASE file[Task(p).scope] = Bad
    BY <1>1, <1>3, <1>6, <2>1 DEF Read
  <2>2. CASE file[Task(p).scope] # Bad
    <3> DEFINE read == Content(Task(p).scope)
               new == [proc[p] EXCEPT !.pc = "storing", !.read = read]
    <3>1. read \in Values
      BY <1>2, ContentType
    <3>2. Is(p, new)
      BY <1>6, <2>2 DEF Read
    <3>3. new \in Manager /\ Same(proc[p], new) /\ new.pc = "storing" /\ new.read = read
      BY <1>4, <3>1
    <3>. HIDE DEF new
    <3>4. Moves(p, new)
      BY <1>6, <2>2, <3>3 DEF Moves, Read
    <3>. QED
      BY <1>1, <3>2, <3>3, <3>4
  <2>. QED
    BY <2>1, <2>2
<1>7. CASE LockAbsent(p)
  <2>1. /\ proc[p].read \in Values
        /\ [proc[p] EXCEPT !.pc = "storing"] = [proc[p] EXCEPT !.pc = "storing", !.read = proc[p].read]
    BY <1>1 DEF Manager
  <2> DEFINE new == [proc[p] EXCEPT !.pc = "storing", !.read = proc[p].read]
  <2>2. new \in Manager /\ Same(proc[p], new) /\ new.pc = "storing" /\ new.read = proc[p].read
    BY <1>4, <2>1
  <2>3. Is(p, new)
    BY <1>7, <2>1 DEF LockAbsent
  <2>. HIDE DEF new
  <2>4. Moves(p, new)
    BY <1>7, <2>2 DEF Moves, LockAbsent
  <2>. QED
    BY <1>1, <2>2, <2>3, <2>4
<1>8. CASE LockFails(p)
  BY <1>1, <1>3, <1>8 DEF LockFails
<1>9. CASE Store(p)
  <2> DEFINE s == Task(p).scope
             old == [proc[p] EXCEPT !.modified[s] = {}]
             new == Popped(old)
  <2>1. /\ old \in Manager /\ old.errors = proc[p].errors
        /\ old.mem = proc[p].mem /\ old.modified = [proc[p].modified EXCEPT ![s] = {}]
        /\ old.loadError = proc[p].loadError /\ old.trusted = proc[p].trusted
        /\ old.queue = proc[p].queue /\ old.reload = proc[p].reload
    BY <1>1, <1>2 DEF Manager
  <2>2. Is(p, Popped(old))
    BY <1>9 DEF Store
  <2>. HIDE DEF old
  <2>3. /\ new \in Manager /\ new.errors = old.errors /\ new.mem = old.mem
        /\ new.modified = old.modified /\ new.loadError = old.loadError
        /\ new.trusted = old.trusted /\ new.pc = "idle" /\ new.read = Unset
        /\ new.queue = Tail(old.queue)
        /\ new.reload = IF old.reload > 1 THEN old.reload - 1 ELSE old.reload
    BY <1>1, <2>1, PoppedFields
  <2>4. \A t \in Scopes : old.modified[t] \subseteq proc[p].modified[t]
    BY <1>1, <2>1 DEF Manager
  <2>. HIDE DEF new
  <2>5. Pops(proc[p], new) /\ new.errors = proc[p].errors
    BY <2>1, <2>3, <2>4 DEF Pops
  <2>6. Saves(p, new)
    BY <1>9, <2>5 DEF Saves, Store
  <2>. QED
    BY <1>1, <2>2, <2>3, <2>6 DEF new
<1>. QED
  BY <1>1, <1>3, <1>5, <1>6, <1>7, <1>8, <1>9 DEF TaskStep

\* reload() is called, the reload itself, or a change of trust: what was loaded is
\* in memory, or was an error; the queue stays as it is.
Rereads(p, new) ==
    /\ proc[p].pc = "idle" /\ new.pc = "idle" /\ p <= scenario.procs
    /\ new.read = proc[p].read /\ new.queue = proc[p].queue
    /\ \A s \in Scopes : new.modified[s] \subseteq proc[p].modified[s]
    /\ proc[p].errors \subseteq new.errors
    /\ proc[p].loadError \subseteq proc[p].errors => new.loadError \subseteq new.errors
    /\ \A s \in Scopes :
          \/ s \in new.errors \/ (s = "project" /\ ~new.trusted)
          \/ /\ new.mem[s] = proc[p].mem[s]
             /\ s = "global" \/ new.trusted = proc[p].trusted
          \/ /\ new.mem[s] = Content(s)
             /\ \/ proc[p].reload = 1
                \/ scenario.awaits => proc[p].queue = <<>>
    /\ \/ new.reload = proc[p].reload
       \/ proc[p].reload = 0 /\ new.reload = Len(proc[p].queue) + 1
       \/ proc[p].reload = 1 /\ new.reload = 0

LEMMA RereadEffect ==
    ASSUME TypeInv, NEW p \in Processes, Reload(p) \/ ReloadRuns(p) \/ SetProjectTrusted(p)
    PROVE  /\ UNCHANGED <<file, lock, setters, last>>
           /\ UNCHANGED used \/ Uses("reloads") \/ Uses("trusts")
           /\ \E new \in Manager : Is(p, new) /\ Rereads(p, new)
<1>0. proc[p].mem["global"] \in Values /\ proc[p].mem["project"] \in Values /\ Unset \in Values
  BY ContentType DEF TypeInv, Manager, Scopes
<1>1. proc[p] \in Manager /\ p <= scenario.procs /\ proc[p].pc = "idle"
  BY DEF Reload, ReloadRuns, SetProjectTrusted, Idle, TypeInv
<1>s. "global" \in Scopes /\ "project" \in Scopes
  BY DEF Scopes
<1>2. CASE Reload(p)
  <2> DEFINE new == [proc[p] EXCEPT !.reload = Len(proc[p].queue) + 1]
  <2>1. Is(p, new) /\ proc[p].reload = 0
    BY <1>2 DEF Reload
  <2>2. /\ new \in Manager /\ new.pc = "idle" /\ new.mem = proc[p].mem
        /\ new.modified = proc[p].modified /\ new.loadError = proc[p].loadError
        /\ new.trusted = proc[p].trusted /\ new.errors = proc[p].errors
        /\ new.queue = proc[p].queue /\ new.read = proc[p].read
        /\ new.reload = Len(proc[p].queue) + 1
    BY <1>1 DEF Manager
  <2>. HIDE DEF new
  <2>. QED
    BY <1>1, <1>2, <2>1, <2>2 DEF Reload, Rereads
<1>3. CASE ReloadRuns(p)
  <2> DEFINE old == [proc[p] EXCEPT !.reload = 0]
             global == proc[p].mem["global"]
             project == proc[p].mem["project"]
             mid == Loaded(old, "global", global)
             end == Loaded(mid, "project", project)
             new == Unmarked(end, Scopes)
  <2>0. global \in Values /\ project \in Values
    BY <1>0
  <2>1. Is(p, new) /\ proc[p].reload = 1
    BY <1>3 DEF ReloadRuns
  <2>2. /\ old \in Manager /\ old.pc = "idle" /\ old.mem = proc[p].mem
        /\ old.modified = proc[p].modified /\ old.loadError = proc[p].loadError
        /\ old.trusted = proc[p].trusted /\ old.errors = proc[p].errors
        /\ old.queue = proc[p].queue /\ old.read = proc[p].read /\ old.reload = 0
    BY <1>1 DEF Manager
  <2>. HIDE DEF old, global, project
  <2>3. /\ mid \in Manager
        /\ mid.modified = old.modified /\ mid.trusted = old.trusted /\ mid.pc = old.pc
        /\ mid.queue = old.queue /\ mid.read = old.read /\ mid.reload = old.reload
        /\ old.errors \subseteq mid.errors
        /\ old.loadError \subseteq old.errors => mid.loadError \subseteq mid.errors
        /\ "global" \in mid.errors \/ mid.mem["global"] = Content("global")
    <3>1. old \in Manager
      BY <2>2
    <3>2. /\ mid \in Manager
          /\ mid.modified = old.modified /\ mid.trusted = old.trusted /\ mid.pc = old.pc
          /\ mid.queue = old.queue /\ mid.read = old.read /\ mid.reload = old.reload
      BY <2>0, <1>s, <3>1, LoadedFields
    <3>3. old.errors \subseteq mid.errors
      BY <2>0, <1>s, <3>1, LoadedFields
    <3>4. old.loadError \subseteq old.errors => mid.loadError \subseteq mid.errors
      BY <2>0, <1>s, <3>1, LoadedFields
    <3>5. "global" \in mid.errors \/ mid.mem["global"] = Content("global")
      BY <2>0, <1>s, <3>1, LoadedFields
    <3>. HIDE DEF mid
    <3>. QED
      BY <3>2, <3>3, <3>4, <3>5
  <2>. HIDE DEF mid
  <2>4. /\ end \in Manager
        /\ end.modified = mid.modified /\ end.trusted = mid.trusted /\ end.pc = mid.pc
        /\ end.queue = mid.queue /\ end.read = mid.read /\ end.reload = mid.reload
        /\ \A t \in Scopes \ {"project"} : end.mem[t] = mid.mem[t]
        /\ mid.errors \subseteq end.errors
        /\ mid.loadError \subseteq mid.errors => end.loadError \subseteq end.errors
        /\ "project" \in end.errors \/ ~mid.trusted \/ end.mem["project"] = Content("project")
    <3>1. mid \in Manager
      BY <2>3
    <3>2. /\ end \in Manager
          /\ end.modified = mid.modified /\ end.trusted = mid.trusted /\ end.pc = mid.pc
          /\ end.queue = mid.queue /\ end.read = mid.read /\ end.reload = mid.reload
      BY <2>0, <1>s, <3>1, LoadedFields
    <3>3. mid.errors \subseteq end.errors
      BY <2>0, <1>s, <3>1, LoadedFields
    <3>4. mid.loadError \subseteq mid.errors => end.loadError \subseteq end.errors
      BY <2>0, <1>s, <3>1, LoadedFields
    <3>5. "project" \in end.errors \/ ~mid.trusted \/ end.mem["project"] = Content("project")
      BY <2>0, <1>s, <3>1, LoadedFields
    <3>6. \A t \in Scopes \ {"project"} : end.mem[t] = mid.mem[t]
      BY <2>0, <1>s, <3>1, LoadedFields
    <3>. HIDE DEF end
    <3>. QED
      BY <3>2, <3>3, <3>4, <3>5, <3>6
  <2>. HIDE DEF end
  <2>5. /\ new \in Manager
        /\ new.mem = end.mem /\ new.trusted = end.trusted /\ new.pc = end.pc
        /\ new.queue = end.queue /\ new.read = end.read /\ new.reload = end.reload
        /\ new.loadError = end.loadError /\ new.errors = end.errors
        /\ \A s \in Scopes : new.modified[s] \subseteq end.modified[s]
    BY <2>4, UnmarkedFields
  <2>. HIDE DEF new
  <2>6. Rereads(p, new)
    BY <1>1, <2>1, <2>2, <2>3, <2>4, <2>5 DEF Rereads, Scopes
  <2>. QED
    BY <1>3, <2>1, <2>5, <2>6 DEF ReloadRuns
<1>4. CASE SetProjectTrusted(p)
  <2> DEFINE old == [proc[p] EXCEPT !.trusted = ~@]
             end == Loaded(old, "project", Unset)
             new == Unmarked(end, {"project"})
  <2>1. Is(p, new) /\ (scenario.awaits => proc[p].queue = <<>>)
    BY <1>4 DEF SetProjectTrusted
  <2>2. /\ old \in Manager /\ old.pc = "idle" /\ old.mem = proc[p].mem
        /\ old.modified = proc[p].modified /\ old.loadError = proc[p].loadError
        /\ old.errors = proc[p].errors
        /\ old.queue = proc[p].queue /\ old.read = proc[p].read /\ old.reload = proc[p].reload
    BY <1>1 DEF Manager
  <2>. HIDE DEF old
  <2>3. /\ end \in Manager
        /\ end.modified = old.modified /\ end.trusted = old.trusted /\ end.pc = old.pc
        /\ end.queue = old.queue /\ end.read = old.read /\ end.reload = old.reload
        /\ \A t \in Scopes \ {"project"} : end.mem[t] = old.mem[t]
        /\ old.errors \subseteq end.errors
        /\ old.loadError \subseteq old.errors => end.loadError \subseteq end.errors
        /\ "project" \in end.errors \/ ~old.trusted \/ end.mem["project"] = Content("project")
    <3>1. old \in Manager
      BY <2>2
    <3>2. /\ end \in Manager
          /\ end.modified = old.modified /\ end.trusted = old.trusted /\ end.pc = old.pc
          /\ end.queue = old.queue /\ end.read = old.read /\ end.reload = old.reload
      BY <1>0, <1>s, <3>1, LoadedFields
    <3>3. old.errors \subseteq end.errors
      BY <1>0, <1>s, <3>1, LoadedFields
    <3>4. old.loadError \subseteq old.errors => end.loadError \subseteq end.errors
      BY <1>0, <1>s, <3>1, LoadedFields
    <3>5. "project" \in end.errors \/ ~old.trusted \/ end.mem["project"] = Content("project")
      BY <1>0, <1>s, <3>1, LoadedFields
    <3>6. \A t \in Scopes \ {"project"} : end.mem[t] = old.mem[t]
      BY <1>0, <1>s, <3>1, LoadedFields
    <3>. HIDE DEF end
    <3>. QED
      BY <3>2, <3>3, <3>4, <3>5, <3>6
  <2>. HIDE DEF end
  <2>4. /\ new \in Manager
        /\ new.mem = end.mem /\ new.trusted = end.trusted /\ new.pc = end.pc
        /\ new.queue = end.queue /\ new.read = end.read /\ new.reload = end.reload
        /\ new.loadError = end.loadError /\ new.errors = end.errors
        /\ \A s \in Scopes : new.modified[s] \subseteq end.modified[s]
    BY <2>3, UnmarkedFields
  <2>. HIDE DEF new
  <2>5. Rereads(p, new)
    BY <1>1, <2>1, <2>2, <2>3, <2>4 DEF Rereads, Scopes
  <2>. QED
    BY <1>4, <2>1, <2>4, <2>5 DEF SetProjectTrusted
<1>. QED
  BY <1>2, <1>3, <1>4

\* A setter: memory, the mark and, unless the file could not be loaded, a task.
Puts(p, s, f, value, new) ==
    /\ p <= scenario.procs /\ proc[p].pc = "idle" /\ new.pc = "idle"
    /\ new.read = proc[p].read /\ new.trusted = proc[p].trusted /\ new.errors = proc[p].errors
    /\ new.loadError = proc[p].loadError /\ new.reload = proc[p].reload
    /\ new.mem = [proc[p].mem EXCEPT ![s] = [proc[p].mem[s] EXCEPT ![f] = value]]
    /\ new.modified = [proc[p].modified EXCEPT ![s] = proc[p].modified[s] \union {f}]
    /\ IF s \in proc[p].loadError THEN new.queue = proc[p].queue
       ELSE new.queue = Append(proc[p].queue, [scope |-> s, snapshot |-> new.mem[s],
                                               fields |-> new.modified[s]])
    /\ s = "project" => proc[p].trusted
    /\ scenario.awaits => proc[p].reload = 0
    /\ setters' = [setters EXCEPT ![s] = [setters[s] EXCEPT ![f] = setters[s][f] \union {p}]]
    /\ last' = [last EXCEPT ![s] = [last[s] EXCEPT ![f] = value]]

LEMMA SetEffect ==
    ASSUME TypeInv, NEW p \in Processes, NEW s \in Scopes, NEW f \in Fields, Set(p, s, f)
    PROVE  /\ UNCHANGED <<file, lock>> /\ Uses("sets")
           /\ \E new \in Manager, value \in Nat : Is(p, new) /\ Puts(p, s, f, value, new)
<1> DEFINE value == used.sets + 1
           mem == [proc[p].mem[s] EXCEPT ![f] = value]
           modified == proc[p].modified[s] \union {f}
           task == [scope |-> s, snapshot |-> mem, fields |-> modified]
           queue == IF s \in proc[p].loadError THEN proc[p].queue ELSE Append(proc[p].queue, task)
           new == [proc[p] EXCEPT !.mem[s] = mem, !.modified[s] = modified, !.queue = queue]
<1>1. proc[p] \in Manager /\ value \in Nat
  BY DEF TypeInv, Bounds
<1>2. mem \in Values /\ modified \in SUBSET Fields
  BY <1>1 DEF Manager, Values
<1>3. task \in TaskRecord
  BY <1>2 DEF TaskRecord
<1>. HIDE DEF task, mem, modified, value
<1>4. queue \in Seq(TaskRecord)
  BY <1>1, <1>3 DEF Manager
<1>5. Is(p, new)
  BY DEF Set, queue, task, mem, modified, value
<1>. HIDE DEF queue
<1>6. /\ new \in Manager
      /\ new.mem = [proc[p].mem EXCEPT ![s] = mem]
      /\ new.modified = [proc[p].modified EXCEPT ![s] = modified] /\ new.queue = queue
      /\ new.pc = proc[p].pc /\ new.read = proc[p].read /\ new.trusted = proc[p].trusted
      /\ new.errors = proc[p].errors /\ new.loadError = proc[p].loadError
      /\ new.reload = proc[p].reload
  BY <1>1, <1>2, <1>4 DEF Manager
<1>7. /\ p <= scenario.procs /\ proc[p].pc = "idle" /\ (s = "project" => proc[p].trusted)
      /\ (scenario.awaits => proc[p].reload = 0)
      /\ UNCHANGED <<file, lock>> /\ Uses("sets")
      /\ setters' = [setters EXCEPT ![s][f] = @ \union {p}]
      /\ last' = [last EXCEPT ![s][f] = value]
  BY DEF Set, Idle, value
<1>8. new.mem[s] = mem /\ new.modified[s] = modified
  BY <1>1, <1>6 DEF Manager
<1>. HIDE DEF new
<1>9. Puts(p, s, f, value, new)
  <2>1. /\ new.mem = [proc[p].mem EXCEPT ![s] = [proc[p].mem[s] EXCEPT ![f] = value]]
        /\ new.modified = [proc[p].modified EXCEPT ![s] = proc[p].modified[s] \union {f}]
    BY <1>6 DEF mem, modified
  <2>2. IF s \in proc[p].loadError THEN new.queue = proc[p].queue
        ELSE new.queue = Append(proc[p].queue, [scope |-> s, snapshot |-> new.mem[s],
                                                fields |-> new.modified[s]])
    BY <1>6, <1>8 DEF queue, task
  <2>3. /\ setters' = [setters EXCEPT ![s] = [setters[s] EXCEPT ![f] = setters[s][f] \union {p}]]
        /\ last' = [last EXCEPT ![s] = [last[s] EXCEPT ![f] = value]]
    BY <1>7
  <2>. QED
    BY <1>6, <1>7, <2>1, <2>2, <2>3 DEF Puts
<1>. QED
  BY <1>1, <1>5, <1>6, <1>7, <1>9

\* A step of a process changes its manager and no other.
LEMMA IsType ==
    ASSUME TypeInv, NEW p \in Processes, NEW new \in Manager, Is(p, new)
    PROVE  /\ proc' \in [Processes -> Manager] /\ proc'[p] = new
           /\ \A q \in Processes \ {p} : proc'[q] = proc[q]
BY DEF TypeInv, Is

\* Bounds are counted up to the bound.
LEMMA UsesType ==
    ASSUME TypeInv, UNCHANGED scenario, UNCHANGED used \/ (\E b \in Bounds : Uses(b))
    PROVE  used' \in [Bounds -> Nat] /\ \A b \in Bounds : used'[b] <= scenario'[b]
<1>1. \A b \in Bounds : scenario[b] \in Nat
  BY SettingsAssumption DEF TypeInv, Bounds
<1>. QED
  BY SMTT(20), <1>1 DEF TypeInv, Uses

\* A hand edit, or a misedit, of a file that no task is under way on.
Edits(s) ==
    /\ NoTaskOn(s) /\ s \in Scopes /\ Uses("edits") /\ UNCHANGED <<lock, proc, last>>
    /\ \E content \in Values \union {Bad} : file' = [file EXCEPT ![s] = content]
    /\ \E edited \in SUBSET Fields :
          /\ setters' = [setters EXCEPT ![s] = [f \in Fields |->
                            IF f \in edited THEN setters[s][f] \union {None} ELSE setters[s][f]]]
          /\ \A f \in Fields \ edited : file'[s] # Bad /\ file'[s][f] = Content(s)[f]

LEMMA EditEffect ==
    ASSUME TypeInv, NEW s \in Scopes, Misedit(s) \/ \E f \in Fields : Edit(s, f)
    PROVE  Edits(s)
<1>1. /\ NoTaskOn(s) /\ Uses("edits") /\ UNCHANGED <<lock, proc, last>>
      /\ file \in [Scopes -> Values \union {None, Bad}] /\ Content(s) \in Values
      /\ setters \in [Scopes -> [Fields -> SUBSET (Processes \union {None})]]
  BY ContentType DEF Misedit, Edit, TypeInv
<1>2. CASE Misedit(s)
  <2>1. /\ file' = [file EXCEPT ![s] = Bad]
        /\ setters' = [setters EXCEPT ![s] = [f \in Fields |-> setters[s][f] \union {None}]]
    BY <1>2 DEF Misedit
  <2>2. [f \in Fields |-> setters[s][f] \union {None}]
           = [f \in Fields |-> IF f \in Fields THEN setters[s][f] \union {None} ELSE setters[s][f]]
    OBVIOUS
  <2>. QED
    BY <1>1, <2>1, <2>2 DEF Edits
<1>3. ASSUME NEW f \in Fields, Edit(s, f)
      PROVE  Edits(s)
  <2> DEFINE value == scenario.sets + used.edits + 1
             content == [Content(s) EXCEPT ![f] = value]
  <2>1. file' = [file EXCEPT ![s] = content]
    BY <1>3 DEF Edit
  <2>2. value \in Nat
    BY SettingsAssumption DEF TypeInv, Bounds
  <2>. HIDE DEF value
  <2>3. content \in Values /\ \A g \in Fields \ {f} : content[g] = Content(s)[g]
    BY <1>1, <2>2 DEF Values
  <2>4. setters' = [setters EXCEPT ![s] = [g \in Fields |->
                       IF g \in {f} THEN setters[s][g] \union {None} ELSE setters[s][g]]]
    <3>1. setters' = [setters EXCEPT ![s] = [setters[s] EXCEPT ![f] = setters[s][f] \union {None}]]
      BY <1>3 DEF Edit
    <3>2. [setters[s] EXCEPT ![f] = setters[s][f] \union {None}]
             = [g \in Fields |-> IF g \in {f} THEN setters[s][g] \union {None} ELSE setters[s][g]]
      BY <1>1
    <3>. QED
      BY <3>1, <3>2
  <2>. HIDE DEF content
  <2>5. file'[s] = content /\ content # Bad
    BY <1>1, <2>1, <2>3, SettingsAssumption DEF Values
  <2>. QED
    BY <1>1, <2>1, <2>3, <2>4, <2>5 DEF Edits
<1>. QED
  BY <1>2, <1>3

\* Every step is one of these.
LEMMA StepEffect ==
    ASSUME TypeInv, Next
    PROVE  /\ UNCHANGED scenario
           /\ \/ \E p \in Processes : TaskStep(p)
              \/ \E p \in Processes : Reload(p) \/ ReloadRuns(p) \/ SetProjectTrusted(p)
              \/ \E p \in Processes, s \in Scopes, f \in Fields : Set(p, s, f)
              \/ \E s \in Scopes : Edits(s)
BY EditEffect DEF Next

(***************************************************************************)
(* Type correctness                                                        *)
(***************************************************************************)
LEMMA TypeStep ==
    ASSUME TypeInv, Next
    PROVE  TypeInv'
<1>1. UNCHANGED scenario
  BY StepEffect
<1>2. ASSUME NEW p \in Processes, NEW new \in Manager, Is(p, new),
             new.pc # "idle" => new.queue # <<>> /\ p <= scenario.procs
      PROVE  /\ proc' \in [Processes -> Manager]
             /\ \A q \in Processes :
                    proc'[q].pc # "idle" => proc'[q].queue # <<>> /\ q <= scenario'.procs
  BY <1>1, <1>2, IsType DEF TypeInv
<1>3. ASSUME NEW p \in Processes, TaskStep(p)
      PROVE  TypeInv'
  <2>1. PICK new \in Manager : Is(p, new) /\ (Moves(p, new) \/ Drops(p, new) \/ Saves(p, new))
    BY <1>3, TaskEffect
  <2>2. p <= scenario.procs /\ proc[p].queue # <<>> /\ UNCHANGED <<setters, last>>
    BY <1>3, TaskEffect
  <2>3. Task(p) \in TaskRecord /\ Task(p).scope \in Scopes /\ proc[p] \in Manager
    BY <2>2, TaskType DEF Task, TaskRecord, TypeInv
  <2>4. new.pc # "idle" => new.queue # <<>>
    BY <2>1, <2>2 DEF Moves, Same, Drops, Saves, Pops
  <2>5. file' \in [Scopes -> Values \union {None, Bad}]
    <3>1. Merged(p, Task(p).fields) \in Values
      BY <2>3 DEF Merged, TaskRecord, Manager, Values
    <3>. QED
      BY <2>1, <2>3, <3>1 DEF Moves, Drops, Saves, TypeInv
  <2>6. lock' \in [Scopes -> Processes \union {None}]
    BY <2>1, <2>3 DEF Moves, Drops, Saves, TypeInv
  <2>7. UNCHANGED used \/ \E b \in Bounds : Uses(b)
    BY <2>1 DEF Moves, Drops, Saves, Bounds
  <2>. QED
    BY <1>1, <1>2, <2>1, <2>2, <2>4, <2>5, <2>6, <2>7, UsesType DEF TypeInv
<1>4. ASSUME NEW p \in Processes, Reload(p) \/ ReloadRuns(p) \/ SetProjectTrusted(p)
      PROVE  TypeInv'
  <2>1. PICK new \in Manager : Is(p, new) /\ Rereads(p, new)
    BY <1>4, RereadEffect
  <2>2. UNCHANGED <<file, lock, setters, last>> /\ (UNCHANGED used \/ \E b \in Bounds : Uses(b))
    BY <1>4, RereadEffect DEF Bounds
  <2>. QED
    BY <1>1, <1>2, <2>1, <2>2, UsesType DEF TypeInv, Rereads
<1>5. ASSUME NEW p \in Processes, NEW s \in Scopes, NEW f \in Fields, Set(p, s, f)
      PROVE  TypeInv'
  <2>1. PICK new \in Manager, value \in Nat : Is(p, new) /\ Puts(p, s, f, value, new)
    BY <1>5, SetEffect
  <2>2. UNCHANGED <<file, lock>> /\ \E b \in Bounds : Uses(b)
    BY <1>5, SetEffect DEF Bounds
  <2>3. setters' \in [Scopes -> [Fields -> SUBSET (Processes \union {None})]]
    BY <2>1 DEF Puts, TypeInv
  <2>4. last' \in [Scopes -> Values]
    BY <2>1 DEF Puts, TypeInv, Values
  <2>. QED
    BY <1>1, <1>2, <2>1, <2>2, <2>3, <2>4, UsesType DEF TypeInv, Puts
<1>6. ASSUME NEW s \in Scopes, Edits(s)
      PROVE  TypeInv'
  <2>1. UNCHANGED <<lock, proc, last>> /\ \E b \in Bounds : Uses(b)
    BY <1>6 DEF Edits, Bounds
  <2>2. file' \in [Scopes -> Values \union {None, Bad}]
    BY <1>6 DEF Edits, TypeInv
  <2>3. setters' \in [Scopes -> [Fields -> SUBSET (Processes \union {None})]]
    BY <1>6 DEF Edits, TypeInv
  <2>. QED
    BY <1>1, <2>1, <2>2, <2>3, UsesType DEF TypeInv
<1>. QED
  BY <1>3, <1>4, <1>5, <1>6, StepEffect

LEMMA TypeStays ==
    ASSUME TypeInv, UNCHANGED vars
    PROVE  TypeInv'
BY DEF TypeInv, vars

LEMMA TypeInit == Init => TypeInv
<1> SUFFICES ASSUME Init
             PROVE  TypeInv
  OBVIOUS
<1>1. Unset \in Values
  BY DEF Unset, Values
<1>2. NewManager \in Manager
  BY <1>1, SettingsAssumption DEF NewManager, Manager, Init, Content, Scopes
<1>3. \A p \in Processes : proc[p] = NewManager
  BY DEF Init
<1>4. NewManager.pc = "idle"
  BY DEF NewManager
<1>5. \A b \in Bounds : used[b] = 0 /\ scenario[b] \in Nat
  BY SettingsAssumption DEF Init, Bounds
<1>6. /\ setters \in [Scopes -> [Fields -> SUBSET (Processes \union {None})]]
      /\ last \in [Scopes -> Values] /\ lock \in [Scopes -> Processes \union {None}]
      /\ file \in [Scopes -> Values \union {None, Bad}] /\ used \in [Bounds -> Nat]
      /\ proc \in [Processes -> Manager]
  BY <1>1, <1>2 DEF Init
<1>. QED
  BY <1>3, <1>4, <1>5, <1>6 DEF TypeInv, Init

(***************************************************************************)
(* The lock                                                                *)
(***************************************************************************)

\* The lock of a scope is held by the process whose task is about to store it.
LockInv ==
    \A s \in Scopes, p \in Processes :
        lock[s] = p <=> proc[p].pc = "storing" /\ Task(p).scope = s

LEMMA LockStep ==
    ASSUME TypeInv, LockInv, Next
    PROVE  LockInv'
<1> USE DEF Task
<1>1. ASSUME NEW p \in Processes, TaskStep(p)
      PROVE  LockInv'
  <2>1. PICK new \in Manager : Is(p, new) /\ (Moves(p, new) \/ Drops(p, new) \/ Saves(p, new))
    BY <1>1, TaskEffect
  <2>2. /\ proc'[p] = new /\ \A q \in Processes \ {p} : proc'[q] = proc[q]
        /\ Task(p).scope \in Scopes /\ None \notin Processes
        /\ lock \in [Scopes -> Processes \union {None}]
    BY <1>1, <2>1, IsType, TaskEffect, TaskType, SettingsAssumption DEF TypeInv, TaskRecord
  <2>3. CASE Moves(p, new)
    <3>1. Task(p)' = Task(p) /\ proc[p].pc # "storing"
      BY <2>2, <2>3 DEF Moves, Same
    <3>2. CASE UNCHANGED lock /\ new.pc # "storing"
      BY <2>2, <3>1, <3>2 DEF LockInv
    <3>3. CASE /\ lock[Task(p).scope] = None /\ lock' = [lock EXCEPT ![Task(p).scope] = p]
               /\ new.pc = "storing"
      BY <2>2, <3>1, <3>3 DEF LockInv
    <3>. QED
      BY <2>3, <3>2, <3>3 DEF Moves
  <2>4. CASE Drops(p, new)
    BY <2>2, <2>4 DEF Drops, Pops, LockInv
  <2>5. CASE Saves(p, new)
    BY <2>2, <2>5 DEF Saves, Pops, LockInv
  <2>. QED
    BY <2>1, <2>3, <2>4, <2>5
<1>2. ASSUME NEW p \in Processes, NEW new \in Manager, Is(p, new),
             proc[p].pc = "idle", new.pc = "idle", UNCHANGED lock
      PROVE  LockInv'
  BY <1>2, IsType DEF LockInv
<1>3. ASSUME NEW p \in Processes, Reload(p) \/ ReloadRuns(p) \/ SetProjectTrusted(p)
      PROVE  LockInv'
  BY <1>2, <1>3, RereadEffect DEF Rereads
<1>4. ASSUME NEW p \in Processes, NEW s \in Scopes, NEW f \in Fields, Set(p, s, f)
      PROVE  LockInv'
  BY <1>2, <1>4, SetEffect DEF Puts
<1>5. ASSUME NEW s \in Scopes, Edits(s)
      PROVE  LockInv'
  BY <1>5 DEF Edits, LockInv
<1>. QED
  BY <1>1, <1>3, <1>4, <1>5, StepEffect

LEMMA LockInit == Init => LockInv
<1> SUFFICES ASSUME Init, NEW s \in Scopes, NEW p \in Processes
             PROVE  lock[s] # p /\ proc[p].pc = "idle"
  BY DEF LockInv
<1>. QED
  BY SettingsAssumption DEF Init, NewManager

(***************************************************************************)
(* A process changes nothing but what it was told to change                *)
(***************************************************************************)

\* A file that does not exist is not locked before it is written, so that two
\* processes that write the first file may overwrite each other.
OneWriter == \A p, q \in Processes : p <= scenario.procs /\ q <= scenario.procs => p = q
FilesThere == scenario.present \/ OneWriter

\* What a task that is about to store has read is still in the file; without a file
\* it is nothing, and there still is no file.
ReadInv ==
    /\ scenario.present => \A s \in Scopes : file[s] # None
    /\ \A p \in Processes :
          /\ proc[p].pc = "storing" =>
                file[Task(p).scope] # Bad /\ proc[p].read = Content(Task(p).scope)
          /\ proc[p].pc = "absent" => file[Task(p).scope] = None
          /\ proc[p].pc # "storing" => proc[p].read = Unset

\* A process marks, and has queued, only settings that it was told to change.
MarkInv ==
    \A p \in Processes :
       /\ \A s \in Scopes : \A f \in proc[p].modified[s] : p \in setters[s][f]
       /\ \A i \in DOMAIN proc[p].queue : \A f \in proc[p].queue[i].fields :
              p \in setters[proc[p].queue[i].scope][f]

LEMMA ReadStep ==
    ASSUME TypeInv, LockInv, FilesThere, ReadInv, Next
    PROVE  ReadInv'
<1> USE DEF Task
<1>1. UNCHANGED scenario /\ None # Bad /\ None \notin Values /\ Bad \notin Values
  BY StepEffect, SettingsAssumption DEF Values
<1>2. ASSUME NEW p \in Processes, TaskStep(p)
      PROVE  ReadInv'
  <2>1. PICK new \in Manager : Is(p, new) /\ (Moves(p, new) \/ Drops(p, new) \/ Saves(p, new))
    BY <1>2, TaskEffect
  <2>2. /\ proc'[p] = new /\ \A q \in Processes \ {p} : proc'[q] = proc[q]
        /\ Task(p) \in TaskRecord /\ Task(p).scope \in Scopes /\ p <= scenario.procs
        /\ proc[p] \in Manager
    BY <1>2, <2>1, IsType, TaskEffect, TaskType DEF TypeInv, TaskRecord
  <2>3. CASE Moves(p, new)
    <3>1. new.queue = proc[p].queue /\ proc[p].pc # "storing" /\ UNCHANGED file
      BY <2>3 DEF Moves, Same
    <3>2. Task(p)' = Task(p) /\ \A s \in Scopes : Content(s)' = Content(s)
      BY <2>2, <3>1 DEF Content
    <3>3. proc[p].read = Unset
      BY <3>1 DEF ReadInv
    <3>4. /\ new.pc = "storing" =>
                file[Task(p).scope] # Bad /\ new.read = Content(Task(p).scope)
          /\ new.pc = "absent" => file[Task(p).scope] = None
          /\ new.pc # "storing" => new.read = Unset
      <4>1. CASE new.pc # "storing"
        BY <2>3, <3>3, <4>1 DEF Moves
      <4>2. CASE new.pc = "storing" /\ proc[p].pc = "absent" /\ new.read = proc[p].read
        BY <1>1, <3>3, <4>2 DEF ReadInv, Content
      <4>3. CASE /\ new.pc = "storing" /\ file[Task(p).scope] # Bad
                 /\ new.read = Content(Task(p).scope)
        BY <4>3
      <4>. QED
        BY <2>3, <4>1, <4>2, <4>3 DEF Moves
    <3>5. \A q \in Processes \ {p} : Task(q)' = Task(q)
      BY <2>2
    <3>. HIDE DEF Task
    <3>6. \A q \in Processes \ {p} : proc[q].pc = "storing" => Task(q).scope \in Scopes
      BY TaskType DEF TypeInv, Task, TaskRecord
    <3>. QED
      BY <1>1, <2>2, <3>1, <3>2, <3>4, <3>5, <3>6 DEF ReadInv
  <2>4. CASE Drops(p, new)
    <3>1. new.pc = "idle" /\ new.read = Unset /\ UNCHANGED file
      BY <2>4 DEF Drops, Pops
    <3>. QED
      BY <1>1, <2>2, <3>1 DEF ReadInv, Content
  <2>5. CASE Saves(p, new)
    <3> DEFINE s == Task(p).scope
    <3>1. /\ new.pc = "idle" /\ new.read = Unset /\ proc[p].pc = "storing"
          /\ file' = [file EXCEPT ![s] = Merged(p, Task(p).fields)]
      BY <2>5 DEF Saves, Pops
    <3>2. Merged(p, Task(p).fields) \in Values
      BY <2>2 DEF Merged, TaskRecord, Manager, Values
    <3>3. file'[s] \notin {None, Bad} /\ \A t \in Scopes \ {s} : file'[t] = file[t]
      BY <1>1, <2>2, <3>1, <3>2 DEF TypeInv
    <3>4. ASSUME NEW q \in Processes \ {p}, proc[q].pc \in {"storing", "absent"}
          PROVE  Task(q).scope \in Scopes \ {s}
      <4>1. Task(q).scope \in Scopes
        BY <3>4, TaskType DEF TypeInv, TaskRecord
      <4>2. CASE proc[q].pc = "storing"
        BY <2>2, <3>1, <4>1, <4>2 DEF LockInv
      <4>3. CASE proc[q].pc = "absent"
        <5>1. file[Task(q).scope] = None /\ q <= scenario.procs
          BY <4>3 DEF ReadInv, TypeInv
        <5>. QED
          BY <2>2, <4>1, <5>1 DEF FilesThere, OneWriter, ReadInv
      <4>. QED
        BY <3>4, <4>2, <4>3
    <3>5. \A q \in Processes \ {p} : Task(q)' = Task(q)
      BY <2>2
    <3>6. \A t \in Scopes \ {s} : Content(t)' = Content(t)
      BY <3>3 DEF Content
    <3>7. scenario.present => \A t \in Scopes : file'[t] # None
      BY <3>3 DEF ReadInv
    <3>. HIDE DEF Task, s
    <3>. QED
      BY <1>1, <2>2, <3>1, <3>3, <3>4, <3>5, <3>6, <3>7 DEF ReadInv
  <2>. QED
    BY <2>1, <2>3, <2>4, <2>5
<1>3. ASSUME NEW p \in Processes, NEW new \in Manager, Is(p, new),
             proc[p].pc = "idle", new.pc = "idle", new.read = proc[p].read, UNCHANGED file
      PROVE  ReadInv'
  <2>1. /\ proc'[p] = new /\ \A q \in Processes \ {p} : proc'[q] = proc[q]
    BY <1>3, IsType
  <2>. QED
    BY <1>1, <1>3, <2>1 DEF ReadInv, Content
<1>4. ASSUME NEW p \in Processes, Reload(p) \/ ReloadRuns(p) \/ SetProjectTrusted(p)
      PROVE  ReadInv'
  BY <1>3, <1>4, RereadEffect DEF Rereads
<1>5. ASSUME NEW p \in Processes, NEW s \in Scopes, NEW f \in Fields, Set(p, s, f)
      PROVE  ReadInv'
  BY <1>3, <1>5, SetEffect DEF Puts
<1>6. ASSUME NEW s \in Scopes, Edits(s)
      PROVE  ReadInv'
  <2>1. PICK content \in Values \union {Bad} : file' = [file EXCEPT ![s] = content]
    BY <1>6 DEF Edits
  <2>2. file'[s] # None /\ \A t \in Scopes \ {s} : file'[t] = file[t]
    BY <1>1, <2>1 DEF TypeInv
  <2>3. UNCHANGED proc /\ \A q \in Processes : proc[q].pc # "idle" => Task(q).scope # s
    BY <1>6 DEF Edits, NoTaskOn
  <2>4. \A q \in Processes : proc[q].pc # "idle" => Task(q).scope \in Scopes \ {s}
    BY <2>3, TaskType DEF TypeInv, TaskRecord
  <2>5. \A t \in Scopes \ {s} : Content(t)' = Content(t)
    BY <2>2 DEF Content
  <2>6. scenario.present => \A t \in Scopes : file'[t] # None
    BY <2>2 DEF ReadInv
  <2>7. \A q \in Processes : Task(q)' = Task(q)
    BY <2>3
  <2>. HIDE DEF Task
  <2>. QED
    BY <1>1, <2>2, <2>3, <2>4, <2>5, <2>6, <2>7 DEF ReadInv
<1>. QED
  BY <1>2, <1>4, <1>5, <1>6, StepEffect

LEMMA MarkStep ==
    ASSUME TypeInv, MarkInv, Next
    PROVE  MarkInv'
<1>1. ASSUME NEW p \in Processes, TaskStep(p)
      PROVE  MarkInv'
  <2>1. PICK new \in Manager : Is(p, new) /\ (Moves(p, new) \/ Drops(p, new) \/ Saves(p, new))
    BY <1>1, TaskEffect
  <2>2. /\ proc'[p] = new /\ \A q \in Processes \ {p} : proc'[q] = proc[q]
        /\ proc[p] \in Manager /\ proc[p].queue # <<>> /\ UNCHANGED setters
    BY <1>1, <2>1, IsType, TaskEffect DEF TypeInv
  <2>3. \A s \in Scopes : new.modified[s] \subseteq proc[p].modified[s]
    BY <2>1 DEF Moves, Same, Drops, Saves, Pops
  <2>4. \A i \in DOMAIN new.queue : \E j \in DOMAIN proc[p].queue : new.queue[i] = proc[p].queue[j]
    <3>1. CASE new.queue = proc[p].queue
      BY <3>1
    <3>2. CASE new.queue = Tail(proc[p].queue)
      BY <2>2, <3>2, TaskType DEF Manager
    <3>. QED
      BY <2>1, <3>1, <3>2 DEF Moves, Same, Drops, Saves, Pops
  <2>. QED
    BY <2>2, <2>3, <2>4 DEF MarkInv
<1>2. ASSUME NEW p \in Processes, Reload(p) \/ ReloadRuns(p) \/ SetProjectTrusted(p)
      PROVE  MarkInv'
  <2>1. PICK new \in Manager : Is(p, new) /\ Rereads(p, new)
    BY <1>2, RereadEffect
  <2>2. /\ proc'[p] = new /\ UNCHANGED setters
        /\ \A q \in Processes \ {p} : proc'[q] = proc[q]
    BY <1>2, <2>1, IsType, RereadEffect
  <2>. QED
    BY <2>1, <2>2 DEF MarkInv, Rereads
<1>3. ASSUME NEW p \in Processes, NEW s \in Scopes, NEW f \in Fields, Set(p, s, f)
      PROVE  MarkInv'
  <2>1. PICK new \in Manager, value \in Nat : Is(p, new) /\ Puts(p, s, f, value, new)
    BY <1>3, SetEffect
  <2>2. proc'[p] = new /\ \A q \in Processes \ {p} : proc'[q] = proc[q]
    BY <2>1, IsType
  <2>3. \A t \in Scopes : \A g \in Fields :
           setters[t][g] \subseteq setters'[t][g] /\ p \in setters'[s][f]
    BY <2>1 DEF Puts, TypeInv
  <2>4. \A t \in Scopes : \A g \in new.modified[t] : g \in Fields /\ p \in setters'[t][g]
    BY <2>1, <2>3 DEF Puts, MarkInv, TypeInv, Manager
  <2>5. ASSUME NEW i \in DOMAIN new.queue
        PROVE  \A g \in new.queue[i].fields : p \in setters'[new.queue[i].scope][g]
    <3>1. proc[p].queue \in Seq(TaskRecord)
      BY DEF TypeInv, Manager
    <3>2. CASE i \in DOMAIN proc[p].queue
      <4>1. new.queue = proc[p].queue \/ \E task : new.queue = Append(proc[p].queue, task)
        BY <2>1 DEF Puts
      <4>2. new.queue[i] = proc[p].queue[i] /\ new.queue[i] \in TaskRecord
        BY SMTT(20), <3>1, <3>2, <4>1
      <4>. QED
        BY <2>3, <3>2, <4>2 DEF MarkInv, TaskRecord
    <3>3. CASE i \notin DOMAIN proc[p].queue
      <4>1. new.queue[i] = [scope |-> s, snapshot |-> new.mem[s], fields |-> new.modified[s]]
        BY <2>1, <2>5, <3>1, <3>3 DEF Puts
      <4>. QED
        BY <2>4, <4>1
    <3>. QED
      BY <3>2, <3>3
  <2>6. ASSUME NEW q \in Processes \ {p}, NEW i \in DOMAIN proc[q].queue
        PROVE  proc[q].queue[i] \in TaskRecord
    BY DEF TypeInv, Manager
  <2>7. \A q \in Processes \ {p} : proc[q].modified \in [Scopes -> SUBSET Fields]
    BY DEF TypeInv, Manager
  <2>. QED
    BY <2>2, <2>3, <2>4, <2>5, <2>6, <2>7 DEF MarkInv, TaskRecord
<1>4. ASSUME NEW s \in Scopes, Edits(s)
      PROVE  MarkInv'
  <2>1. \A t \in Scopes : \A g \in Fields : setters[t][g] \subseteq setters'[t][g]
    BY <1>4 DEF Edits, TypeInv
  <2>2. UNCHANGED proc
    BY <1>4 DEF Edits
  <2>3. \A q \in Processes : /\ \A i \in DOMAIN proc[q].queue : proc[q].queue[i] \in TaskRecord
                             /\ proc[q].modified \in [Scopes -> SUBSET Fields]
    BY DEF TypeInv, Manager
  <2>. QED
    BY <2>1, <2>2, <2>3 DEF MarkInv, TaskRecord
<1>. QED
  BY <1>1, <1>2, <1>3, <1>4, StepEffect

\* A process changes nothing in a file but settings it was told to change; a file
\* that cannot be parsed is left to the user.
LEMMA OthersStep ==
    ASSUME TypeInv, LockInv, ReadInv, MarkInv, [Next]_vars, NEW s \in Scopes
    PROVE  /\ file[s] = Bad => file'[s] = Bad \/ HandEdit
           /\ \A f \in Fields :
                 Content(s)[f] # Content(s)'[f] =>
                    HandEdit \/ (\E p \in Processes : Stores(p) /\ p \in setters[s][f])
<1>1. CASE UNCHANGED file
  BY <1>1 DEF Content
<1>2. ASSUME NEW p \in Processes, TaskStep(p), file' # file
      PROVE  \/ file'[s] = file[s]
             \/ /\ file[s] # Bad
                /\ \A f \in Fields :
                      Content(s)[f] # Content(s)'[f] => Stores(p) /\ p \in setters[s][f]
  <2>1. PICK new \in Manager : Is(p, new) /\ Saves(p, new)
    BY <1>2, TaskEffect DEF Moves, Drops
  <2>2. /\ proc'[p] = new /\ Task(p) \in TaskRecord /\ proc[p].queue # <<>>
        /\ proc[p].queue[1] = Task(p) /\ 1 \in DOMAIN proc[p].queue /\ proc[p] \in Manager
    <3>1. proc'[p] = new /\ proc[p].queue # <<>> /\ proc[p] \in Manager
      BY <1>2, <2>1, IsType, TaskEffect DEF TypeInv
    <3>2. Task(p) \in TaskRecord /\ Len(proc[p].queue) \in Nat \ {0}
      BY <3>1, TaskType DEF Task
    <3>. QED
      BY <3>1, <3>2 DEF Task, Manager
  <2>3. Stores(p)
    BY <2>1, <2>2 DEF Stores, Saves, Pops
  <2>4. CASE s # Task(p).scope
    BY <2>1, <2>4 DEF Saves, TypeInv
  <2>5. CASE s = Task(p).scope
    <3>1. file[s] # Bad /\ proc[p].read = Content(s)
      BY <2>3, <2>5 DEF ReadInv, Stores
    <3>2. file'[s] = Merged(p, Task(p).fields)
      BY <2>1, <2>5 DEF Saves, TypeInv
    <3>3. Merged(p, Task(p).fields) \in Values
      BY <2>2 DEF Merged, TaskRecord, Manager, Values
    <3>4. Content(s)' = Merged(p, Task(p).fields)
      BY <3>2, <3>3, SettingsAssumption DEF Content, Values
    <3>5. ASSUME NEW f \in Fields, Content(s)[f] # Merged(p, Task(p).fields)[f]
          PROVE  f \in Task(p).fields
      BY <3>1, <3>5 DEF Merged
    <3>. QED
      BY <2>2, <2>3, <2>5, <3>1, <3>4, <3>5 DEF MarkInv
  <2>. QED
    BY <2>4, <2>5
<1>3. ASSUME NEW t \in Scopes, Edits(t)
      PROVE  HandEdit
  BY <1>3 DEF Edits, Uses, HandEdit, TypeInv, Bounds
<1>4. CASE Next
  <2>1. CASE file' = file
    BY <1>1, <2>1
  <2>2. CASE file' # file
    BY <1>2, <1>3, <1>4, <2>2, StepEffect, RereadEffect, SetEffect DEF Content
  <2>. QED
    BY <2>1, <2>2
<1>. QED
  BY <1>1, <1>4 DEF vars

\* "Preserves externally added settings", also of a file that another process or the
\* user changes at the same time.
THEOREM OthersKeptHolds == Spec /\ FilesThere => OthersKept
<1> DEFINE I == TypeInv /\ LockInv /\ FilesThere /\ ReadInv /\ MarkInv
<1>1. Init /\ FilesThere => I
  <2> SUFFICES ASSUME Init, FilesThere
               PROVE  ReadInv /\ MarkInv
    BY TypeInit, LockInit
  <2>1. \A p \in Processes : /\ proc[p].pc = "idle" /\ proc[p].read = Unset /\ proc[p].queue = <<>>
                             /\ \A s \in Scopes : proc[p].modified[s] = {}
    BY DEF Init, NewManager
  <2>2. scenario.present => \A s \in Scopes : file[s] # None
    BY SettingsAssumption DEF Init, Unset
  <2>. QED
    BY <2>1, <2>2 DEF ReadInv, MarkInv
<1>2. I /\ [Next]_vars => I'
  <2>1. I /\ Next => I'
    <3>1. FilesThere /\ Next => FilesThere'
      BY DEF FilesThere, OneWriter, Next
    <3>. QED
      BY <3>1, TypeStep, LockStep, ReadStep, MarkStep
  <2>2. I /\ UNCHANGED vars => I'
    BY TypeStays DEF LockInv, FilesThere, OneWriter, ReadInv, MarkInv, Content, Task, vars
  <2>. QED
    BY <2>1, <2>2
<1>3. I /\ [Next]_vars =>
         [\A s \in Scopes :
             /\ file[s] = Bad => file'[s] = Bad \/ HandEdit
             /\ \A f \in Fields :
                   Content(s)[f] # Content(s)'[f] =>
                      HandEdit \/ (\E p \in Processes : Stores(p) /\ p \in setters[s][f])]_vars
  BY OthersStep
<1>. QED
  BY <1>1, <1>2, <1>3, PTL DEF Spec, OthersKept

(***************************************************************************)
(* No setting is lost                                                      *)
(***************************************************************************)

\* A reload waits for the whole queue: nothing is set, if it is awaited, before it
\* is done.  A scope that could not be loaded has an error.
ReloadInv ==
    \A p \in Processes : /\ proc[p].loadError \subseteq proc[p].errors
                         /\ proc[p].reload \in {0, Len(proc[p].queue) + 1}

\* The tasks of a manager that are about to write a setting.
Waits(rec, i, s, f) ==
    i \in DOMAIN rec.queue /\ rec.queue[i].scope = s /\ f \in rec.queue[i].fields

\* A setting, of this last value and this content of the file, that only this manager
\* has set is in its memory and, when no task is about to write it, in the file;
\* otherwise the last such task will write it.
Kept(rec, s, f, value, content) ==
    /\ s = "global" \/ rec.trusted => rec.mem[s][f] = value
    /\ \/ (\A i \in DOMAIN rec.queue : ~Waits(rec, i, s, f)) /\ content = value
       \/ \E i \in DOMAIN rec.queue :
             /\ Waits(rec, i, s, f) /\ \A j \in DOMAIN rec.queue : Waits(rec, j, s, f) => j <= i
             /\ rec.queue[i].snapshot[f] = value

KeptInv ==
    \A p \in Processes, s \in Scopes, f \in Fields :
        setters[s][f] = {p} /\ s \notin proc[p].errors =>
            Kept(proc[p], s, f, last[s][f], Content(s)[f])

LEMMA ReloadStep ==
    ASSUME TypeInv, ReloadInv, scenario.awaits, Next
    PROVE  ReloadInv'
<1>1. ASSUME NEW p \in Processes, NEW new \in Manager, Is(p, new),
             new.loadError \subseteq new.errors, new.reload \in {0, Len(new.queue) + 1}
      PROVE  ReloadInv'
  BY <1>1, IsType DEF ReloadInv
<1>2. ASSUME NEW p \in Processes, TaskStep(p)
      PROVE  ReloadInv'
  <2>1. PICK new \in Manager : Is(p, new) /\ (Moves(p, new) \/ Drops(p, new) \/ Saves(p, new))
    BY <1>2, TaskEffect
  <2>2. /\ proc[p].queue # <<>> /\ proc[p] \in Manager
        /\ proc[p].loadError \subseteq proc[p].errors
        /\ proc[p].reload \in {0, Len(proc[p].queue) + 1}
    BY <1>2, TaskEffect DEF TypeInv, ReloadInv
  <2>3. Len(Tail(proc[p].queue)) = Len(proc[p].queue) - 1 /\ Len(proc[p].queue) \in Nat \ {0}
    BY <2>2, TaskType
  <2>4. new.loadError \subseteq new.errors
    BY <2>1, <2>2 DEF Moves, Same, Drops, Saves, Pops
  <2>5. new.reload \in {0, Len(new.queue) + 1}
    <3>1. CASE Moves(p, new)
      BY <2>2, <3>1 DEF Moves, Same
    <3>2. CASE Pops(proc[p], new)
      BY <2>2, <2>3, <3>2 DEF Pops
    <3>. QED
      BY <2>1, <3>1, <3>2 DEF Drops, Saves
  <2>. QED
    BY <1>1, <2>1, <2>4, <2>5
<1>3. ASSUME NEW p \in Processes, Reload(p) \/ ReloadRuns(p) \/ SetProjectTrusted(p)
      PROVE  ReloadInv'
  <2>1. PICK new \in Manager : Is(p, new) /\ Rereads(p, new)
    BY <1>3, RereadEffect
  <2>2. new.loadError \subseteq new.errors /\ new.reload \in {0, Len(new.queue) + 1}
    BY <2>1 DEF Rereads, ReloadInv
  <2>. QED
    BY <1>1, <2>1, <2>2
<1>4. ASSUME NEW p \in Processes, NEW s \in Scopes, NEW f \in Fields, Set(p, s, f)
      PROVE  ReloadInv'
  <2>1. PICK new \in Manager, value \in Nat : Is(p, new) /\ Puts(p, s, f, value, new)
    BY <1>4, SetEffect
  <2>2. new.loadError \subseteq new.errors /\ new.reload = 0
    BY <2>1 DEF Puts, ReloadInv
  <2>. QED
    BY <1>1, <2>1, <2>2
<1>5. ASSUME NEW s \in Scopes, Edits(s)
      PROVE  ReloadInv'
  BY <1>5 DEF Edits, ReloadInv
<1>. QED
  BY <1>2, <1>3, <1>4, <1>5, StepEffect

\* The end of a task that was not about to write the setting.
LEMMA KeptAfterOther ==
    ASSUME NEW rec \in Manager, rec.queue # <<>>, NEW new \in Manager, Pops(rec, new),
           NEW s \in Scopes, NEW f \in Fields, NEW value, NEW content,
           Kept(rec, s, f, value, content), ~Waits(rec, 1, s, f)
    PROVE  Kept(new, s, f, value, content)
<1>1. /\ new.queue = Tail(rec.queue) /\ new.mem = rec.mem /\ new.trusted = rec.trusted
      /\ Len(rec.queue) \in Nat \ {0} /\ rec.queue \in Seq(TaskRecord)
  BY TaskType DEF Pops, Manager
<1>2. /\ DOMAIN new.queue = 1..(Len(rec.queue) - 1) /\ DOMAIN rec.queue = 1..Len(rec.queue)
      /\ \A i \in DOMAIN new.queue : new.queue[i] = rec.queue[i + 1]
  BY <1>1
<1>3. \A i \in DOMAIN new.queue : Waits(new, i, s, f) <=> Waits(rec, i + 1, s, f)
  BY <1>1, <1>2 DEF Waits
<1>4. CASE (\A i \in DOMAIN rec.queue : ~Waits(rec, i, s, f)) /\ content = value
  <2>1. \A i \in DOMAIN new.queue : ~Waits(new, i, s, f)
    BY <1>1, <1>2, <1>3, <1>4
  <2>. QED
    BY <1>1, <1>4, <2>1 DEF Kept
<1>5. CASE \E i \in DOMAIN rec.queue :
              /\ Waits(rec, i, s, f) /\ \A j \in DOMAIN rec.queue : Waits(rec, j, s, f) => j <= i
              /\ rec.queue[i].snapshot[f] = value
  <2>1. PICK i \in DOMAIN rec.queue :
              /\ Waits(rec, i, s, f) /\ \A j \in DOMAIN rec.queue : Waits(rec, j, s, f) => j <= i
              /\ rec.queue[i].snapshot[f] = value
    BY <1>5
  <2>2. i # 1 /\ i - 1 \in DOMAIN new.queue /\ i \in Nat /\ new.queue[i - 1] = rec.queue[i]
    BY <1>1, <1>2, <2>1
  <2>3. Waits(new, i - 1, s, f) /\ \A j \in DOMAIN new.queue : Waits(new, j, s, f) => j <= i - 1
    <3>1. (i - 1) + 1 = i
      BY <2>1, <2>2
    <3>2. Waits(new, i - 1, s, f)
      BY <1>3, <3>1, <2>1, <2>2
    <3>3. ASSUME NEW j \in DOMAIN new.queue, Waits(new, j, s, f)
          PROVE  j <= i - 1
      <4>1. Waits(rec, j + 1, s, f) /\ j + 1 \in DOMAIN rec.queue /\ j \in Nat
        BY <1>1, <1>2, <1>3, <3>3
      <4>. QED
        BY <4>1, <2>1, <2>2
    <3>. QED
      BY <3>2, <3>3
  <2>4. new.queue[i - 1].snapshot[f] = value
    BY <2>1, <2>2
  <2>. QED
    BY <1>1, <2>2, <2>3, <2>4 DEF Kept
<1>. QED
  BY <1>4, <1>5 DEF Kept

\* The end of a task that has written the setting.
LEMMA KeptAfterWrite ==
    ASSUME NEW rec \in Manager, rec.queue # <<>>, NEW new \in Manager, Pops(rec, new),
           NEW s \in Scopes, NEW f \in Fields, NEW value, NEW content,
           Kept(rec, s, f, value, content), Waits(rec, 1, s, f)
    PROVE  Kept(new, s, f, value, rec.queue[1].snapshot[f])
<1>1. /\ new.queue = Tail(rec.queue) /\ new.mem = rec.mem /\ new.trusted = rec.trusted
      /\ Len(rec.queue) \in Nat \ {0} /\ rec.queue \in Seq(TaskRecord)
  BY TaskType DEF Pops, Manager
<1>2. /\ DOMAIN new.queue = 1..(Len(rec.queue) - 1) /\ DOMAIN rec.queue = 1..Len(rec.queue)
      /\ \A i \in DOMAIN new.queue : new.queue[i] = rec.queue[i + 1]
  BY <1>1
<1>3. \A i \in DOMAIN new.queue : Waits(new, i, s, f) <=> Waits(rec, i + 1, s, f)
  BY <1>1, <1>2 DEF Waits
<1>4. PICK i \in DOMAIN rec.queue :
              /\ Waits(rec, i, s, f) /\ \A j \in DOMAIN rec.queue : Waits(rec, j, s, f) => j <= i
              /\ rec.queue[i].snapshot[f] = value
  <2>1. 1 \in DOMAIN rec.queue
    BY <1>1, <1>2
  <2>. QED
    BY <2>1 DEF Kept
<1>5. CASE i = 1
  <2>1. \A j \in DOMAIN new.queue : ~Waits(new, j, s, f)
    BY SMTT(20), <1>1, <1>2, <1>3, <1>4, <1>5
  <2>2. rec.queue[1].snapshot[f] = value
    BY <1>4, <1>5
  <2>. QED
    BY <1>1, <2>1, <2>2 DEF Kept
<1>6. CASE i # 1
  <2>1. i - 1 \in DOMAIN new.queue /\ i \in Nat /\ new.queue[i - 1] = rec.queue[i]
    BY <1>1, <1>2, <1>4, <1>6
  <2>2. Waits(new, i - 1, s, f) /\ \A j \in DOMAIN new.queue : Waits(new, j, s, f) => j <= i - 1
    <3>1. (i - 1) + 1 = i
      BY <1>4, <2>1
    <3>2. Waits(new, i - 1, s, f)
      BY <1>3, <3>1, <1>4, <2>1
    <3>3. ASSUME NEW j \in DOMAIN new.queue, Waits(new, j, s, f)
          PROVE  j <= i - 1
      <4>1. Waits(rec, j + 1, s, f) /\ j + 1 \in DOMAIN rec.queue /\ j \in Nat
        BY <1>1, <1>2, <1>3, <3>3
      <4>. QED
        BY <4>1, <1>4, <2>1
    <3>. QED
      BY <3>2, <3>3
  <2>3. new.queue[i - 1].snapshot[f] = value
    BY <1>4, <2>1
  <2>. QED
    BY <1>1, <2>1, <2>2, <2>3 DEF Kept
<1>. QED
  BY <1>5, <1>6

\* A task of the process that set the setting.
LEMMA KeptByTask ==
    ASSUME TypeInv, LockInv, ReadInv, NEW p \in Processes, TaskStep(p),
           NEW s \in Scopes, NEW f \in Fields, s \notin proc'[p].errors,
           s \notin proc[p].errors => Kept(proc[p], s, f, last[s][f], Content(s)[f])
    PROVE  Kept(proc'[p], s, f, last[s][f], Content(s)'[f])
<1>1. PICK new \in Manager : Is(p, new) /\ (Moves(p, new) \/ Drops(p, new) \/ Saves(p, new))
  BY TaskEffect
<1>2. /\ proc'[p] = new /\ Task(p) = proc[p].queue[1] /\ Task(p) \in TaskRecord
      /\ proc[p] \in Manager /\ proc[p].queue # <<>> /\ 1 \in DOMAIN proc[p].queue
  <2>1. proc'[p] = new /\ proc[p].queue # <<>> /\ proc[p] \in Manager
    BY <1>1, IsType, TaskEffect DEF TypeInv
  <2>2. Task(p) \in TaskRecord /\ Len(proc[p].queue) \in Nat \ {0}
    BY <2>1, TaskType DEF Task
  <2>. QED
    BY <2>1, <2>2 DEF Task, Manager
<1>3. Kept(proc[p], s, f, last[s][f], Content(s)[f])
  BY SMTT(20), <1>1, <1>2 DEF Moves, Same, Drops, Saves
<1>4. CASE Moves(p, new)
  <2>1. new.queue = proc[p].queue /\ new.mem = proc[p].mem /\ new.trusted = proc[p].trusted
    BY <1>4 DEF Moves, Same
  <2>2. Content(s)' = Content(s)
    BY <1>4 DEF Moves, Content
  <2>. QED
    BY <1>2, <1>3, <2>1, <2>2 DEF Kept, Waits
<1>5. CASE Drops(p, new)
  <2>1. Task(p).scope # s /\ Content(s)' = Content(s) /\ Pops(proc[p], new)
    BY <1>2, <1>5 DEF Drops, Content
  <2>2. ~Waits(proc[p], 1, s, f)
    BY <1>2, <2>1 DEF Waits
  <2>. QED
    BY <1>2, <1>3, <2>1, <2>2, KeptAfterOther
<1>6. CASE Saves(p, new)
  <2>1. /\ Pops(proc[p], new) /\ proc[p].pc = "storing"
        /\ file' = [file EXCEPT ![Task(p).scope] = Merged(p, Task(p).fields)]
    BY <1>6 DEF Saves
  <2>2. CASE Task(p).scope # s
    <3>1. Content(s)' = Content(s)
      BY <2>1, <2>2 DEF Content, TypeInv
    <3>2. ~Waits(proc[p], 1, s, f)
      BY <1>2, <2>2 DEF Waits
    <3>. QED
      BY <1>2, <1>3, <2>1, <3>1, <3>2, KeptAfterOther
  <2>3. CASE Task(p).scope = s
    <3>1. Merged(p, Task(p).fields) \in Values
      BY <1>2 DEF Merged, TaskRecord, Manager, Values
    <3>2. file'[s] = Merged(p, Task(p).fields)
      BY <2>1, <2>3 DEF TypeInv
    <3>3. Content(s)' = Merged(p, Task(p).fields)
      BY <3>1, <3>2, SettingsAssumption DEF Content, Values
    <3>4. CASE f \in Task(p).fields
      <4>1. Content(s)'[f] = proc[p].queue[1].snapshot[f] /\ Waits(proc[p], 1, s, f)
        BY <1>2, <2>3, <3>3, <3>4 DEF Merged, Waits
      <4>2. Kept(new, s, f, last[s][f], proc[p].queue[1].snapshot[f])
        BY <1>2, <1>3, <2>1, <4>1, KeptAfterWrite
      <4>. QED
        BY <1>2, <4>1, <4>2
    <3>5. CASE f \notin Task(p).fields
      <4>1. Content(s)'[f] = proc[p].read[f]
        BY <3>3, <3>5 DEF Merged
      <4>2. proc[p].read = Content(s)
        BY <2>1, <2>3 DEF ReadInv
      <4>3. ~Waits(proc[p], 1, s, f)
        BY <1>2, <3>5 DEF Waits
      <4>. QED
        BY <1>2, <1>3, <2>1, <4>1, <4>2, <4>3, KeptAfterOther
    <3>. QED
      BY <3>4, <3>5
  <2>. QED
    BY <2>2, <2>3
<1>. QED
  BY <1>1, <1>4, <1>5, <1>6

\* The setter itself.
LEMMA KeptBySetter ==
    ASSUME TypeInv, ReloadInv, NEW p \in Processes, NEW s \in Scopes, NEW f \in Fields,
           NEW value \in Nat, NEW new \in Manager, Puts(p, s, f, value, new), s \notin new.errors
    PROVE  Kept(new, s, f, value, Content(s)[f])
<1> DEFINE task == [scope |-> s, snapshot |-> new.mem[s], fields |-> new.modified[s]]
<1>1. proc[p] \in Manager /\ proc[p].queue \in Seq(TaskRecord)
  BY DEF TypeInv, Manager
<1>2. new.mem[s][f] = value /\ f \in new.modified[s]
  BY <1>1 DEF Puts, Manager, Values
<1>3. new.queue = Append(proc[p].queue, task)
  BY DEF Puts, ReloadInv
<1>4. task.scope = s /\ f \in task.fields /\ task.snapshot[f] = value
  BY <1>2
<1>. HIDE DEF task
<1>5. Len(proc[p].queue) + 1 \in DOMAIN new.queue /\ new.queue[Len(proc[p].queue) + 1] = task
  BY <1>1, <1>3
<1>6. \A j \in DOMAIN new.queue : j <= Len(proc[p].queue) + 1
  BY <1>1, <1>3
<1>7. Waits(new, Len(proc[p].queue) + 1, s, f)
  BY <1>4, <1>5 DEF Waits
<1>. QED
  BY <1>2, <1>4, <1>5, <1>6, <1>7 DEF Kept

\* A setter of another setting.
LEMMA KeptByOtherSetter ==
    ASSUME TypeInv, ReloadInv, NEW p \in Processes, NEW t \in Scopes, NEW g \in Fields,
           NEW value \in Nat, NEW new \in Manager, Puts(p, t, g, value, new),
           NEW s \in Scopes, NEW f \in Fields, <<s, f>> # <<t, g>>, s \notin new.errors,
           NEW kept, NEW content, Kept(proc[p], s, f, kept, content)
    PROVE  Kept(new, s, f, kept, content)
<1> DEFINE task == [scope |-> t, snapshot |-> new.mem[t], fields |-> new.modified[t]]
<1>1. proc[p] \in Manager /\ proc[p].queue \in Seq(TaskRecord)
  BY DEF TypeInv, Manager
<1>2. new.mem[s][f] = proc[p].mem[s][f] /\ new.trusted = proc[p].trusted
  <2>1. CASE s # t
    BY <1>1, <2>1 DEF Puts, Manager
  <2>2. CASE s = t /\ f # g
    BY <1>1, <2>2 DEF Puts, Manager, Values
  <2>. QED
    BY <2>1, <2>2 DEF Puts
<1>3. new.queue = proc[p].queue \/ new.queue = Append(proc[p].queue, task)
  BY DEF Puts
<1>4. s = "global" \/ new.trusted => new.mem[s][f] = kept
  BY <1>2 DEF Kept
<1>5. CASE new.queue = proc[p].queue
  BY <1>4, <1>5 DEF Kept, Waits
<1>6. CASE new.queue = Append(proc[p].queue, task)
  <2>1. task.scope = t /\ task.fields = new.modified[t] /\ task.snapshot = new.mem[t]
    OBVIOUS
  <2>. HIDE DEF task
  <2>2. /\ Len(proc[p].queue) + 1 \in DOMAIN new.queue
        /\ new.queue[Len(proc[p].queue) + 1] = task
        /\ \A i \in DOMAIN proc[p].queue : i \in DOMAIN new.queue /\ new.queue[i] = proc[p].queue[i]
        /\ \A j \in DOMAIN new.queue : /\ j \in Nat /\ j <= Len(proc[p].queue) + 1
                                       /\ j \in DOMAIN proc[p].queue \/ j = Len(proc[p].queue) + 1
    BY <1>1, <1>6
  <2>3. CASE t = s /\ f \in task.fields
    <3>1. task.snapshot[f] = kept
      <4>1. s = "project" => proc[p].trusted
        BY <2>3 DEF Puts
      <4>. QED
        BY <1>2, <1>4, <2>1, <2>3, <4>1 DEF Scopes
    <3>2. Waits(new, Len(proc[p].queue) + 1, s, f)
      BY <2>1, <2>2, <2>3 DEF Waits
    <3>. QED
      BY <1>4, <2>2, <3>1, <3>2 DEF Kept
  <2>4. CASE ~(t = s /\ f \in task.fields)
    <3>1. ~Waits(new, Len(proc[p].queue) + 1, s, f)
      BY <2>1, <2>2, <2>4 DEF Waits
    <3>2. \A i \in DOMAIN proc[p].queue : Waits(new, i, s, f) <=> Waits(proc[p], i, s, f)
      BY <2>2 DEF Waits
    <3>3. \A j \in DOMAIN new.queue : Waits(new, j, s, f) => j \in DOMAIN proc[p].queue
      BY <2>2, <3>1
    <3>4. CASE (\A i \in DOMAIN proc[p].queue : ~Waits(proc[p], i, s, f)) /\ content = kept
      BY <1>4, <3>2, <3>3, <3>4 DEF Kept
    <3>5. ASSUME NEW i \in DOMAIN proc[p].queue, Waits(proc[p], i, s, f),
                 \A j \in DOMAIN proc[p].queue : Waits(proc[p], j, s, f) => j <= i,
                 proc[p].queue[i].snapshot[f] = kept
          PROVE  Kept(new, s, f, kept, content)
      <4>1. \A j \in DOMAIN new.queue : Waits(new, j, s, f) => j <= i
        BY <3>2, <3>3, <3>5
      <4>2. i \in DOMAIN new.queue /\ Waits(new, i, s, f) /\ new.queue[i].snapshot[f] = kept
        BY <2>2, <3>2, <3>5
      <4>. QED
        BY <1>4, <4>1, <4>2 DEF Kept
    <3>. QED
      BY <3>4, <3>5 DEF Kept
  <2>. QED
    BY <2>3, <2>4
<1>. QED
  BY <1>3, <1>5, <1>6

LEMMA KeptStep ==
    ASSUME TypeInv, LockInv, ReadInv, MarkInv, ReloadInv, scenario.awaits, KeptInv, Next
    PROVE  KeptInv'
<1> SUFFICES ASSUME NEW q \in Processes, NEW s \in Scopes, NEW f \in Fields,
                    setters'[s][f] = {q}, s \notin proc'[q].errors
             PROVE  Kept(proc'[q], s, f, last'[s][f], Content(s)'[f])
  BY DEF KeptInv
<1>1. ASSUME setters[s][f] = {q}, proc'[q] = proc[q], last'[s][f] = last[s][f],
             Content(s)'[f] = Content(s)[f]
      PROVE  Kept(proc'[q], s, f, last'[s][f], Content(s)'[f])
  BY <1>1 DEF KeptInv
<1>2. ASSUME NEW p \in Processes, TaskStep(p)
      PROVE  Kept(proc'[q], s, f, last'[s][f], Content(s)'[f])
  <2>1. PICK new \in Manager : Is(p, new) /\ (Moves(p, new) \/ Drops(p, new) \/ Saves(p, new))
    BY <1>2, TaskEffect
  <2>2. setters[s][f] = {q} /\ last' = last
    BY <1>2, TaskEffect
  <2>3. CASE q = p
    <3>1. s \notin proc[q].errors => Kept(proc[q], s, f, last[s][f], Content(s)[f])
      BY <2>2 DEF KeptInv
    <3>. QED
      BY <1>2, <2>2, <2>3, <3>1, KeptByTask
  <2>4. CASE q # p
    <3>1. proc'[q] = proc[q]
      BY <2>1, <2>4, IsType
    <3>2. Content(s)'[f] = Content(s)[f]
      <4>1. CASE UNCHANGED file
        BY <4>1 DEF Content
      <4>2. CASE Stores(p) \/ ~UNCHANGED file
        <5>1. p \notin setters[s][f] /\ ~HandEdit
          BY <1>2, <2>1, <2>2, <2>4, <4>2 DEF HandEdit, Moves, Drops, Saves, Uses, TypeInv, Bounds
        <5>2. \A r \in Processes : Stores(r) => r = p
          BY <2>1, IsType DEF Stores
        <5>. QED
          BY <5>1, <5>2, OthersStep
      <4>. QED
        BY <4>1, <4>2
    <3>. QED
      BY <1>1, <2>2, <3>1, <3>2
  <2>. QED
    BY <2>3, <2>4
<1>3. ASSUME NEW p \in Processes, Reload(p) \/ ReloadRuns(p) \/ SetProjectTrusted(p)
      PROVE  Kept(proc'[q], s, f, last'[s][f], Content(s)'[f])
  <2>1. PICK new \in Manager : Is(p, new) /\ Rereads(p, new)
    BY <1>3, RereadEffect
  <2>2. setters[s][f] = {q} /\ last' = last /\ Content(s)' = Content(s)
    BY <1>3, RereadEffect DEF Content
  <2>3. CASE q # p
    BY <1>1, <2>1, <2>2, <2>3, IsType
  <2>4. CASE q = p
    <3>1. proc'[q] = new /\ s \notin new.errors /\ s \notin proc[q].errors
      BY <2>1, <2>4, IsType DEF Rereads
    <3>2. Kept(proc[q], s, f, last[s][f], Content(s)[f])
      BY <2>2, <3>1 DEF KeptInv
    <3>3. new.queue = proc[q].queue /\ \A i : Waits(new, i, s, f) <=> Waits(proc[q], i, s, f)
      BY <2>1, <2>4 DEF Rereads, Waits
    <3>4. s = "global" \/ new.trusted => new.mem[s][f] = last[s][f]
      <4>1. CASE new.mem[s] = proc[p].mem[s] /\ (s = "global" \/ new.trusted = proc[p].trusted)
        BY <2>4, <3>2, <4>1 DEF Kept
      <4>2. CASE /\ new.mem[s] = Content(s)
                 /\ proc[p].reload = 1 \/ (scenario.awaits => proc[p].queue = <<>>)
        <5>1. proc[p].queue = <<>>
          <6>1. proc[p].reload \in {0, Len(proc[p].queue) + 1} /\ proc[p].queue \in Seq(TaskRecord)
            BY DEF ReloadInv, TypeInv, Manager
          <6>. QED
            BY <4>2, <6>1
        <5>. QED
          BY <2>4, <3>2, <4>2, <5>1 DEF Kept
      <4>3. CASE s = "project" /\ ~new.trusted
        BY <4>3
      <4>. QED
        BY <2>1, <3>1, <4>1, <4>2, <4>3 DEF Rereads
    <3>. QED
      BY <2>2, <3>1, <3>2, <3>3, <3>4 DEF Kept
  <2>. QED
    BY <2>3, <2>4
<1>4. ASSUME NEW p \in Processes, NEW t \in Scopes, NEW g \in Fields, Set(p, t, g)
      PROVE  Kept(proc'[q], s, f, last'[s][f], Content(s)'[f])
  <2>1. PICK new \in Manager, value \in Nat : Is(p, new) /\ Puts(p, t, g, value, new)
    BY <1>4, SetEffect
  <2>2. Content(s)' = Content(s)
    BY <1>4, SetEffect DEF Content
  <2>3. proc'[p] = new /\ \A r \in Processes \ {p} : proc'[r] = proc[r]
    BY <2>1, IsType
  <2>4. CASE s = t /\ f = g
    <3>1. p \in setters'[s][f] /\ last'[s][f] = value
      BY <2>1, <2>4 DEF Puts, TypeInv, Values
    <3>2. q = p
      BY <3>1
    <3>. QED
      BY <2>1, <2>2, <2>3, <2>4, <3>1, <3>2, KeptBySetter
  <2>5. CASE ~(s = t /\ f = g)
    <3>1. setters[s][f] = {q} /\ last'[s][f] = last[s][f]
      <4>1. CASE s # t
        BY <2>1, <4>1 DEF Puts, TypeInv
      <4>2. CASE s = t /\ f # g
        BY <2>1, <4>2 DEF Puts, TypeInv, Values
      <4>. QED
        BY <2>5, <4>1, <4>2
    <3>2. CASE q # p
      BY <1>1, <2>2, <2>3, <3>1, <3>2
    <3>3. CASE q = p
      <4>1. s \notin new.errors /\ s \notin proc[p].errors
        BY <2>1, <2>3, <3>3 DEF Puts
      <4>2. Kept(proc[p], s, f, last[s][f], Content(s)[f])
        BY <3>1, <3>3, <4>1 DEF KeptInv
      <4>3. Kept(new, s, f, last[s][f], Content(s)[f])
        BY <2>1, <2>5, <4>1, <4>2, KeptByOtherSetter
      <4>. QED
        BY <2>2, <2>3, <3>1, <3>3, <4>3
    <3>. QED
      BY <3>2, <3>3
  <2>. QED
    BY <2>4, <2>5
<1>5. ASSUME NEW t \in Scopes, Edits(t)
      PROVE  Kept(proc'[q], s, f, last'[s][f], Content(s)'[f])
  <2>1. UNCHANGED <<proc, last>> /\ None \notin Processes
    BY <1>5, SettingsAssumption DEF Edits
  <2>2. setters[s][f] = {q} /\ Content(s)'[f] = Content(s)[f]
    <3>1. CASE s # t
      BY <1>5, <3>1 DEF Edits, TypeInv, Content
    <3>2. CASE s = t
      <4>1. PICK edited \in SUBSET Fields :
              /\ setters' = [setters EXCEPT ![t] = [h \in Fields |->
                                IF h \in edited THEN setters[t][h] \union {None} ELSE setters[t][h]]]
              /\ \A h \in Fields \ edited : file'[t] # Bad /\ file'[t][h] = Content(t)[h]
        BY <1>5 DEF Edits
      <4>2. setters'[s][f] = IF f \in edited THEN setters[s][f] \union {None} ELSE setters[s][f]
        BY <3>2, <4>1 DEF TypeInv
      <4>3. f \notin edited
        BY <2>1, <4>2
      <4>4. file'[s] # Bad /\ file'[s][f] = Content(s)[f] /\ file'[s] # None
        BY <1>5, <3>2, <4>1, <4>3, SettingsAssumption DEF Edits, TypeInv, Values
      <4>. QED
        BY <4>2, <4>3, <4>4 DEF Content
    <3>. QED
      BY <3>1, <3>2
  <2>. QED
    BY <1>1, <2>1, <2>2
<1>. QED
  BY <1>2, <1>3, <1>4, <1>5, StepEffect

\* When all writes are done, a setting that only one process has set, and not the
\* user, is in the file as it was set last, and in the memory of that process, unless
\* an error of its scope was recorded.
THEOREM SetIsKeptHolds == Spec /\ FilesThere /\ scenario.awaits => []SetIsKept
<1> DEFINE I == /\ TypeInv /\ LockInv /\ FilesThere /\ ReadInv /\ MarkInv
                /\ scenario.awaits /\ ReloadInv /\ KeptInv
<1>1. Init /\ FilesThere /\ scenario.awaits => I
  <2> SUFFICES ASSUME Init, FilesThere, scenario.awaits
               PROVE  I
    OBVIOUS
  <2>1. \A p \in Processes : /\ proc[p].pc = "idle" /\ proc[p].read = Unset /\ proc[p].queue = <<>>
                             /\ proc[p].reload = 0 /\ proc[p].loadError = {}
                             /\ \A s \in Scopes : proc[p].modified[s] = {}
    BY DEF Init, NewManager
  <2>2. ReadInv
    BY <2>1, SettingsAssumption DEF Init, Unset, ReadInv
  <2>3. MarkInv /\ ReloadInv
    BY <2>1 DEF MarkInv, ReloadInv
  <2>4. KeptInv
    BY DEF Init, KeptInv
  <2>. QED
    BY <2>2, <2>3, <2>4, TypeInit, LockInit
<1>2. I /\ [Next]_vars => I'
  <2>1. I /\ Next => I'
    <3>1. FilesThere /\ scenario.awaits /\ Next => FilesThere' /\ scenario'.awaits
      BY DEF FilesThere, OneWriter, Next
    <3>. QED
      BY <3>1, TypeStep, LockStep, ReadStep, MarkStep, ReloadStep, KeptStep
  <2>2. I /\ UNCHANGED vars => I'
    BY TypeStays DEF LockInv, FilesThere, OneWriter, ReadInv, MarkInv, ReloadInv, KeptInv, Content,
                     Task, vars
  <2>. QED
    BY <2>1, <2>2
<1>3. I => SetIsKept
  <2> SUFFICES ASSUME I, NEW p \in Processes, NEW s \in Scopes, NEW f \in Fields,
                      proc[p].queue = <<>>, setters[s][f] = {p}, s \notin proc[p].errors
               PROVE  /\ Content(s)[f] = last[s][f]
                      /\ s = "global" \/ proc[p].trusted => proc[p].mem[s][f] = last[s][f]
    BY DEF SetIsKept
  <2>. QED
    BY DEF KeptInv, Kept
<1>. QED
  BY <1>1, <1>2, <1>3, PTL DEF Spec
=============================================================================
