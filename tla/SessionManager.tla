--------------------------- MODULE SessionManager ---------------------------
(***************************************************************************)
(* SessionManager (coding-agent, core/session-manager.ts): the session as  *)
(* an append-only tree in memory and the JSONL file it is saved to, with   *)
(* writes that fail and processes that die.                                *)
(*                                                                         *)
(* Every method is synchronous: an action is a whole method.  The file is  *)
(* the sequence of its lines.  A write that is cut short leaves the lines  *)
(* written so far and perhaps a piece of the next one: a torn line, or a   *)
(* whole one without its newline; what is appended next joins that line.   *)
(***************************************************************************)
EXTENDS SessionTree

CONSTANTS
    Scenarios  \* what may happen in a behaviour, as a set of records:
               \*   kinds      the kinds of entries the application appends
               \*   entries    bound: entries created in a session
               \*   failures   bound: writes that fail
               \*   crashes    bound: processes that die
               \*   tears      whether a write cut short may leave a piece of a line
               \*   forks      whether the application forks the session
               \*   navigates  whether the application moves the leaf

ASSUME SessionAssumption ==
    Scenarios \subseteq [kinds : SUBSET Kinds, entries : Nat, failures : Nat, crashes : Nat,
                         tears : BOOLEAN, forks : BOOLEAN, navigates : BOOLEAN]

VARIABLES
    scenario, \* the one of Scenarios that takes place
    up,       \* whether a process has the session open
    entries,  \* fileEntries without the header
    leaf,     \* leafId, 0 for null
    labels,   \* the keys of labelsById, in order
    flushed,  \* whether the entries are in the file
    file,     \* the session file
    saved,    \* the entries whose append returned after they were written
    nextId,   \* generateId: the next id that is in no use
    failures, crashes

memory == <<entries, leaf, labels, flushed>>
vars == <<scenario, up, memory, file, saved, nextId, failures, crashes>>

(***************************************************************************)
(* The file                                                                *)
(***************************************************************************)
Header == Entry(0, 0, "session", 0, {})
Torn == Entry(0, 0, "torn", 0, {})
NoFile == [there |-> FALSE, lines |-> <<>>, end |-> "newline"]

\* A line is appended.  It joins a line that has no newline, and the two
\* together parse as nothing.
PutLine(f, e) ==
    [there |-> TRUE, end |-> "newline",
     lines |-> IF f.end = "newline" THEN Append(f.lines, e)
               ELSE [f.lines EXCEPT ![Len(f.lines)] = Torn]]

PutLines(f, es) ==
    LET put[n \in 0..Len(es)] ==
          IF n = 0 THEN [there |-> TRUE, lines |-> f.lines, end |-> f.end]
          ELSE PutLine(put[n - 1], es[n])
    IN put[Len(es)]

\* A piece of a line is appended: a part of it, or all but the newline.
PutPiece(f, e) ==
    IF f.end = "newline"
    THEN {[PutLine(f, Torn) EXCEPT !.end = "part"], [PutLine(f, e) EXCEPT !.end = "whole"]}
    ELSE {[PutLine(f, e) EXCEPT !.end = "part"]}

\* The files that a write of es leaves when it is cut short.
CutShort(f, es) ==
    LET before == {PutLines(f, SubSeq(es, 1, n)) : n \in 0..(Len(es) - 1)}
        pieces == UNION {PutPiece(PutLines(f, SubSeq(es, 1, n)), es[n + 1]) : n \in 0..(Len(es) - 1)}
    IN {f} \union before \union IF scenario.tears THEN pieces ELSE {}

\* loadEntriesFromFile: malformed lines are skipped; without a header first
\* there is no session.
HasHeader(f) ==
    LET parsed == OfKinds(f.lines, Kinds \union {"session"})
    IN parsed # <<>> /\ parsed[1].kind = "session"
Load(f) ==
    IF HasHeader(f) THEN OfKinds(f.lines, Kinds) ELSE <<>>

(***************************************************************************)
(* Processes                                                               *)
(***************************************************************************)
Forget ==
    /\ entries' = <<>> /\ leaf' = 0 /\ labels' = <<>> /\ flushed' = FALSE

\* The process dies, and what it had in memory is gone.
Die ==
    /\ crashes < scenario.crashes
    /\ crashes' = crashes + 1
    /\ up' = FALSE
    /\ Forget

Init ==
    /\ scenario \in Scenarios
    /\ up = TRUE
    /\ entries = <<>> /\ leaf = 0 /\ labels = <<>> /\ flushed = FALSE
    /\ file = NoFile
    /\ saved = {}
    /\ nextId = 1
    /\ failures = 0 /\ crashes = 0

\* newSession, with a file name of its own; ids are unique within a session.
NewSession ==
    /\ up
    /\ entries # <<>>
    /\ Forget
    /\ file' = NoFile
    /\ saved' = {}
    /\ nextId' = 1
    /\ UNCHANGED <<up, failures, crashes>>

Crash ==
    /\ up
    /\ Die
    /\ UNCHANGED <<file, saved, nextId, failures>>

\* setSessionFile: load the file; start it afresh if it has no header.
Open ==
    /\ ~up
    /\ up' = TRUE
    /\ entries' = Load(file)
    /\ leaf' = LastId(Load(file))
    /\ labels' = LabelsOf(Load(file))
    /\ flushed' = file.there
    /\ file' = IF file.there /\ ~HasHeader(file) THEN PutLines(NoFile, <<Header>>) ELSE file
    /\ UNCHANGED <<saved, nextId, failures, crashes>>

\* forkFrom: a new file with what can be loaded of the old one, then opened.
\* A copy that is cut short leaves the old file as it was.
ForkFrom ==
    /\ ~up /\ scenario.forks
    /\ HasHeader(file)
    /\ up' = TRUE
    /\ entries' = Load(file)
    /\ leaf' = LastId(Load(file))
    /\ labels' = LabelsOf(Load(file))
    /\ flushed' = TRUE
    /\ file' = PutLines(NoFile, <<Header>> \o Load(file))
    /\ UNCHANGED <<saved, nextId, failures, crashes>>

(***************************************************************************)
(* Appending                                                               *)
(***************************************************************************)
\* What _persist writes for e, the last of es: all the entries once there is
\* an answer of the model, nothing before.
ToWrite(es, e) ==
    IF flushed THEN <<e>> ELSE IF HasAssistant(es) THEN <<Header>> \o es ELSE <<>>

\* Mutant: the file of the first flush is opened for appending.
Blocked_Never(es) == FALSE /\ es = <<>>

\* The first flush opens the file with "wx", and throws if it is there.
Blocked(es) == ~flushed /\ HasAssistant(es) /\ file.there

\* Mutant: the first flush writes only the answer.
Persists_Last(es, e) ==
    /\ ~Blocked(es)
    /\ flushed' = (flushed \/ HasAssistant(es))
    /\ file' = CASE ToWrite(es, e) = <<>> -> file
                 [] flushed -> PutLine(file, e)
                 [] OTHER -> PutLines(file, <<Header, e>>)
    /\ saved' = saved \union (IdsOf(ToWrite(es, e)) \ {0})
    /\ UNCHANGED failures

\* _persist returns.
Persists(es, e) ==
    /\ ~Blocked(es)
    /\ flushed' = (flushed \/ HasAssistant(es))
    /\ file' = IF ToWrite(es, e) = <<>> THEN file ELSE PutLines(file, ToWrite(es, e))
    /\ saved' = saved \union (IdsOf(ToWrite(es, e)) \ {0})
    /\ UNCHANGED failures

\* _persist throws: the file is there already, or the write is cut short.
Throws(es, e) ==
    /\ UNCHANGED <<flushed, saved>>
    /\ \/ Blocked(es) /\ UNCHANGED <<file, failures>>
       \/ /\ ~Blocked(es) /\ ToWrite(es, e) # <<>>
          /\ failures < scenario.failures
          /\ failures' = failures + 1
          /\ file' \in CutShort(file, ToWrite(es, e))

\* _appendEntry of a method that puts the entry e at its parent.  Memory
\* changes first; a label counts once the write returned.
AppendEntry(e) ==
    LET es == Append(entries, e)
    IN /\ up /\ nextId <= scenario.entries
       /\ nextId' = nextId + 1
       /\ \/ /\ entries' = es /\ leaf' = e.id
             /\ UNCHANGED <<up, crashes>>
             /\ \/ Persists(es, e) /\ labels' = Relabel(labels, e)
                \/ Throws(es, e) /\ UNCHANGED labels
          \/ /\ Die
             /\ ~Blocked(es) /\ ToWrite(es, e) # <<>>
             /\ file' \in CutShort(file, ToWrite(es, e))
             /\ UNCHANGED <<saved, failures>>

\* The application appends the results of tools only where they belong: after
\* the message that called them.
Fits(kind) ==
    LET said == Messages(Branch(entries, leaf))
    IN kind = "toolResult" =>
         said # <<>> /\ said[Len(said)].kind \in {"call", "toolResult"}

\* appendMessage, appendCustomMessageEntry, and the appends of settings.
AppendPlain(kind) ==
    /\ kind \in scenario.kinds \ {"compaction", "summary", "label", "unlabel"}
    /\ Fits(kind)
    /\ AppendEntry(Entry(nextId, leaf, kind, 0, {}))

\* appendLabelChange: sets or clears the label of an entry.
AppendLabelChange(kind, target) ==
    /\ kind \in scenario.kinds \intersect LabelKinds
    /\ target \in IdsOf(entries)
    /\ AppendEntry(Entry(nextId, leaf, kind, target, {}))

\* prepareCompaction on the current branch, then appendCompaction.
AppendCompaction(over) ==
    LET path == Branch(entries, leaf)
        first == FirstKept(path, BoundaryStart(path), over)
    IN /\ "compaction" \in scenario.kinds
       /\ path # <<>> /\ path[Len(path)].kind # "compaction"
       /\ over # 0 => over >= BoundaryStart(path) /\ path[over].kind \in MessageKinds
       /\ Summarized(path, first) # {}
       /\ AppendEntry(Entry(nextId, leaf, "compaction", path[first].id, Covered(path, first)))

\* branchWithSummary: moves the leaf, then appends the summary there.
BranchWithSummary(from) ==
    /\ scenario.navigates /\ "summary" \in scenario.kinds
    /\ from \in IdsOf(entries) \union {0}
    /\ AppendEntry(Entry(nextId, from, "summary", 0, {}))

\* branch and resetLeaf: the leaf moves, in memory only.
MoveLeaf(to) ==
    /\ up /\ scenario.navigates
    /\ to \in IdsOf(entries) \union {0}
    /\ to # leaf
    /\ leaf' = to
    /\ UNCHANGED <<up, entries, labels, flushed, file, saved, nextId, failures, crashes>>

\* The fork command opens the file anew and forks what it finds there
\* (createBranchedSession); the process goes on with the fork.  The file of
\* the fork is written at once if it has an answer of the model, and by the
\* first flush otherwise.  When this write fails the process goes on with the
\* old session, and only the file of the fork is incomplete.
Fork(at) ==
    LET old == Load(file)
        es == Forked(old, LabelsOf(old), at, nextId)
    IN /\ up /\ scenario.forks
       /\ at \in IdsOf(old) /\ nextId <= scenario.entries
       /\ nextId' = nextId + Cardinality(IdsOf(es) \ IdsOf(old))
       /\ entries' = es /\ leaf' = LastId(es) /\ labels' = LabelsOf(es)
       /\ flushed' = HasAssistant(es)
       /\ file' = IF HasAssistant(es) THEN PutLines(NoFile, <<Header>> \o es) ELSE NoFile
       /\ saved' = IF HasAssistant(es) THEN IdsOf(es) ELSE {}
       /\ UNCHANGED <<up, failures, crashes>>

\* The file has no header: opening it starts it afresh, and the fork throws.
ForkUnreadable ==
    /\ up /\ scenario.forks
    /\ file.there /\ ~HasHeader(file)
    /\ file' = PutLines(NoFile, <<Header>>)
    /\ UNCHANGED <<up, memory, saved, nextId, failures, crashes>>

Step ==
    \/ NewSession \/ Crash \/ Open \/ ForkFrom \/ ForkUnreadable
    \/ \E kind \in Kinds : AppendPlain(kind)
    \/ \E kind \in LabelKinds, target \in IdsOf(entries) : AppendLabelChange(kind, target)
    \/ \E over \in 0..Len(Branch(entries, leaf)) : AppendCompaction(over)
    \/ \E to \in IdsOf(entries) \union {0} : MoveLeaf(to) \/ BranchWithSummary(to)
    \/ \E at \in IdsOf(entries) : Fork(at)

Next == Step /\ UNCHANGED scenario

Spec == Init /\ [][Next]_vars

(***************************************************************************)
(* Properties                                                              *)
(***************************************************************************)
Entries == [id : Nat, parent : Nat, kind : Kinds, ref : Nat, covers : SUBSET Nat]

TypeOK ==
    /\ up \in BOOLEAN /\ flushed \in BOOLEAN
    /\ \A i \in DOMAIN entries : entries[i] \in Entries
    /\ leaf \in IdsOf(entries) \union {0}
    /\ \A i \in DOMAIN labels : labels[i] \in Nat
    /\ file.there \in BOOLEAN /\ file.end \in {"newline", "whole", "part"}
    /\ \A i \in DOMAIN file.lines : file.lines[i] \in Entries \union {Header, Torn}
    /\ saved \subseteq Nat /\ nextId \in Nat

\* "All history preserved in a single file" (coding-agent/README.md:250):
\* what an append wrote and returned is found by whoever opens the file next,
\* after any crashes and failed writes in between.
SavedSurvives == saved \subseteq IdsOf(Load(file))

\* While no write has failed, a process that opens the file would have the same
\* entries, and nothing is in the file before the first answer of the model.
MemoryInFile ==
    up /\ failures = 0 =>
        IF flushed THEN HasHeader(file) /\ Load(file) = entries
        ELSE ~file.there /\ ~HasAssistant(entries)

\* Nothing is written twice, not even the header ("avoiding the
\* duplicate-header bug", session-manager.ts:1356), whichever flush, fork or
\* append wrote it and however it failed.
WrittenOnce ==
    \A i, j \in DOMAIN file.lines :
        i # j /\ "torn" \notin {file.lines[i].kind, file.lines[j].kind}
            => file.lines[i].id # file.lines[j].id

\* The parent of every entry is an earlier entry, so that no branch is cut
\* off and no walk to the root goes round in circles: in memory while no write
\* has failed, and in the file that is opened next.
WellFormed(E) ==
    \A j \in DOMAIN E : E[j].parent # 0 => \E i \in 1..(j - 1) : E[i].id = E[j].parent
MemoryWellFormed == failures = 0 => WellFormed(entries)
FileWellFormed == WellFormed(Load(file))

\* The file and the memory hold the same tree: every entry once in each, whole
\* branches, whatever flush, fork, append or crash came before.
FileIsMemory == MemoryInFile /\ WrittenOnce /\ MemoryWellFormed

\* No branch, wherever the leaf is moved, forgets a message: each is in the
\* context or was given to a summary that the context contains, and never
\* both.  A branch with a compaction that drops the summary of the previous one
\* is left out (HandsOn): compact() does so when the cut splits the first turn
\* that the previous compaction kept.
Recalled(path) ==
    LET sent == IdsOf(Messages(Context(path)))
        c == LastCompaction(path)
        covered == IF c = 0 THEN {} ELSE path[c].covers
    IN IdsOf(Messages(path)) = sent \union covered /\ sent \intersect covered = {}
NothingForgotten ==
    \A i \in DOMAIN entries :
        LET path == Branch(entries, entries[i].id)
        IN HandsOn(path, Len(path)) => Recalled(path)

\* The same of every branch: "passing the previous summary as iterative context
\* when present" (coding-agent/docs/compaction.md:43).
SummaryHandedOn == \A i \in DOMAIN entries : Recalled(Branch(entries, entries[i].id))

\* "Never cut at tool results (they must follow their tool call)"
\* (compaction.ts:295): no context has a result without its call before it.
NoOrphanResult ==
    \A i \in DOMAIN entries :
        LET cx == Context(Branch(entries, entries[i].id))
        IN \A k \in DOMAIN cx : cx[k].kind = "toolResult" =>
               k > 1 /\ cx[k - 1].kind \in {"call", "toolResult"}

\* "The new session keeps the full active-path history"
\* (coding-agent/README.md:260): wherever it is made, a fork of the file sends
\* the model what the branch sends that the process has in memory, through
\* any crashes before, and as long as no write has failed.
ForkSends(at) ==
    LET old == Load(file)
        fork == Forked(old, LabelsOf(old), at, nextId)
    IN ContextIds(Branch(fork, LastId(fork))) = ContextIds(Branch(entries, at))
ForkKeepsContext ==
    up /\ failures = 0 => \A at \in IdsOf(Load(file)) : ForkSends(at)

\* The same after failed writes.
ForkAfterFailure == up => \A at \in IdsOf(Load(file)) : ForkSends(at)

\* "so when assistant arrives, all entries get written"
\* (session-manager.ts:917): a session with an answer that is not yet in its
\* file can still be written there.
FirstFlushPossible == up /\ ~flushed /\ HasAssistant(entries) => ~file.there
=============================================================================
