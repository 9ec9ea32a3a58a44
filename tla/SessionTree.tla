---------------------------- MODULE SessionTree ----------------------------
(***************************************************************************)
(* The pure part of the session of the coding agent: the tree of entries,  *)
(* the messages its branches send to the model (buildSessionContext of     *)
(* core/session-manager.ts), what a fork copies (createBranchedSession),   *)
(* and what a compaction summarizes and keeps (prepareCompaction and       *)
(* compact of core/compaction/compaction.ts).                              *)
(*                                                                         *)
(* An entry is its id, its parent (0 at a root), its kind, and what it     *)
(* refers to: the first kept entry of a compaction, the target of a label. *)
(* A summary is the set of the messages it accounts for.  Ids grow with    *)
(* the position in the file.                                               *)
(***************************************************************************)
EXTENDS Integers, Sequences, FiniteSets, FiniteSetsExt

\* "call" is an assistant message that asks for tools; "setting" stands for
\* the entries that are neither messages nor labels (model, thinking level,
\* session info, custom data).
AssistantKinds == {"assistant", "call"}
MessageKinds == {"user", "toolResult"} \union AssistantKinds
TurnStarts == {"user", "custom", "summary"}
ContextKinds == MessageKinds \union {"custom", "summary"}
LabelKinds == {"label", "unlabel"}
Kinds == ContextKinds \union LabelKinds \union {"setting", "compaction"}

Entry(id, parent, kind, ref, covers) ==
    [id |-> id, parent |-> parent, kind |-> kind, ref |-> ref, covers |-> covers]

IdsOf(E) == {E[i].id : i \in DOMAIN E}
HasAssistant(E) == \E i \in DOMAIN E : E[i].kind \in AssistantKinds
LastId(E) == IF E = <<>> THEN 0 ELSE E[Len(E)].id

\* The items of a list at the indices in I, in order.
Picked(s, I) ==
    LET upTo[n \in 0..Len(s)] ==
          IF n = 0 THEN <<>> ELSE IF n \in I THEN Append(upTo[n - 1], s[n]) ELSE upTo[n - 1]
    IN upTo[Len(s)]

\* The entries of a list that are of some kinds.
OfKinds(s, kinds) == Picked(s, {i \in DOMAIN s : s[i].kind \in kinds})

(***************************************************************************)
(* Branches and contexts                                                   *)
(***************************************************************************)
\* getBranch: the path from the root, or from an orphan, to an entry.
Branch(E, leaf) ==
    LET nodes == IdsOf(E)
        to[i \in nodes] ==
            LET e == E[CHOOSE j \in DOMAIN E : E[j].id = i]
            IN Append(IF e.parent \in nodes THEN to[e.parent] ELSE <<>>, e)
    IN IF leaf \in nodes THEN to[leaf] ELSE <<>>

\* The entries of a path that are messages for the model.
Messages(path) == OfKinds(path, ContextKinds)

\* The index of the last compaction of a path, or 0.
LastCompaction(path) ==
    Max({0} \union {i \in DOMAIN path : path[i].kind = "compaction"})

\* The index of the entry with an id, or 0.
IndexOf(path, id) == Max({0} \union {i \in DOMAIN path : path[i].id = id})

\* buildSessionContext: the summary, the messages kept, those since.
Context(path) ==
    LET c == LastCompaction(path)
        first == IF c = 0 THEN 0 ELSE IndexOf(SubSeq(path, 1, c - 1), path[c].ref)
        kept == IF first = 0 THEN <<>> ELSE SubSeq(path, first, c - 1)
    IN IF c = 0 THEN Messages(path)
       ELSE <<path[c]>> \o Messages(kept) \o Messages(SubSeq(path, c + 1, Len(path)))

\* A context without the parents of its entries.
ContextIds(path) == LET cx == Context(path) IN [i \in DOMAIN cx |-> cx[i].id]

(***************************************************************************)
(* Labels and forks                                                        *)
(***************************************************************************)
\* labelsById after one more entry: its keys, in the order of the Map.
Relabel(labels, e) ==
    CASE e.kind = "label" ->
           IF \E i \in DOMAIN labels : labels[i] = e.ref THEN labels ELSE Append(labels, e.ref)
      [] e.kind = "unlabel" -> Picked(labels, {i \in DOMAIN labels : labels[i] # e.ref})
      [] OTHER -> labels

\* _buildIndex: the labels a list of entries leaves.
LabelsOf(E) ==
    LET after[n \in 0..Len(E)] == IF n = 0 THEN <<>> ELSE Relabel(after[n - 1], E[n])
    IN after[Len(E)]

\* Each entry becomes the child of the one before it.
Rechained(path) ==
    [i \in DOMAIN path |-> [path[i] EXCEPT !.parent = IF i = 1 THEN 0 ELSE path[i - 1].id]]

\* Mutant: the labels of the fork start at its root.
Forked_LabelsAtRoot(E, labels, leaf, next) ==
    LET path == Rechained(OfKinds(Branch(E, leaf), Kinds \ LabelKinds))
        targets == Picked(labels, {i \in DOMAIN labels : labels[i] \in IdsOf(path)})
    IN path \o [i \in DOMAIN targets |->
                  Entry(next + i - 1, IF i = 1 THEN 0 ELSE next + i - 2, "label", targets[i], {})]

\* createBranchedSession: the path without its labels, then a label for every
\* labelled entry of the path; new labels take the ids from next on.
Forked(E, labels, leaf, next) ==
    LET path == Rechained(OfKinds(Branch(E, leaf), Kinds \ LabelKinds))
        targets == Picked(labels, {i \in DOMAIN labels : labels[i] \in IdsOf(path)})
        relabels == [i \in DOMAIN targets |->
                       Entry(next + i - 1, IF i = 1 THEN LastId(path) ELSE next + i - 2,
                             "label", targets[i], {})]
    IN path \o relabels

(***************************************************************************)
(* Compaction                                                              *)
(***************************************************************************)
\* Mutant: a tool result may be the first entry that is kept.
CutPoints_Results(path, start) == {i \in start..Len(path) : path[i].kind \in ContextKinds}

\* findValidCutPoints: never at a tool result.
CutPoints(path, start) ==
    {i \in start..Len(path) : path[i].kind \in ContextKinds \ {"toolResult"}}

\* findCutPoint: over is the message that exceeds the token budget, counted
\* from the end, or 0; the entries between messages stay with what follows.
FirstKept(path, start, over) ==
    LET cuts == CutPoints(path, start)
        later == {i \in cuts : i >= over}
        cut == IF over = 0 \/ later = {} THEN Min(cuts) ELSE Min(later)
        back == {j \in start..cut :
                   \A k \in j..(cut - 1) : path[k].kind \notin MessageKinds \union {"compaction"}}
    IN IF cuts = {} THEN start ELSE Min(back)

\* findTurnStartIndex, or 0.
TurnStart(path, start, i) ==
    Max({0} \union {j \in start..i : path[j].kind \in TurnStarts})

\* Where the span of a compaction starts: at the entries the previous one kept.
BoundaryStart(path) ==
    LET prev == LastCompaction(path)
        kept == IndexOf(path, path[prev].ref)
    IN IF prev = 0 THEN 1 ELSE IF kept # 0 THEN kept ELSE prev + 1

\* Where the turn starts that a cut before the entry first splits, or 0.
SplitTurn(path, first) ==
    IF path[first].kind = "user" THEN 0 ELSE TurnStart(path, BoundaryStart(path), first)

\* The messages of a path from one entry to another.
Said(path, from, to) ==
    {path[i].id : i \in {j \in from..to : path[j].kind \in ContextKinds}}

\* messagesToSummarize: up to the cut, or to the turn that it splits.
History(path, first) ==
    LET turn == SplitTurn(path, first)
    IN Said(path, BoundaryStart(path), (IF turn # 0 THEN turn ELSE first) - 1)

\* turnPrefixMessages: the beginning of the turn that is split.
TurnPrefix(path, first) ==
    LET turn == SplitTurn(path, first)
    IN IF turn # 0 THEN Said(path, turn, first - 1) ELSE {}

\* Mutant: the beginning of a turn that is split is not summarized.
Summarized_NoPrefix(path, first) == History(path, first)

\* prepareCompaction: the messages that are handed to compact.
Summarized(path, first) == History(path, first) \union TurnPrefix(path, first)

\* compact: the summary is written from the previous one and the messages.
\* With no history before the beginning of a turn it says "No prior history."
\* in its place, and the previous summary is dropped.
Covered(path, first) ==
    LET prev == LastCompaction(path)
        drops == History(path, first) = {} /\ TurnPrefix(path, first) # {}
    IN Summarized(path, first) \union IF prev = 0 \/ drops THEN {} ELSE path[prev].covers

\* No compaction of a path up to the entry c drops the summary of the one
\* before it: those that have one before them have a history to summarize.
HandsOn(path, c) ==
    \A i \in 1..c : \A k \in 1..(i - 1) :
        path[i].kind = "compaction" /\ path[k].id = path[i].ref =>
            LET before == SubSeq(path, 1, i - 1)
            IN LastCompaction(before) = 0 \/ History(before, k) # {}
=============================================================================
