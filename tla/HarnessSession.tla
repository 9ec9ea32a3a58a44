--------------------------- MODULE HarnessSession ---------------------------
(***************************************************************************)
(* The tree of a harness session (packages/agent/src/harness/session): its *)
(* entries in the order of the file, an entry named by its place in it.    *)
(* The leaf is persisted as an entry too: the one that was appended last   *)
(* names it.                                                               *)
(***************************************************************************)
EXTENDS Integers, Sequences

\* An entry holds an item and hangs on the entry that was the leaf when its
\* append began (0 for the root); one of kind "leaf" moves the leaf to "to".
Entry(item, parent) == [item |-> item, parent |-> parent, to |-> 0]
LeafEntry(item, parent, to) == [item |-> item, parent |-> parent, to |-> to]

\* leafIdAfterEntry, for the last entry: the leaf of whoever opens the file.
LeafAfter(E) ==
    IF E = <<>> THEN 0
    ELSE IF E[Len(E)].item.via = "leaf" THEN E[Len(E)].to ELSE Len(E)

\* getPathToRoot and buildSessionContext: the items from the root to a leaf.
Branch(E, leaf) ==
    LET path[i \in 0..Len(E)] ==
            IF i = 0 THEN <<>> ELSE Append(path[E[i].parent], E[i].item)
    IN path[leaf]
=============================================================================
