------------------------------ MODULE FileLock ------------------------------
(***************************************************************************)
(* What withFileMutationQueue promises its callers, with no promise chain, *)
(* no map and no path: the calls on one file run one at a time, in the     *)
(* order in which they were made, and a call never waits for another file. *)
(***************************************************************************)
EXTENDS Integers

CONSTANTS
    Calls,  \* the calls of withFileMutationQueue
    Files   \* the files they mutate

VARIABLES
    phase,  \* phase[c]: "new", "asked", "inside", "over"
    wants,  \* wants[c]: the file of a call that was made
    ticket, \* ticket[c]: the position of the call among the calls made
    made    \* how many calls were made

lockVars == <<phase, wants, ticket, made>>

Init ==
    /\ phase = [c \in Calls |-> "new"]
    /\ wants \in [Calls -> Files]
    /\ ticket = [c \in Calls |-> 0]
    /\ made = 0

Ask(c) ==
    /\ phase[c] = "new"
    /\ phase' = [phase EXCEPT ![c] = "asked"]
    /\ ticket' = [ticket EXCEPT ![c] = made + 1]
    /\ made' = made + 1
    /\ UNCHANGED wants

\* The calls that go before c: made earlier, on the same file, not over.
Ahead(c) ==
    {d \in Calls : /\ phase[d] \in {"asked", "inside"}
                   /\ wants[d] = wants[c]
                   /\ ticket[d] < ticket[c]}

Enter(c) ==
    /\ phase[c] = "asked"
    /\ Ahead(c) = {}
    /\ phase' = [phase EXCEPT ![c] = "inside"]
    /\ UNCHANGED <<wants, ticket, made>>

\* The mutation is over, or the call was refused before it began.
Leave(c) ==
    /\ phase[c] \in {"asked", "inside"}
    /\ phase' = [phase EXCEPT ![c] = "over"]
    /\ UNCHANGED <<wants, ticket, made>>

Next == \E c \in Calls : Ask(c) \/ Enter(c) \/ Leave(c)

LockSpec == Init /\ [][Next]_lockVars
=============================================================================
