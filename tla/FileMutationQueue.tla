------------------------- MODULE FileMutationQueue -------------------------
(***************************************************************************)
(* withFileMutationQueue (coding-agent, core/tools/file-mutation-queue.ts):*)
(* the edit and write tools, and tools of extensions, mutate a file only   *)
(* in their turn.  Registrations run one after the other; each resolves    *)
(* the path to a key, and chains the call behind the last one of that key. *)
(*                                                                         *)
(* A promise of the chain is named by the call that made it: the promise   *)
(* of call c settles when c is over.  Paths are abstract: a path names a   *)
(* file, and a canonical path is its own realpath.                         *)
(***************************************************************************)
EXTENDS Integers

CONSTANTS
    Calls,      \* the calls of withFileMutationQueue
    Files,      \* the files, each also the name of its canonical path
    Paths,      \* the paths the callers pass, resolved to absolute ones
    FileOf,     \* FileOf[p]: the file that path p leads to
    Canonical,  \* the paths with no symbolic link in them
    Fickle,     \* the files that may be missing, be created and be removed
    Stuck,      \* the files whose mutations may never return
    None        \* no promise

ASSUME FileMutationAssumption ==
    /\ FileOf \in [Paths -> Files]
    /\ Canonical \subseteq Paths /\ Fickle \subseteq Files /\ Stuck \subseteq Files
    /\ None \notin Calls
    /\ Paths \intersect Files = {}

VARIABLES
    pc,     \* where each call is
    path,   \* the path it passed
    key,    \* the key its registration found
    behind, \* currentQueue: the call whose promise it awaits, or None
    tail,   \* fileMutationQueues: the call that set the promise of a key, or None
    exists, \* the files that exist
    ticket, \* the position of a call in the registration chain
    made    \* the calls made so far

vars == <<pc, path, key, behind, tail, exists, ticket, made>>

Keys == Files \union Paths
Registered == {"waiting", "running", "over"}

\* resolve(): the absolute path as it was given.
Literal(p) == IF p \in Canonical THEN FileOf[p] ELSE p

Init ==
    /\ pc = [c \in Calls |-> "new"]
    /\ path \in [Calls -> Paths]
    /\ key = [c \in Calls |-> Literal(path[c])]
    /\ behind = [c \in Calls |-> None]
    /\ tail = [k \in Keys |-> None]
    /\ exists \in {Files \ missing : missing \in SUBSET Fickle}
    /\ ticket = [c \in Calls |-> 0]
    /\ made = 0

\* registrationQueue.then: the call takes its place in the chain.
Call(c) ==
    /\ pc[c] = "new"
    /\ pc' = [pc EXCEPT ![c] = "registering"]
    /\ ticket' = [ticket EXCEPT ![c] = made + 1]
    /\ made' = made + 1
    /\ UNCHANGED <<path, key, behind, tail, exists>>

\* Mutant: registrations do not wait for each other.
Turn_Any(c) == c \in Calls

\* The registrations before c in the chain have settled.
Turn(c) ==
    \A d \in Calls \ {c} : pc[d] \in {"registering", "resolved"} => ticket[c] < ticket[d]

\* getMutationQueueKey: realpath, or the path itself when nothing is there.
Realpath(c) ==
    /\ pc[c] = "registering" /\ Turn(c)
    /\ pc' = [pc EXCEPT ![c] = "resolved"]
    /\ key' = [key EXCEPT ![c] =
                 IF FileOf[path[c]] \in exists THEN FileOf[path[c]] ELSE Literal(path[c])]
    /\ UNCHANGED <<path, behind, tail, exists, ticket, made>>

\* Any other error of realpath rejects the call; the chain goes on.
RealpathFails(c) ==
    /\ pc[c] = "registering" /\ Turn(c)
    /\ pc' = [pc EXCEPT ![c] = "rejected"]
    /\ UNCHANGED <<path, key, behind, tail, exists, ticket, made>>

\* Mutant: the promise of the call is not put in the map.
Register_NoSet(c) ==
    /\ pc[c] = "resolved"
    /\ pc' = [pc EXCEPT ![c] = "waiting"]
    /\ behind' = [behind EXCEPT ![c] = tail[key[c]]]
    /\ tail' = [tail EXCEPT ![key[c]] = IF @ = None THEN c ELSE @]
    /\ UNCHANGED <<path, key, exists, ticket, made>>

\* Mutant: one queue for all the files.
Register_OneQueue(c) ==
    /\ pc[c] = "resolved"
    /\ pc' = [pc EXCEPT ![c] = "waiting"]
    /\ behind' = [behind EXCEPT ![c] = tail[key[c]]]
    /\ tail' = [k \in Keys |-> c]
    /\ UNCHANGED <<path, key, exists, ticket, made>>

\* The rest of the registration: chain the call behind the last of its key.
Register(c) ==
    /\ pc[c] = "resolved"
    /\ pc' = [pc EXCEPT ![c] = "waiting"]
    /\ behind' = [behind EXCEPT ![c] = tail[key[c]]]
    /\ tail' = [tail EXCEPT ![key[c]] = c]
    /\ UNCHANGED <<path, key, exists, ticket, made>>

\* await currentQueue, then fn().
Start(c) ==
    /\ pc[c] = "waiting"
    /\ behind[c] # None => pc[behind[c]] = "over"
    /\ pc' = [pc EXCEPT ![c] = "running"]
    /\ UNCHANGED <<path, key, behind, tail, exists, ticket, made>>

\* fn creates the file it writes.
Create(c) ==
    /\ pc[c] = "running"
    /\ FileOf[path[c]] \in Fickle
    /\ exists' = exists \union {FileOf[path[c]]}
    /\ UNCHANGED <<pc, path, key, behind, tail, ticket, made>>

\* Somebody else removes the file: a shell command, the user.
Remove(f) ==
    /\ f \in exists \intersect Fickle
    /\ exists' = exists \ {f}
    /\ UNCHANGED <<pc, path, key, behind, tail, ticket, made>>

\* Mutant: the entry of the key is never deleted.
Finish_NoDelete(c) ==
    /\ pc[c] = "running"
    /\ pc' = [pc EXCEPT ![c] = "over"]
    /\ UNCHANGED <<path, key, behind, tail, exists, ticket, made>>

\* fn returns or throws: release the next call, drop the entry if it is ours.
Finish(c) ==
    /\ pc[c] = "running"
    /\ pc' = [pc EXCEPT ![c] = "over"]
    /\ tail' = [tail EXCEPT ![key[c]] = IF @ = c THEN None ELSE @]
    /\ UNCHANGED <<path, key, behind, exists, ticket, made>>

CallStep(c) ==
    \/ Call(c) \/ Realpath(c) \/ RealpathFails(c) \/ Register(c)
    \/ Start(c) \/ Create(c) \/ Finish(c)

Next == (\E c \in Calls : CallStep(c)) \/ (\E f \in Files : Remove(f))

Spec == Init /\ [][Next]_vars

\* Timers and file operations settle; a mutation of a stuck file may not.
FairSpec ==
    /\ Spec
    /\ \A c \in Calls :
         /\ WF_vars(Realpath(c)) /\ WF_vars(Register(c)) /\ WF_vars(Start(c))
         /\ WF_vars(FileOf[path[c]] \notin Stuck /\ Finish(c))

(***************************************************************************)
(* Properties                                                              *)
(***************************************************************************)
TypeOK ==
    /\ pc \in [Calls -> {"new", "registering", "resolved", "rejected"} \union Registered]
    /\ path \in [Calls -> Paths]
    /\ key \in [Calls -> Keys]
    /\ behind \in [Calls -> Calls \union {None}]
    /\ tail \in [Keys -> Calls \union {None}]
    /\ exists \subseteq Files
    /\ ticket \in [Calls -> Nat] /\ made \in Nat

\* The chain of promises serialises the calls: the calls of one key run one
\* at a time and in the order they were made, whichever calls registered,
\* failed or finished (and deleted their map entry) in between.
KeyInOrder ==
    \A c, d \in Calls :
        /\ pc[c] \in {"running", "over"} /\ pc[d] \in Registered
        /\ key[c] = key[d] /\ ticket[d] < ticket[c]
        => pc[d] = "over"

\* "Serialize file mutation operations targeting the same file"
\* (file-mutation-queue.ts:29): no two calls mutate one file at a time.
SameFileSerialized ==
    \A c, d \in Calls :
        c # d /\ pc[c] = "running" /\ pc[d] = "running" => FileOf[path[c]] # FileOf[path[d]]

\* The map holds an entry for a key exactly while a call of the key is not
\* over: it neither leaks entries nor forgets a queue that is in use.
MapIsLive ==
    \A k \in Keys :
        tail[k] = None <=> {c \in Calls : pc[c] \in {"waiting", "running"} /\ key[c] = k} = {}

\* "Operations for different files still run in parallel"
\* (file-mutation-queue.ts:30): a call settles even if the mutations of other
\* files never return, and even if registrations before it were rejected.
OtherFilesGoOn ==
    \A c \in Calls :
        pc[c] = "registering" /\ FileOf[path[c]] \notin Stuck ~> pc[c] \in {"over", "rejected"}

\* Every behaviour of the queue is one of the lock it promises, when no path
\* through a link leads to a file that comes and goes.
Lock == INSTANCE FileLock WITH
    phase <- [c \in Calls |->
                CASE pc[c] = "new" -> "new"
                  [] pc[c] \in {"registering", "resolved", "waiting"} -> "asked"
                  [] pc[c] = "running" -> "inside"
                  [] pc[c] \in {"over", "rejected"} -> "over"],
    wants <- [c \in Calls |-> FileOf[path[c]]]

ImplementsLock == Lock!LockSpec
=============================================================================
