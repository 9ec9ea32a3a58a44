---------------------- MODULE FileMutationQueueProofs ----------------------
(***************************************************************************)
(* The calls of withFileMutationQueue on one key run one at a time and in  *)
(* order, for any number of calls, paths and files; and when paths through *)
(* links lead only to files that stay, the queue implements FileLock.      *)
(***************************************************************************)
EXTENDS FileMutationQueue, TLAPS

\* Tickets are given in the order of the calls, each once.
Tickets ==
    \A c \in Calls : pc[c] # "new" =>
        /\ ticket[c] <= made
        /\ \A d \in Calls \ {c} : pc[d] # "new" => ticket[c] # ticket[d]

\* Registrations settle in the order of the calls: a call that is still
\* registering was made after every call that is not.
ChainOrder ==
    \A c, d \in Calls :
        /\ c # d
        /\ pc[c] \in {"registering", "resolved"}
        /\ pc[d] \in Registered \union {"resolved"}
        => ticket[d] < ticket[c]

\* The map names the last call of a key, and no key that nobody uses.
TailIsLast ==
    \A k \in Keys :
        /\ tail[k] = None =>
             \A d \in Calls : pc[d] \in {"waiting", "running"} => key[d] # k
        /\ tail[k] # None =>
             /\ pc[tail[k]] \in {"waiting", "running"} /\ key[tail[k]] = k
             /\ \A d \in Calls : pc[d] \in Registered /\ key[d] = k => ticket[d] <= ticket[tail[k]]

\* A waiting call awaits a call of its key that is at least as late as every
\* earlier call of the key that is not over.
BehindIsLate ==
    \A c, d \in Calls :
        /\ pc[c] = "waiting" /\ pc[d] \in {"waiting", "running"}
        /\ key[c] = key[d] /\ ticket[d] < ticket[c]
        => /\ behind[c] # None
           /\ key[behind[c]] = key[c]
           /\ pc[behind[c]] \in Registered
           /\ ticket[d] <= ticket[behind[c]]

\* The inductive invariant.
QueueInv ==
    TypeOK /\ Tickets /\ ChainOrder /\ TailIsLast /\ BehindIsLate /\ KeyInOrder

USE FileMutationAssumption DEF Registered, Keys

\* The inductive invariant holds initially: no call was made.
LEMMA QueueInit == Init => QueueInv
  <1>. SUFFICES ASSUME Init PROVE QueueInv
    OBVIOUS
  <1>1. TypeOK
    BY DEF Init, TypeOK, Literal
  <1>2. Tickets /\ ChainOrder /\ BehindIsLate /\ KeyInOrder
    BY DEF Init, Tickets, ChainOrder, BehindIsLate, KeyInOrder
  <1>3. TailIsLast
    BY DEF Init, TailIsLast
  <1>. QED
    BY <1>1, <1>2, <1>3 DEF QueueInv

\* Every step of the queue, and every change of the disk, keeps it.
LEMMA QueueNext == QueueInv /\ [Next]_vars => QueueInv'
  <1>. SUFFICES ASSUME QueueInv, [Next]_vars PROVE QueueInv'
    OBVIOUS
  <1>. USE DEF QueueInv, TypeOK
  <1>1. ASSUME NEW c \in Calls, Call(c) PROVE QueueInv'
    <2>1. TypeOK'
      BY <1>1 DEF Call
    <2>2. Tickets' /\ ChainOrder'
      BY <1>1 DEF Call, Tickets, ChainOrder
    <2>3. TailIsLast'
      BY <1>1 DEF Call, TailIsLast
    <2>4. BehindIsLate' /\ KeyInOrder'
      BY <1>1 DEF Call, BehindIsLate, KeyInOrder
    <2>. QED
      BY <2>1, <2>2, <2>3, <2>4
  <1>2. ASSUME NEW c \in Calls, Realpath(c) PROVE QueueInv'
    <2>1. TypeOK'
      BY <1>2 DEF Realpath, Literal
    <2>2. Tickets' /\ ChainOrder'
      BY <1>2 DEF Realpath, Tickets, ChainOrder, Turn
    <2>3. TailIsLast'
      BY <1>2 DEF Realpath, TailIsLast
    <2>4. BehindIsLate' /\ KeyInOrder'
      BY <1>2 DEF Realpath, BehindIsLate, KeyInOrder
    <2>. QED
      BY <2>1, <2>2, <2>3, <2>4
  <1>3. ASSUME NEW c \in Calls, RealpathFails(c) PROVE QueueInv'
    <2>1. TypeOK' /\ Tickets' /\ ChainOrder'
      BY <1>3 DEF RealpathFails, Tickets, ChainOrder
    <2>2. TailIsLast'
      BY <1>3 DEF RealpathFails, TailIsLast
    <2>3. BehindIsLate' /\ KeyInOrder'
      BY <1>3 DEF RealpathFails, BehindIsLate, KeyInOrder
    <2>. QED
      BY <2>1, <2>2, <2>3
  <1>4. ASSUME NEW c \in Calls, Register(c) PROVE QueueInv'
    <2>1. TypeOK' /\ Tickets' /\ ChainOrder'
      BY <1>4 DEF Register, Tickets, ChainOrder
    <2>2. TailIsLast'
      BY <1>4 DEF Register, TailIsLast, ChainOrder
    <2>3. BehindIsLate'
      BY <1>4 DEF Register, BehindIsLate, TailIsLast, ChainOrder
    <2>4. KeyInOrder'
      BY <1>4 DEF Register, KeyInOrder, ChainOrder
    <2>. QED
      BY <2>1, <2>2, <2>3, <2>4
  <1>5. ASSUME NEW c \in Calls, Start(c) PROVE QueueInv'
    <2>1. TypeOK' /\ Tickets' /\ ChainOrder'
      BY <1>5 DEF Start, Tickets, ChainOrder
    <2>2. TailIsLast'
      BY <1>5 DEF Start, TailIsLast
    <2>3. BehindIsLate'
      <3>1. \A d \in Calls :
              /\ pc'[d] = "waiting" => pc[d] = "waiting"
              /\ pc'[d] \in {"waiting", "running"} => pc[d] \in {"waiting", "running"}
              /\ pc[d] \in Registered => pc'[d] \in Registered
        BY <1>5 DEF Start
      <3>2. ASSUME NEW e \in Calls, NEW d \in Calls, pc[e] = "waiting",
                   pc[d] \in {"waiting", "running"}, key[e] = key[d], ticket[d] < ticket[e]
            PROVE  /\ behind[e] \in Calls /\ key[behind[e]] = key[e]
                   /\ pc[behind[e]] \in Registered /\ ticket[d] <= ticket[behind[e]]
        BY <3>2 DEF BehindIsLate
      <3>3. key' = key /\ ticket' = ticket /\ behind' = behind
        BY <1>5 DEF Start
      <3>. QED
        BY <3>1, <3>2, <3>3 DEF BehindIsLate
    <2>4. ASSUME NEW d \in Calls, pc[d] \in Registered, key[d] = key[c], ticket[d] < ticket[c]
          PROVE  pc[d] = "over"
      <3>. SUFFICES ASSUME pc[d] \in {"waiting", "running"} PROVE FALSE
        BY <2>4
      <3>1. pc[c] = "waiting" /\ (behind[c] # None => pc[behind[c]] = "over")
        BY <1>5 DEF Start
      <3>2. /\ behind[c] \in Calls /\ pc[behind[c]] = "over"
            /\ key[behind[c]] = key[d] /\ ticket[d] <= ticket[behind[c]]
        BY <2>4, <3>1 DEF BehindIsLate
      <3>3. ticket[d] < ticket[behind[c]]
        <4>1. d # behind[c] /\ pc[d] # "new" /\ pc[behind[c]] # "new"
          BY <3>2
        <4>2. ticket[d] # ticket[behind[c]]
          BY <3>2, <4>1 DEF Tickets
        <4>3. ticket[d] \in Nat /\ ticket[behind[c]] \in Nat
          BY <3>2 DEF TypeOK
        <4>. QED
          BY <3>2, <4>2, <4>3
      <3>. QED
        BY <3>2, <3>3 DEF KeyInOrder
    <2>5. KeyInOrder'
      BY <1>5, <2>4 DEF Start, KeyInOrder
    <2>. QED
      BY <2>1, <2>2, <2>3, <2>5
  <1>6. ASSUME NEW c \in Calls, Finish(c) PROVE QueueInv'
    <2>1. TypeOK' /\ Tickets' /\ ChainOrder'
      BY <1>6 DEF Finish, Tickets, ChainOrder
    <2>2. TailIsLast'
      <3>. SUFFICES ASSUME NEW k \in Keys PROVE TailIsLast!(k)'
        BY DEF TailIsLast
      <3>1. /\ pc[c] = "running" /\ pc' = [pc EXCEPT ![c] = "over"]
            /\ key' = key /\ ticket' = ticket /\ tail[key[c]] # None
        BY <1>6 DEF Finish, TailIsLast
      <3>2. CASE tail[k] = c
        <4>1. key[c] = k /\ tail'[k] = None
          BY <1>6, <3>2 DEF Finish, TailIsLast
        <4>2. ASSUME NEW d \in Calls, d # c, pc[d] \in {"waiting", "running"}, key[d] = k
              PROVE  FALSE
          <5>1. ticket[d] <= ticket[c]
            BY <3>2, <4>2, c # None DEF TailIsLast
          <5>2. ticket[d] # ticket[c]
            BY <3>1, <4>2 DEF Tickets
          <5>3. ticket[d] < ticket[c]
            BY <5>1, <5>2
          <5>4. pc[c] = "running" /\ key[d] = key[c] /\ pc[d] # "over"
            BY <3>1, <4>1, <4>2
          <5>. QED
            BY <4>2, <5>3, <5>4 DEF KeyInOrder
        <4>. QED
          BY <3>1, <4>1, <4>2
      <3>3. CASE tail[k] # c
        <4>1. tail'[k] = tail[k]
          BY <1>6, <3>3 DEF Finish
        <4>2. \A d \in Calls : pc'[d] \in Registered <=> pc[d] \in Registered
          BY <3>1
        <4>. QED
          BY <3>1, <3>3, <4>1, <4>2 DEF TailIsLast
      <3>. QED
        BY <3>2, <3>3
    <2>3. BehindIsLate' /\ KeyInOrder'
      <3>1. \A d \in Calls :
              /\ pc'[d] = "waiting" => pc[d] = "waiting"
              /\ pc'[d] \in {"waiting", "running"} => pc[d] \in {"waiting", "running"}
              /\ pc'[d] \in {"running", "over"} <=> pc[d] \in {"running", "over"}
              /\ pc'[d] \in Registered <=> pc[d] \in Registered
              /\ pc[d] = "over" => pc'[d] = "over"
        BY <1>6 DEF Finish
      <3>2. BehindIsLate'
        BY <1>6, <3>1 DEF Finish, BehindIsLate
      <3>3. KeyInOrder'
        BY <1>6, <3>1 DEF Finish, KeyInOrder
      <3>. QED
        BY <3>2, <3>3
    <2>. QED
      BY <2>1, <2>2, <2>3
  <1>7. ASSUME UNCHANGED <<pc, path, key, behind, tail, ticket, made>>, exists' \subseteq Files
        PROVE  QueueInv'
    BY <1>7 DEF Tickets, ChainOrder, TailIsLast, BehindIsLate, KeyInOrder
  <1>8. ASSUME NEW c \in Calls, Create(c) PROVE QueueInv'
    BY <1>7, <1>8 DEF Create
  <1>9. ASSUME NEW f \in Files, Remove(f) PROVE QueueInv'
    BY <1>7, <1>9 DEF Remove
  <1>10. CASE UNCHANGED vars
    BY <1>7, <1>10 DEF vars
  <1>. QED
    BY <1>1, <1>2, <1>3, <1>4, <1>5, <1>6, <1>8, <1>9, <1>10 DEF Next, CallStep

\* The inductive invariant holds in every reachable state.
THEOREM QueueInvHolds == Spec => []QueueInv
  BY QueueInit, QueueNext, PTL DEF Spec

\* The variables keep their types.
THEOREM QueueTypes == Spec => []TypeOK
  <1>1. QueueInv => TypeOK
    BY DEF QueueInv
  <1>. QED
    BY <1>1, QueueInvHolds, PTL

\* The calls of one key run one at a time and in the order they were made,
\* whatever happens to the files and whichever registrations fail.
THEOREM KeyInOrderHolds == Spec => []KeyInOrder
  <1>1. QueueInv => KeyInOrder
    BY DEF QueueInv
  <1>. QED
    BY <1>1, QueueInvHolds, PTL

\* The map has an entry for a key exactly while the key is in use.
THEOREM MapIsLiveHolds == Spec => []MapIsLive
  <1>1. ASSUME QueueInv PROVE MapIsLive
    BY <1>1 DEF QueueInv, TypeOK, TailIsLast, MapIsLive
  <1>. QED
    BY <1>1, QueueInvHolds, PTL

-----------------------------------------------------------------------------

\* No path through a link leads to a file that may be missing.
StablePaths == \A p \in Paths : p \in Canonical \/ FileOf[p] \notin Fickle

\* Then the key of a registered call is the file it mutates.
KeyIsFile ==
    /\ Files \ Fickle \subseteq exists
    /\ \A c \in Calls : pc[c] \in Registered \union {"resolved"} => key[c] = FileOf[path[c]]

\* The key of a call is its file, from its registration on.
LEMMA KeyIsFileHolds == ASSUME StablePaths PROVE Spec => []KeyIsFile
  <1>1. Init => KeyIsFile
    BY DEF Init, KeyIsFile
  <1>2. QueueInv /\ KeyIsFile /\ [Next]_vars => KeyIsFile'
    <2>. SUFFICES ASSUME QueueInv, KeyIsFile, [Next]_vars PROVE KeyIsFile'
      OBVIOUS
    <2>. USE DEF QueueInv, TypeOK, KeyIsFile
    <2>1. ASSUME NEW c \in Calls, CallStep(c) PROVE KeyIsFile'
      <3>1. CASE Realpath(c)
        BY <3>1, StablePaths DEF Realpath, Literal, StablePaths
      <3>2. CASE Call(c) \/ RealpathFails(c) \/ Register(c)
        BY <3>2 DEF Call, RealpathFails, Register
      <3>3. CASE Start(c) \/ Create(c) \/ Finish(c)
        BY <3>3 DEF Start, Create, Finish
      <3>. QED
        BY <2>1, <3>1, <3>2, <3>3 DEF CallStep
    <2>2. ASSUME NEW f \in Files, Remove(f) PROVE KeyIsFile'
      BY <2>2 DEF Remove
    <2>3. CASE UNCHANGED vars
      BY <2>3 DEF vars
    <2>. QED
      BY <2>1, <2>2, <2>3 DEF Next
  <1>. QED
    BY <1>1, <1>2, QueueInvHolds, PTL DEF Spec

\* No two calls mutate one file at the same time, when paths are stable.
THEOREM SameFileSerializedHolds == ASSUME StablePaths PROVE Spec => []SameFileSerialized
  <1>1. ASSUME QueueInv, KeyIsFile PROVE SameFileSerialized
    <2>. SUFFICES ASSUME NEW c \in Calls, NEW d \in Calls, c # d,
                         pc[c] = "running", pc[d] = "running", FileOf[path[c]] = FileOf[path[d]]
                  PROVE  FALSE
      BY DEF SameFileSerialized
    <2>1. key[c] = key[d]
      BY <1>1 DEF KeyIsFile
    <2>2. ticket[c] < ticket[d] \/ ticket[d] < ticket[c]
      BY <1>1 DEF QueueInv, TypeOK, Tickets
    <2>. QED
      BY <1>1, <2>1, <2>2 DEF QueueInv, KeyInOrder
  <1>. QED
    BY <1>1, QueueInvHolds, KeyIsFileHolds, PTL

\* The queue implements the lock: every step of a call is a step of the lock
\* or leaves it as it is, when paths are stable.
THEOREM QueueImplementsLock == ASSUME StablePaths PROVE Spec => ImplementsLock
  <1>. USE DEF Lock!lockVars
  <1>1. Init => Lock!Init
    BY DEF Init, Lock!Init
  <1>2. QueueInv /\ KeyIsFile /\ [Next]_vars => [Lock!Next]_(Lock!lockVars)
    <2>. SUFFICES ASSUME QueueInv, KeyIsFile, [Next]_vars PROVE [Lock!Next]_(Lock!lockVars)
      OBVIOUS
    <2>. USE DEF QueueInv, TypeOK
    <2>1. ASSUME NEW c \in Calls, CallStep(c) PROVE [Lock!Next]_(Lock!lockVars)
      <3>1. CASE Call(c)
        <4>1. Lock!Ask(c)
          BY <3>1 DEF Call, Lock!Ask
        <4>. QED
          BY <4>1 DEF Lock!Next
      <3>2. CASE Realpath(c) \/ Register(c)
        BY <3>2 DEF Realpath, Register
      <3>3. CASE RealpathFails(c)
        <4>1. Lock!Leave(c)
          BY <3>3 DEF RealpathFails, Lock!Leave
        <4>. QED
          BY <4>1 DEF Lock!Next
      <3>4. CASE Start(c)
        <4>1. ASSUME NEW d \in Calls, pc[d] \notin {"new", "over", "rejected"},
                     FileOf[path[d]] = FileOf[path[c]], ticket[d] < ticket[c]
              PROVE  FALSE
          <5>1. pc[d] \in Registered
            BY <3>4, <4>1 DEF Start, ChainOrder
          <5>2. key[d] = key[c]
            BY <3>4, <4>1, <5>1 DEF Start, KeyIsFile
          <5>3. KeyInOrder'
            BY QueueNext
          <5>. QED
            BY <3>4, <4>1, <5>1, <5>2, <5>3 DEF Start, KeyInOrder
        <4>2. Lock!Enter(c)
          BY <3>4, <4>1 DEF Start, Lock!Enter, Lock!Ahead
        <4>. QED
          BY <4>2 DEF Lock!Next
      <3>5. CASE Create(c)
        BY <3>5 DEF Create
      <3>6. CASE Finish(c)
        <4>1. Lock!Leave(c)
          BY <3>6 DEF Finish, Lock!Leave
        <4>. QED
          BY <4>1 DEF Lock!Next
      <3>. QED
        BY <2>1, <3>1, <3>2, <3>3, <3>4, <3>5, <3>6 DEF CallStep
    <2>2. ASSUME NEW f \in Files, Remove(f) PROVE [Lock!Next]_(Lock!lockVars)
      BY <2>2 DEF Remove
    <2>3. CASE UNCHANGED vars
      BY <2>3 DEF vars
    <2>. QED
      BY <2>1, <2>2, <2>3 DEF Next
  <1>. QED
    BY <1>1, <1>2, QueueInvHolds, KeyIsFileHolds, PTL DEF Spec, ImplementsLock, Lock!LockSpec
=============================================================================
