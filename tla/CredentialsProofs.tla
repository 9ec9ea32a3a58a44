-------------------------- MODULE CredentialsProofs --------------------------
(***************************************************************************)
(* Theorems about Credentials, for every number of processes, providers    *)
(* and concurrent calls, and for behaviours of any length.                 *)
(***************************************************************************)
EXTENDS Credentials, TLAPS

(***************************************************************************)
(* Types                                                                   *)
(***************************************************************************)
BoundNames == {"calls", "sessions", "expiries", "failures", "crashes", "torn", "stalls", "slow"}
Contents == Data \union {None}
CallPcs == {"none", "read", "reading", "locking", "leaving", "refreshing", "writing", "truncated",
            "releasing", "released"}

\* Where a call has the lock, unless it lost it; and a process has its calls.
InLock == {"leaving", "refreshing", "writing", "truncated", "releasing"}
Running == {"loading", "up"}
USE DEF InLock, Running

CallRecord ==
    [pc : CallPcs, kind : Kinds \union {"none"}, prov : Providers \union {None},
     seen : Contents, token : 0..tokens, tag : Nat, compromised : BOOLEAN, failed : BOOLEAN]
ReloadRecord == [pc : {"none", "locking", "tagging", "holding", "released"}, data : Contents]
Owners == CallIds \union (Processes \X {0}) \union {Dead, None}

\* The types of the variables.
FileType == file \in Contents /\ written \in Data /\ rev \in Nat \ {0}
ProcessType ==
    /\ up \in [Processes -> {"down", "creating", "loading", "up"}]
    /\ cache \in [Processes -> [data : Contents, rev : Nat]]
    /\ reload \in [Processes -> ReloadRecord]
CallType ==
    /\ call \in [CallIds -> CallRecord]
    /\ \A c \in CallIds : call[c].pc # "none" => call[c].kind \in Kinds /\ call[c].prov \in Providers
ServerType ==
    /\ tokens \in Nat \ {0} /\ reused \in BOOLEAN
    /\ expired \subseteq 1..tokens /\ spent \subseteq 1..tokens
BoundType == used \in [BoundNames -> Nat] /\ \A b \in BoundNames : used[b] <= scenario[b]

\* Calls and reloads are made by processes that are up, and such a process finds
\* a file; what a call has read under the lock are the contents of one, with a token
\* that is to expire if the call refreshes it.
CallsUp ==
    \A c \in CallIds :
        /\ call[c].pc # "none" => up[c[1]] \in Running
        /\ call[c].pc \in InLock => call[c].seen \in Data
        /\ call[c].pc = "refreshing" =>
               call[c].kind = "resolve" /\ call[c].seen[call[c].prov] \in expired
ProcessesUp ==
    \A p \in Processes :
        /\ reload[p].pc # "none" => up[p] \in Running
        /\ up[p] \in Running => file # None

TypeInv ==
    /\ scenario \in Scenarios /\ lock \in Owners
    /\ FileType /\ ProcessType /\ CallType /\ ServerType /\ BoundType
    /\ CallsUp /\ ProcessesUp

\* Tokens are only ever issued, so what was well typed stays so.
LEMMA DataGrows ==
    ASSUME tokens \in Nat, tokens' \in Nat, tokens <= tokens'
    PROVE  /\ Data \subseteq Data' /\ Contents \subseteq Contents'
           /\ CallRecord \subseteq CallRecord' /\ ReloadRecord \subseteq ReloadRecord'
<1>1. 0..tokens \subseteq 0..tokens'
  OBVIOUS
<1>2. Data \subseteq Data' /\ Contents \subseteq Contents'
  BY <1>1 DEF Data, Contents
<1>. QED
  BY <1>1, <1>2 DEF CallRecord, ReloadRecord

\* A step that makes a record of one call, and leaves the other calls alone.
LEMMA GoesType ==
    ASSUME CallType, tokens \in Nat, tokens' \in Nat, tokens <= tokens',
           NEW c \in CallIds, NEW rec \in CallRecord', Goes(c, rec),
           rec.pc # "none" => rec.kind \in Kinds /\ rec.prov \in Providers
    PROVE  CallType'
<1>1. \A d \in CallIds : call[d] \in CallRecord'
  BY DataGrows DEF CallType
<1>2. call' = [call EXCEPT ![c] = rec] /\ call \in [CallIds -> CallRecord]
  BY DEF Goes, CallType
<1>3. call' \in [CallIds -> CallRecord']
  BY <1>1, <1>2
<1>. QED
  BY <1>2, <1>3 DEF CallType, CallIds

\* The records that stand for nothing.
LEMMA NothingTypes ==
    ASSUME tokens \in Nat \ {0}
    PROVE  /\ NoCall \in CallRecord /\ NoCall.pc = "none" /\ NoReload \in ReloadRecord
           /\ Empty \in Data
<1>1. Empty \in Data
  BY DEF Empty, Data
<1>2. NoReload \in ReloadRecord
  BY <1>1 DEF NoReload, ReloadRecord, Contents
<1>. QED
  BY <1>1, <1>2 DEF NoCall, CallRecord, Contents, CallPcs

\* A step that leaves the calls alone leaves them well typed.
LEMMA SameCalls ==
    ASSUME CallType, tokens \in Nat, tokens' \in Nat, tokens <= tokens', UNCHANGED call
    PROVE  CallType'
BY DataGrows DEF CallType

\* What a read of the file leads to is a record of a call.
LEMMA ResolveType ==
    ASSUME tokens \in Nat \ {0}, NEW rec \in CallRecord, NEW data, rec.prov \in Providers,
           rec.kind \in Kinds
    PROVE  /\ Resolve(rec, data) \in CallRecord
           /\ Resolve(rec, data).pc \in {"none", "locking"}
           /\ Resolve(rec, data).pc # "none" =>
                  Resolve(rec, data) = [rec EXCEPT !.pc = "locking"]
<1>1. [rec EXCEPT !.pc = "locking"] \in CallRecord
  BY DEF CallRecord, CallPcs
<1>2. [rec EXCEPT !.pc = "locking"].pc = "locking"
  BY DEF CallRecord
<1>. QED
  BY <1>1, <1>2, NothingTypes DEF Resolve

\* A file with content is not taken for one that is absent.
LEMMA NoneIsNoContent ==
    ASSUME tokens \in Nat
    PROVE  None \notin Data
BY CredentialsAssumption DEF Data

\* The call that takes a step becomes a well-typed record, and is of a process
\* that is up.
LEMMA CallMoves ==
    ASSUME CallType, CallsUp, tokens \in Nat, tokens' \in Nat, tokens <= tokens', UNCHANGED up,
           expired \subseteq expired',
           NEW c \in CallIds, NEW rec \in CallRecord', Goes(c, rec),
           rec.pc # "none" => rec.kind \in Kinds /\ rec.prov \in Providers /\ up[c[1]] \in Running,
           rec.pc \in InLock => rec.seen \in Data',
           rec.pc = "refreshing" => rec.kind = "resolve" /\ rec.seen[rec.prov] \in expired
    PROVE  CallType' /\ CallsUp'
<1>1. CallType'
  BY GoesType
<1>2. \A d \in CallIds : call'[d] = IF d = c THEN rec ELSE call[d]
  BY DEF Goes, CallType
<1>3. CallsUp'
  BY <1>2, DataGrows DEF CallsUp
<1>. QED
  BY <1>1, <1>3

\* The processes, when none of them starts, stops or reads the file.
LEMMA ProcessesStay ==
    ASSUME ProcessType, ProcessesUp, tokens \in Nat, tokens' \in Nat, tokens <= tokens',
           UNCHANGED <<up, cache, reload>>, file' = None => file = None
    PROVE  ProcessType' /\ ProcessesUp'
<1>1. Contents \subseteq Contents' /\ ReloadRecord \subseteq ReloadRecord'
  BY DataGrows
<1>. QED
  BY <1>1 DEF ProcessType, ProcessesUp

\* The files and the servers, when no token is issued.
LEMMA FilesStay ==
    ASSUME TypeInv, UNCHANGED <<fileVars, tokens>>
    PROVE  FileType'
BY DEF TypeInv, FileType, fileVars, Data, Contents

\* A bound is used at most as often as the scenario allows.
LEMMA UsesType ==
    ASSUME BoundType, scenario \in Scenarios, UNCHANGED scenario,
           UNCHANGED used \/ (\E b \in BoundNames : Uses(b))
    PROVE  BoundType'
<1>1. \A b \in BoundNames : scenario[b] \in Nat
  BY CredentialsAssumption DEF BoundNames
<1>. QED
  BY <1>1 DEF BoundType, Uses

\* A read of the file by a call answers it, or makes it wait for a reload.
LEMMA ReadType ==
    ASSUME TypeInv, NEW c \in CallIds, Read(c), UNCHANGED scenario
    PROVE  TypeInv'
<1> /\ FileType /\ ProcessType /\ CallType /\ ServerType /\ BoundType /\ CallsUp /\ ProcessesUp
    /\ call[c] \in CallRecord /\ c[1] \in Processes /\ tokens \in Nat \ {0} /\ tokens <= tokens
  BY DEF TypeInv, ServerType, CallIds, CallType
<1>1. /\ call[c].pc = "read" /\ UNCHANGED <<fileVars, lock, up, cache, used, serverVars>>
      /\ call[c].kind \in Kinds /\ call[c].prov \in Providers /\ up[c[1]] = "up"
  BY DEF Read, CallType, CallsUp
<1>2. Data' = Data /\ Contents' = Contents /\ CallRecord' = CallRecord /\ tokens' = tokens
      /\ expired' = expired
  BY <1>1 DEF serverVars, Data, Contents, CallRecord
<1>3. CallType' /\ CallsUp'
  <2>1. CASE cache[c[1]].rev = rev
    <3> DEFINE rec == Resolve(call[c], cache[c[1]].data)
    <3>1. Goes(c, rec)
      BY <2>1 DEF Read
    <3>2. rec \in CallRecord /\ rec.pc \in {"none", "locking"}
          /\ (rec.pc # "none" => rec.kind \in Kinds /\ rec.prov \in Providers)
      BY <1>1, ResolveType DEF CallRecord
    <3>. QED
      BY <1>1, <1>2, <3>1, <3>2, CallMoves
  <2>2. CASE cache[c[1]].rev # rev
    <3> DEFINE rec == [call[c] EXCEPT !.pc = "reading"]
    <3>1. Goes(c, rec)
      BY <2>2 DEF Read
    <3>2. /\ rec \in CallRecord /\ rec.pc = "reading" /\ rec.kind = call[c].kind
          /\ rec.prov = call[c].prov
      BY DEF CallRecord, CallPcs
    <3>. QED
      BY <1>1, <1>2, <3>1, <3>2, CallMoves
  <2>. QED
    BY <2>1, <2>2
<1>4. ProcessType' /\ ProcessesUp'
  <2>1. reload' = reload \/ reload' = [reload EXCEPT ![c[1]].pc = "locking"]
    BY DEF Read
  <2>2. /\ reload' \in [Processes -> ReloadRecord]
        /\ \A p \in Processes : reload'[p].pc # "none" => reload[p].pc # "none" \/ p = c[1]
    BY <2>1 DEF ProcessType, ReloadRecord
  <2>. QED
    BY <1>1, <1>2, <2>2 DEF ProcessType, ProcessesUp, fileVars, ReloadRecord
<1>. QED
  BY <1>1, <1>2, <1>3, <1>4, FilesStay, UsesType DEF TypeInv, ServerType, serverVars, Owners

\* What a call does to the lock, the file and the servers keeps the types.
LEMMA CallStepType ==
    ASSUME TypeInv, NEW c \in CallIds, CallStep(c), UNCHANGED scenario
    PROVE  TypeInv'
<1> /\ FileType /\ ProcessType /\ CallType /\ ServerType /\ BoundType /\ CallsUp /\ ProcessesUp
    /\ scenario \in Scenarios /\ lock \in Owners /\ tokens \in Nat \ {0}
    /\ call[c] \in CallRecord /\ c[1] \in Processes /\ {c, None} \subseteq Owners
    /\ NoCall \in CallRecord /\ NoCall.pc = "none" /\ "failures" \in BoundNames
  BY NothingTypes DEF TypeInv, ServerType, CallIds, CallType, Owners, BoundNames
<1>0. call[c].pc # "none" =>
          call[c].kind \in Kinds /\ call[c].prov \in Providers /\ up[c[1]] \in Running /\ file \in Data
  BY DEF CallType, CallsUp, ProcessesUp, FileType, Contents
<1>1. CASE Read(c)
  BY <1>1, ReadType
<1>2. ASSUME UNCHANGED <<fileVars, serverVars, up, cache, reload>>, lock' \in Owners,
             UNCHANGED used \/ Uses("failures"),
             NEW rec \in CallRecord, Goes(c, rec),
             rec.pc # "none" => call[c].pc # "none" /\ rec.kind = call[c].kind /\ rec.prov = call[c].prov,
             rec.pc \in InLock => rec.seen \in Data,
             rec.pc = "refreshing" => rec.kind = "resolve" /\ rec.seen[rec.prov] \in expired
      PROVE  TypeInv'
  <2>1. /\ Data' = Data /\ CallRecord' = CallRecord /\ Owners' = Owners /\ tokens' = tokens
        /\ file' = file /\ expired' = expired
    BY <1>2 DEF serverVars, fileVars, Data, Contents, CallRecord, Owners
  <2>2. CallType' /\ CallsUp'
    BY <1>0, <1>2, <2>1, CallMoves
  <2>3. ProcessType' /\ ProcessesUp'
    BY <1>2, <2>1, ProcessesStay
  <2>. QED
    BY <1>2, <2>1, <2>2, <2>3, FilesStay, UsesType DEF TypeInv, ServerType, serverVars
<1>3. CASE Lock(c)
  <2> DEFINE leave == /\ call[c].kind = "resolve"
                      /\ file[call[c].prov] = 0 \/ file[call[c].prov] \notin expired
             rec == [call[c] EXCEPT !.seen = file, !.tag = 0,
                                    !.pc = IF leave THEN "leaving"
                                           ELSE IF call[c].kind = "resolve"
                                                THEN "refreshing" ELSE "writing"]
  <2>1. /\ UNCHANGED <<fileVars, serverVars, up, cache, reload, used>> /\ lock' = c
        /\ call[c].pc = "locking" /\ Goes(c, rec)
    BY <1>3 DEF Lock
  <2>2. file \in Contents /\ rev \in Nat
    BY DEF FileType
  <2>4. ~leave => call[c].kind # "resolve" \/ file[call[c].prov] \in expired
    OBVIOUS
  <2> HIDE DEF leave
  <2>3. /\ rec \in CallRecord /\ rec.seen = file
        /\ rec.kind = call[c].kind /\ rec.prov = call[c].prov
        /\ rec.pc = "refreshing" => ~leave /\ call[c].kind = "resolve"
    BY <2>2 DEF CallRecord, CallPcs
  <2> HIDE DEF rec
  <2>. QED
    BY <1>0, <1>2, <2>1, <2>3, <2>4
<1>10. CASE Leave(c)
  <2> DEFINE rec == [call[c] EXCEPT !.tag = rev, !.pc = "releasing"]
  <2>1. /\ rec \in CallRecord /\ rec.pc = "releasing" /\ rec.seen = call[c].seen
        /\ rec.kind = call[c].kind /\ rec.prov = call[c].prov
    BY DEF CallRecord, CallPcs, FileType
  <2>2. call[c].seen \in Data
    BY <1>10 DEF Leave, CallsUp
  <2>3. /\ UNCHANGED <<fileVars, serverVars, up, cache, reload, used, lock>> /\ Goes(c, rec)
        /\ call[c].pc # "none"
    BY <1>10 DEF Leave
  <2> HIDE DEF rec
  <2>. QED
    BY <1>2, <2>1, <2>2, <2>3
<1>4. CASE LockFails(c)
  BY <1>2, <1>4 DEF LockFails
<1>5. CASE Refresh(c)
  <2> DEFINE token == call[c].seen[call[c].prov]
             rec == IF token \in spent
                    THEN [call[c] EXCEPT !.pc = "releasing", !.failed = TRUE]
                    ELSE [call[c] EXCEPT !.pc = "writing", !.token = tokens + 1]
  <2>1. /\ UNCHANGED <<fileVars, lock, up, cache, reload, used, expired>>
        /\ call[c].pc = "refreshing" /\ Goes(c, rec)
        /\ \/ token \in spent /\ UNCHANGED <<tokens, spent>> /\ reused' = TRUE
           \/ /\ token \notin spent /\ tokens' = tokens + 1 /\ spent' = spent \union {token}
              /\ UNCHANGED reused
    BY <1>5 DEF Refresh
  <2>2. call[c].seen \in Data /\ token \in expired /\ token \in 1..tokens
    BY <2>1 DEF CallsUp, ServerType
  <2>3. tokens' \in Nat \ {0} /\ tokens <= tokens'
    BY <2>1
  <2>4. Data \subseteq Data' /\ Contents \subseteq Contents' /\ CallRecord \subseteq CallRecord'
    BY <2>3, DataGrows
  <2>5. /\ rec \in CallRecord' /\ rec.seen = call[c].seen /\ rec.pc \in {"releasing", "writing"}
        /\ rec.kind = call[c].kind /\ rec.prov = call[c].prov
    <3> HIDE DEF token
    <3>1. CASE token \in spent
      BY <2>4, <3>1 DEF CallRecord, CallPcs
    <3>2. CASE token \notin spent
      <4>1. tokens' = tokens + 1 /\ call[c] \in CallRecord' /\ tokens + 1 \in 0..tokens'
        BY <2>1, <2>4, <3>2
      <4>2. rec = [call[c] EXCEPT !.pc = "writing", !.token = tokens + 1]
        BY <3>2
      <4> HIDE DEF rec
      <4>. QED
        BY <4>1, <4>2 DEF CallRecord, CallPcs
    <3>. QED
      BY <3>1, <3>2
  <2> HIDE DEF rec, token
  <2>6. CallType' /\ CallsUp'
    BY <1>0, <2>1, <2>2, <2>3, <2>4, <2>5, CallMoves
  <2>7. ProcessType' /\ ProcessesUp'
    BY <2>1, <2>3, ProcessesStay DEF fileVars
  <2>8. FileType' /\ ServerType'
    <3>1. FileType'
      BY <2>1, <2>4 DEF FileType, fileVars
    <3>2. 1..tokens \subseteq 1..tokens'
      BY <2>3
    <3>3. spent' \subseteq 1..tokens' /\ expired' \subseteq 1..tokens' /\ reused' \in BOOLEAN
      BY <2>1, <2>2, <3>2 DEF ServerType
    <3>. QED
      BY <2>3, <3>1, <3>3 DEF ServerType
  <2>. QED
    BY <2>1, <2>3, <2>6, <2>7, <2>8, UsesType DEF TypeInv, Owners
<1>6. CASE RefreshFails(c)
  <2>1. [call[c] EXCEPT !.pc = "releasing", !.failed = TRUE] \in CallRecord
    BY DEF CallRecord, CallPcs
  <2>. QED
    BY <1>2, <1>6, <2>1 DEF RefreshFails, CallRecord, CallsUp
<1>11. CASE Truncate(c)
  <2>1. CASE call[c].compromised
    <3>1. [call[c] EXCEPT !.pc = "releasing", !.failed = TRUE] \in CallRecord
      BY DEF CallRecord, CallPcs
    <3>2. UNCHANGED fileVars
      BY <1>11, <2>1 DEF Truncate, fileVars
    <3>. QED
      BY <1>2, <1>11, <2>1, <3>1, <3>2 DEF Truncate, CallRecord, CallsUp
  <2>2. CASE ~call[c].compromised
    <3> DEFINE rec == [call[c] EXCEPT !.pc = "truncated"]
    <3>1. /\ file' = Empty /\ rev' = rev + 1 /\ UNCHANGED written
          /\ call[c].pc = "writing" /\ Goes(c, rec)
          /\ UNCHANGED <<lock, up, cache, reload, used, serverVars>>
      BY <1>11, <2>2 DEF Truncate
    <3>2. Empty \in Data /\ call[c].seen \in Data
      BY <3>1, NothingTypes DEF CallsUp
    <3>3. /\ rec \in CallRecord /\ rec.seen = call[c].seen /\ rec.pc = "truncated"
          /\ rec.kind = call[c].kind /\ rec.prov = call[c].prov
      BY DEF CallRecord, CallPcs
    <3> HIDE DEF rec
    <3>4. /\ Data' = Data /\ Contents' = Contents /\ CallRecord' = CallRecord
          /\ tokens' = tokens /\ expired' = expired /\ tokens <= tokens
      BY <3>1 DEF serverVars, Data, Contents, CallRecord
    <3>5. CallType' /\ CallsUp'
      BY <1>0, <3>1, <3>2, <3>3, <3>4, CallMoves
    <3>6. FileType'
      BY <3>1, <3>2, <3>4 DEF FileType, Contents
    <3>7. file' # None
      BY <3>1, <3>2, NoneIsNoContent
    <3>8. ProcessType' /\ ProcessesUp'
      BY <3>1, <3>4, <3>7, ProcessesStay
    <3>. QED
      BY <3>1, <3>4, <3>5, <3>6, <3>8, UsesType DEF TypeInv, ServerType, serverVars, Owners
  <2>. QED
    BY <2>1, <2>2
<1>7. CASE Write(c)
  <2> DEFINE content == [call[c].seen EXCEPT ![call[c].prov] = call[c].token]
             rec == [call[c] EXCEPT !.pc = "releasing", !.seen = content]
  <2>1. /\ file' = content /\ rev' = rev + 1
        /\ written' = [written EXCEPT ![call[c].prov] = call[c].token]
        /\ call[c].pc = "truncated" /\ Goes(c, rec)
        /\ UNCHANGED <<lock, up, cache, reload, used, serverVars>>
    BY <1>7 DEF Write
  <2>2. content \in Data /\ call[c].token \in 0..tokens
    BY <2>1 DEF CallsUp, CallRecord, Data
  <2> HIDE DEF content
  <2>3. /\ rec \in CallRecord /\ rec.seen = content /\ rec.pc = "releasing"
        /\ rec.kind = call[c].kind /\ rec.prov = call[c].prov
    BY <2>2 DEF CallRecord, CallPcs, Contents
  <2> HIDE DEF rec
  <2>4. /\ Data' = Data /\ Contents' = Contents /\ CallRecord' = CallRecord
        /\ tokens' = tokens /\ expired' = expired /\ tokens <= tokens
    BY <2>1 DEF serverVars, Data, Contents, CallRecord
  <2>5. CallType' /\ CallsUp'
    BY <1>0, <2>1, <2>2, <2>3, <2>4, CallMoves
  <2>6. FileType'
    <3>1. written' \in Data
      BY <2>1, <2>2 DEF FileType, Data
    <3>. QED
      BY <2>1, <2>2, <2>4, <3>1 DEF FileType, Contents
  <2>7. file' # None
    BY <2>1, <2>2, NoneIsNoContent
  <2>8. ProcessType' /\ ProcessesUp'
    BY <2>1, <2>4, <2>7, ProcessesStay
  <2>. QED
    BY <2>1, <2>4, <2>5, <2>6, <2>8, UsesType DEF TypeInv, ServerType, serverVars, Owners
<1>8. CASE Release(c)
  <2> DEFINE rec == [call[c] EXCEPT !.pc = "released"]
  <2>1. rec \in CallRecord /\ rec.pc = "released" /\ rec.kind = call[c].kind /\ rec.prov = call[c].prov
    BY DEF CallRecord, CallPcs
  <2>2. lock' \in Owners
    BY <1>8 DEF Release, Free
  <2>. QED
    BY <1>2, <1>8, <2>1, <2>2 DEF Release
<1>9. CASE Done(c)
  <2>1. /\ UNCHANGED <<fileVars, lock, up, reload, used, serverVars>>
        /\ cache' = cache
             \/ cache' = [cache EXCEPT ![c[1]] = [data |-> call[c].seen, rev |-> call[c].tag]]
        /\ Goes(c, NoCall)
    BY <1>9 DEF Done
  <2>2. /\ Data' = Data /\ Contents' = Contents /\ CallRecord' = CallRecord
        /\ tokens' = tokens /\ expired' = expired /\ tokens <= tokens
        /\ ReloadRecord' = ReloadRecord
    BY <2>1 DEF serverVars, Data, Contents, CallRecord, ReloadRecord
  <2>3. CallType' /\ CallsUp'
    BY <2>1, <2>2, CallMoves
  <2>4. [data |-> call[c].seen, rev |-> call[c].tag] \in [data : Contents, rev : Nat]
    BY DEF CallRecord
  <2>5. ProcessType' /\ ProcessesUp'
    BY <2>1, <2>2, <2>4 DEF ProcessType, ProcessesUp, fileVars
  <2>. QED
    BY <2>1, <2>2, <2>3, <2>5, FilesStay, UsesType DEF TypeInv, ServerType, serverVars, Owners
<1>. QED
  BY <1>1, <1>3, <1>4, <1>5, <1>6, <1>7, <1>8, <1>9, <1>10, <1>11 DEF CallStep

\* The application makes a call.
LEMMA CallMadeType ==
    ASSUME TypeInv, NEW c \in CallIds, NEW kind \in Kinds, NEW q \in Providers,
           Call(c, kind, q), UNCHANGED scenario
    PROVE  TypeInv'
<1> /\ FileType /\ ProcessType /\ CallType /\ ServerType /\ BoundType /\ CallsUp /\ ProcessesUp
    /\ tokens \in Nat \ {0} /\ "calls" \in BoundNames
  BY DEF TypeInv, ServerType, BoundNames
<1> DEFINE rec == [NoCall EXCEPT !.pc = IF kind = "resolve" THEN "read" ELSE "locking",
                                 !.kind = kind, !.prov = q,
                                 !.token = IF kind = "login" THEN tokens + 1 ELSE 0]
<1>1. /\ up[c[1]] = "up" /\ Goes(c, rec) /\ Uses("calls")
      /\ tokens' = IF kind = "login" THEN tokens + 1 ELSE tokens
      /\ UNCHANGED <<fileVars, lock, up, cache, reload, expired, spent, reused>>
  BY DEF Call
<1>2. tokens' \in Nat \ {0} /\ tokens <= tokens'
  BY <1>1
<1>3. Data \subseteq Data' /\ Contents \subseteq Contents' /\ CallRecord \subseteq CallRecord'
  BY <1>2, DataGrows
<1>4. /\ rec \in CallRecord' /\ rec.pc \in {"read", "locking"} /\ rec.kind = kind /\ rec.prov = q
  <2>1. NoCall \in CallRecord' /\ (IF kind = "login" THEN tokens + 1 ELSE 0) \in 0..tokens'
    BY <1>1, <1>3, NothingTypes
  <2>. QED
    BY <2>1 DEF CallRecord, CallPcs
<1> HIDE DEF rec
<1>5. CallType' /\ CallsUp'
  BY <1>1, <1>2, <1>4, CallMoves
<1>6. ProcessType' /\ ProcessesUp'
  BY <1>1, <1>2, ProcessesStay DEF fileVars
<1>7. FileType' /\ ServerType'
  <2>1. 1..tokens \subseteq 1..tokens'
    BY <1>2
  <2>. QED
    BY <1>1, <1>2, <1>3, <2>1 DEF FileType, ServerType, fileVars
<1>. QED
  BY <1>1, <1>5, <1>6, <1>7, UsesType DEF TypeInv, Owners

\* A reload of a process, and all calls that wait for it.
LEMMA ReloadStepType ==
    ASSUME TypeInv, NEW p \in Processes, ReloadStep(p), UNCHANGED scenario
    PROVE  TypeInv'
<1> /\ FileType /\ ProcessType /\ CallType /\ ServerType /\ BoundType /\ CallsUp /\ ProcessesUp
    /\ tokens \in Nat \ {0} /\ {"failures", "slow"} \subseteq BoundNames
  BY DEF TypeInv, ServerType, BoundNames
<1> USE DEF ReloadStep, ReloadLocks, LoadTakesOver, ReloadReads, ReloadTags, ReloadReleases, ReloadDone,
            ReloadFails, Reloaded
<1>1. /\ UNCHANGED <<fileVars, serverVars>>
      /\ Data' = Data /\ Contents' = Contents /\ CallRecord' = CallRecord /\ tokens <= tokens
      /\ ReloadRecord' = ReloadRecord
  <2>1. UNCHANGED <<fileVars, serverVars>>
    OBVIOUS
  <2>. QED
    BY <2>1 DEF serverVars, Data, Contents, CallRecord, ReloadRecord
<1>2. BoundType' /\ FileType' /\ ServerType' /\ scenario' \in Scenarios
  <2>1. UNCHANGED used \/ (\E b \in BoundNames : Uses(b))
    OBVIOUS
  <2> USE DEF serverVars
  <2>. QED
    BY <1>1, <2>1, UsesType, FilesStay DEF TypeInv, ServerType
<1>3. lock' \in Owners'
  BY DEF Free, TypeInv, Owners
<1>4. reload[p].pc # "none" /\ up[p] \in Running /\ up' \in [Processes -> {"down", "creating", "loading", "up"}]
      /\ \A r \in Processes : up'[r] = up[r] \/ (r = p /\ up'[r] = "up")
  BY DEF ProcessesUp, ProcessType
<1>5. ProcessType' /\ ProcessesUp'
  <2>1. /\ cache' \in [Processes -> [data : Contents, rev : Nat]]
    <3>1. reload[p].data \in Contents /\ rev \in Nat
      BY DEF ProcessType, ReloadRecord, FileType
    <3>. QED
      BY <3>1 DEF ProcessType
  <2>2. /\ reload' \in [Processes -> ReloadRecord]
        /\ \A r \in Processes : reload'[r].pc # "none" => reload[r].pc # "none"
    <3>1. \E rec \in ReloadRecord : /\ reload' = [reload EXCEPT ![p] = rec]
                                    /\ rec.pc # "none" => reload[p].pc # "none"
      <4>1. CASE ReloadLocks(p) \/ LoadTakesOver(p)
        <5>1. [pc |-> "tagging", data |-> file] \in ReloadRecord
          BY DEF FileType, ReloadRecord
        <5>. QED
          BY <4>1, <5>1
      <4>2. CASE ReloadReleases(p) \/ ReloadTags(p)
        <5>1. /\ [reload[p] EXCEPT !.pc = "released"] \in ReloadRecord
              /\ [reload[p] EXCEPT !.pc = "holding"] \in ReloadRecord
          BY DEF ProcessType, ReloadRecord
        <5>. QED
          BY <4>2, <5>1
      <4>3. CASE ReloadDone(p) \/ ReloadFails(p)
        BY <4>3, NothingTypes DEF NoReload
      <4>. QED
        BY <4>1, <4>2, <4>3
    <3>. QED
      BY <3>1 DEF ProcessType
  <2>. QED
    BY <1>1, <1>4, <2>1, <2>2 DEF ProcessType, ProcessesUp, fileVars
<1>6. CallType' /\ CallsUp'
  <2>1. CASE UNCHANGED call
    <3>1. CallType'
      BY <1>1, <2>1, SameCalls DEF serverVars
    <3>. QED
      BY <1>1, <1>4, <2>1, <3>1 DEF CallsUp, CallIds, serverVars
  <2>2. ASSUME NEW data,
               call' = [c \in CallIds |-> IF c[1] = p /\ call[c].pc = "reading"
                                          THEN Resolve(call[c], data) ELSE call[c]]
        PROVE  CallType' /\ CallsUp'
    <3>1. ASSUME NEW c \in CallIds
          PROVE  \/ call'[c] = call[c]
                 \/ /\ call'[c] \in CallRecord /\ call[c].pc # "none"
                    /\ call'[c].pc \in {"none", "locking"}
                    /\ call'[c].pc # "none" => call'[c].kind \in Kinds /\ call'[c].prov \in Providers
      <4>1. CASE call[c].pc = "reading"
        <5>1. call[c] \in CallRecord /\ call[c].kind \in Kinds /\ call[c].prov \in Providers
          BY <4>1 DEF CallType
        <5>2. /\ Resolve(call[c], data) \in CallRecord
              /\ Resolve(call[c], data).pc \in {"none", "locking"}
              /\ Resolve(call[c], data).pc # "none" =>
                     /\ Resolve(call[c], data).kind \in Kinds
                     /\ Resolve(call[c], data).prov \in Providers
          BY <5>1, ResolveType DEF CallRecord
        <5>. QED
          BY <2>2, <4>1, <5>2
      <4>2. CASE call[c].pc # "reading"
        BY <2>2, <4>2
      <4>. QED
        BY <4>1, <4>2
    <3>2. call' \in [CallIds -> CallRecord]
      BY <2>2, <3>1 DEF CallType
    <3>3. CallType'
      BY <1>1, <3>1, <3>2 DEF CallType, CallIds
    <3>. QED
      BY <1>1, <1>4, <3>1, <3>3 DEF CallsUp, CallIds, serverVars
  <2>. QED
    BY <2>1, <2>2
<1>. QED
  BY <1>2, <1>3, <1>5, <1>6 DEF TypeInv

\* A process that constructs its AuthStorage, or another one.
LEMMA StartStepType ==
    ASSUME TypeInv, NEW p \in Processes, StartStep(p), UNCHANGED scenario
    PROVE  TypeInv'
<1> /\ FileType /\ ProcessType /\ CallType /\ ServerType /\ BoundType /\ CallsUp /\ ProcessesUp
    /\ tokens \in Nat \ {0} /\ Empty \in Data /\ "sessions" \in BoundNames
  BY NothingTypes DEF TypeInv, ServerType, BoundNames
<1>1. /\ UNCHANGED <<lock, cache, call, serverVars, written>>
      /\ UNCHANGED used \/ Uses("sessions")
      /\ up' = [up EXCEPT ![p] = up'[p]] /\ up'[p] \in {"creating", "loading"}
      /\ up'[p] = "loading" \/ up[p] = "down"
      /\ \/ UNCHANGED <<file, rev>> /\ (up'[p] = "loading" => file # None)
         \/ file' = Empty /\ rev' = rev + 1
      /\ \/ UNCHANGED reload
         \/ reload' = [reload EXCEPT ![p].pc = "locking"] /\ up'[p] = "loading"
  BY DEF StartStep, Start, Create, Construct, fileVars, ProcessType, ProcessesUp
<1>2. /\ Data' = Data /\ Contents' = Contents /\ CallRecord' = CallRecord
      /\ ReloadRecord' = ReloadRecord
  BY <1>1 DEF serverVars, Data, Contents, CallRecord, ReloadRecord
<1>3. FileType'
  BY <1>1, <1>2 DEF FileType, Contents
<1>4. /\ up' \in [Processes -> {"down", "creating", "loading", "up"}]
      /\ \A r \in Processes : up'[r] = up[r] \/ (r = p /\ (up'[r] = "loading" \/ up[r] = "down"))
  BY <1>1 DEF ProcessType
<1>5. (file' = None => file = None) /\ (up'[p] \in Running => file' # None)
  BY <1>1, NoneIsNoContent
<1>6. /\ reload' \in [Processes -> ReloadRecord]
      /\ \A r \in Processes : reload'[r].pc # "none" => reload[r].pc # "none" \/ up'[r] = "loading"
  <2>1. [reload[p] EXCEPT !.pc = "locking"] \in ReloadRecord
    BY DEF ProcessType, ReloadRecord
  <2> HIDE DEF Running
  <2>2. CASE UNCHANGED reload
    BY <2>2 DEF ProcessType
  <2>3. CASE reload' = [reload EXCEPT ![p].pc = "locking"] /\ up'[p] = "loading"
    BY <2>1, <2>3 DEF ProcessType
  <2>. QED
    BY <1>1, <2>2, <2>3
<1>7. ProcessType' /\ ProcessesUp'
  <2>1. ProcessType'
    BY <1>1, <1>2, <1>4, <1>6 DEF ProcessType
  <2>2. ASSUME NEW r \in Processes
        PROVE  (reload'[r].pc # "none" => up'[r] \in Running) /\ (up'[r] \in Running => file' # None)
    BY <1>1, <1>4, <1>5, <1>6 DEF ProcessesUp
  <2>. QED
    BY <2>1, <2>2 DEF ProcessesUp
<1>8. CallType' /\ CallsUp'
  BY <1>1, <1>2, <1>4 DEF CallType, CallsUp, CallIds, serverVars
<1>. QED
  BY <1>1, <1>3, <1>7, <1>8, UsesType DEF TypeInv, ServerType, serverVars, Owners

\* What the environment does: tokens that expire, processes that die or are
\* suspended, locks that are found to be compromised or stale.
LEMMA EnvironmentType ==
    ASSUME TypeInv, Environment \/ Stale, UNCHANGED scenario
    PROVE  TypeInv'
<1> /\ FileType /\ ProcessType /\ CallType /\ ServerType /\ BoundType /\ CallsUp /\ ProcessesUp
    /\ scenario \in Scenarios /\ lock \in Owners /\ {Dead, None} \subseteq Owners
    /\ {"expiries", "crashes", "torn", "stalls"} \subseteq BoundNames
    /\ tokens \in Nat \ {0} /\ NoCall \in CallRecord /\ NoCall.pc = "none"
    /\ NoReload \in ReloadRecord /\ Empty \in Data
  BY NothingTypes DEF TypeInv, ServerType, Owners, BoundNames
<1>1. UNCHANGED <<fileVars, tokens>>
  BY DEF Environment, Stale, Expire, Crash, Tear, Dies, Stall, Compromised, serverVars
<1>2. /\ Data' = Data /\ Contents' = Contents /\ CallRecord' = CallRecord
      /\ ReloadRecord' = ReloadRecord /\ Owners' = Owners /\ tokens <= tokens /\ FileType'
      /\ file' = file
  BY <1>1, FilesStay DEF Data, Contents, CallRecord, ReloadRecord, Owners, fileVars
<1>3. ASSUME NEW q \in Providers, Expire(q)
      PROVE  TypeInv'
  <2>1. /\ UNCHANGED <<lock, up, cache, reload, call, spent, reused>> /\ Uses("expiries")
        /\ expired' = expired \union {file[q]} /\ file # None /\ file[q] # 0
    BY <1>3 DEF Expire
  <2>2. file[q] \in 1..tokens
    <3>1. file \in Data
      BY <2>1 DEF FileType, Contents
    <3>. QED
      BY <2>1, <3>1 DEF Data
  <2>3. ServerType'
    BY <1>1, <2>1, <2>2 DEF ServerType
  <2>4. CallType' /\ CallsUp'
    BY <1>2, <2>1 DEF CallType, CallsUp
  <2>. QED
    BY <1>1, <1>2, <2>1, <2>3, <2>4, ProcessesStay, UsesType DEF TypeInv
<1>4. ASSUME NEW p \in Processes, Crash(p) \/ Tear(p)
      PROVE  TypeInv'
  <2>1. /\ up' = [up EXCEPT ![p] = "down"] /\ cache' = [cache EXCEPT ![p] = NoCache]
        /\ reload' = [reload EXCEPT ![p] = NoReload] /\ spent' \subseteq spent
        /\ call' = [c \in CallIds |-> IF c[1] = p THEN NoCall ELSE call[c]]
        /\ lock' \in {lock, Dead} /\ UNCHANGED <<expired, reused>>
        /\ Uses("crashes") \/ Uses("torn")
    BY <1>4 DEF Crash, Tear, Dies
  <2>2. NoCache \in [data : Contents, rev : Nat]
    BY DEF NoCache, Contents
  <2>3. ProcessType' /\ ProcessesUp'
    BY <1>2, <2>1, <2>2 DEF ProcessType, ProcessesUp, NoReload
  <2>4. CallType' /\ CallsUp'
    <3>1. call' \in [CallIds -> CallRecord] /\ \A c \in CallIds :
              call'[c].pc = "none" \/ (call'[c] = call[c] /\ c[1] # p)
      BY <2>1 DEF CallType
    <3>. QED
      BY <1>2, <2>1, <3>1 DEF CallType, CallsUp, CallIds, ProcessType
  <2>. QED
    BY <1>1, <1>2, <2>1, <2>3, <2>4, UsesType DEF TypeInv, ServerType
<1>5. CASE Stall
  <2>1. UNCHANGED <<up, cache, reload, call, serverVars>> /\ lock' = None /\ Uses("stalls")
    BY <1>5 DEF Stall
  <2>2. CallType' /\ CallsUp'
    BY <1>2, <2>1 DEF CallType, CallsUp, serverVars
  <2>. QED
    BY <1>1, <1>2, <2>1, <2>2, ProcessesStay, UsesType DEF TypeInv, ServerType, serverVars
<1>6. ASSUME NEW c \in CallIds, Compromised(c)
      PROVE  TypeInv'
  <2> DEFINE rec == [call[c] EXCEPT !.compromised = TRUE]
  <2>1. UNCHANGED <<lock, up, cache, reload, used, serverVars>> /\ Goes(c, rec)
        /\ call[c].pc \in {"refreshing", "writing"}
    BY <1>6 DEF Compromised
  <2>2. /\ rec \in CallRecord /\ rec.seen = call[c].seen /\ rec.pc = call[c].pc
        /\ rec.kind = call[c].kind /\ rec.prov = call[c].prov
    BY DEF CallType, CallRecord
  <2> HIDE DEF rec
  <2>3. CallType' /\ CallsUp'
    <3>3. tokens' \in Nat /\ tokens <= tokens' /\ rec \in CallRecord'
      BY <1>1, <1>2, <2>2
    <3>1. /\ call[c].kind \in Kinds /\ call[c].prov \in Providers /\ up[c[1]] \in Running
          /\ call[c].seen \in Data
          /\ call[c].pc = "refreshing" =>
                 call[c].kind = "resolve" /\ call[c].seen[call[c].prov] \in expired
      BY <2>1 DEF CallType, CallsUp
    <3>2. expired' = expired /\ UNCHANGED up
      BY <2>1 DEF serverVars
    <3>. QED
      BY <1>2, <2>1, <2>2, <3>1, <3>2, <3>3, CallMoves
  <2>. QED
    BY <1>1, <1>2, <2>1, <2>3, ProcessesStay, UsesType DEF TypeInv, ServerType, serverVars
<1>7. CASE Stale
  <2>1. UNCHANGED <<up, cache, reload, call, used, serverVars>> /\ lock' = None
    BY <1>7 DEF Stale
  <2>2. CallType' /\ CallsUp'
    BY <1>2, <2>1 DEF CallType, CallsUp, serverVars
  <2>. QED
    BY <1>1, <1>2, <2>1, <2>2, ProcessesStay, UsesType DEF TypeInv, ServerType, serverVars
<1>. QED
  BY <1>3, <1>4, <1>5, <1>6, <1>7 DEF Environment

\* The strengthened type invariant is inductive.
THEOREM TypeNext == TypeInv /\ [Next]_vars => TypeInv'
<1> SUFFICES ASSUME TypeInv, [Next]_vars PROVE TypeInv'
  OBVIOUS
<1>1. CASE UNCHANGED vars
  BY <1>1 DEF vars, fileVars, serverVars, TypeInv, FileType, ProcessType, CallType, ServerType,
     BoundType, CallsUp, ProcessesUp, Data, Contents, CallRecord, ReloadRecord, Owners
<1>2. CASE Next
  BY <1>2, CallStepType, CallMadeType, ReloadStepType, StartStepType, EnvironmentType DEF Next
<1>. QED
  BY <1>1, <1>2

\* The first state is well typed.
THEOREM TypeInit == Init => TypeInv
<1> SUFFICES ASSUME Init PROVE TypeInv
  OBVIOUS
<1>1. tokens = 1 /\ LoggedIn \in Data /\ Empty \in Data
  <2>1. tokens = 1 /\ Empty \in [Providers -> 0..1]
    BY DEF Init, Empty
  <2>2. ASSUME NEW S, NEW x \in S, NEW f \in [Providers -> S], NEW q
        PROVE  [f EXCEPT ![q] = x] \in [Providers -> S]
    OBVIOUS
  <2>3. 1 \in 0..1
    OBVIOUS
  <2>. QED
    BY <2>1, <2>2, <2>3 DEF LoggedIn, Data
<1>2. /\ NoCall \in CallRecord /\ NoCall.pc = "none" /\ NoReload \in ReloadRecord
      /\ NoCache \in [data : Contents, rev : Nat] /\ LoggedIn # None
      /\ [data |-> LoggedIn, rev |-> 1] \in [data : Contents, rev : Nat]
  BY <1>1, NothingTypes, NoneIsNoContent DEF NoCache, Contents
<1>3. FileType /\ ServerType
  <2>1. FileType
    <3>1. (file = None \/ file = LoggedIn) /\ (written = Empty \/ written = LoggedIn) /\ rev = 1
      BY DEF Init
    <3>. QED
      BY <1>1, <3>1 DEF FileType, Contents
  <2>2. ServerType
    <3>1. expired = {} /\ spent = {} /\ reused \in BOOLEAN
      BY Zenon DEF Init
    <3>2. tokens \in Nat \ {0}
      BY <1>1
    <3>. QED
      BY <3>1, <3>2 DEF ServerType
  <2>. QED
    BY <2>1, <2>2
<1>4. ProcessType /\ ProcessesUp
  BY <1>2 DEF Init, ProcessType, ProcessesUp, NoReload
<1>5. CallType /\ CallsUp
  BY <1>2 DEF Init, CallType, CallsUp
<1>6. BoundType
  <2>1. \A b \in BoundNames : scenario[b] \in Nat
    BY CredentialsAssumption DEF Init, BoundNames
  <2>. QED
    BY <2>1 DEF Init, BoundType, BoundNames
<1>. QED
  BY <1>3, <1>4, <1>5, <1>6 DEF Init, TypeInv, Owners

\* The variables keep their types: whatever is cached, read or written are tokens
\* that a server has issued, and the lock is owned by nobody, a call, a reload or
\* a process that died.
THEOREM TypeCorrect == Spec => []TypeOK
<1>1. TypeInv => TypeOK
  <2> SUFFICES ASSUME TypeInv PROVE TypeOK
    OBVIOUS
  <2> USE DEF TypeInv, FileType, ProcessType, CallType, ServerType
  <2>1. lock \in (Processes \X (Slots \union {0})) \union {Dead, None}
    BY DEF Owners, CallIds
  <2>2. \A b \in DOMAIN used : used[b] <= scenario[b]
    BY DEF BoundType
  <2>3. ASSUME NEW p \in Processes
        PROVE  /\ cache[p].data \in Data \union {None} /\ cache[p].rev \in Nat
               /\ reload[p].pc \in {"none", "locking", "tagging", "holding", "released"}
    BY DEF Contents, ReloadRecord
  <2>4. ASSUME NEW c \in CallIds
        PROVE  call[c].pc \in CallPcs /\ call[c].token \in 0..tokens
    BY DEF CallRecord
  <2>. QED
    BY <2>1, <2>2, <2>3, <2>4 DEF TypeOK, Contents, CallPcs
<1>. QED
  BY TypeInit, TypeNext, <1>1, PTL DEF Spec

(***************************************************************************)
(* The lock, what is written under it, and the tokens                      *)
(***************************************************************************)

\* Who has read the file and is not done with it owns the lock, and knows it.
InReload == {"tagging", "holding"}
USE DEF InReload
LockInv ==
    /\ \A c \in CallIds : call[c].pc \in InLock => lock = c
    /\ \A p \in Processes : reload[p].pc \in InReload => lock = <<p, 0>>
    /\ \A c \in CallIds : ~call[c].compromised

\* What was read under the lock is still what was written last.
WithContent == {"leaving", "refreshing", "writing", "truncated"}
WrittenInv ==
    /\ UpdatesKept
    /\ file = None => written = Empty
    /\ \A p \in Processes : up[p] = "creating" => file = None
    /\ ~scenario.absent => file # None
    /\ \A c \in CallIds : /\ call[c].pc \in WithContent => call[c].seen = written
                          /\ call[c].pc = "truncated" => file = Empty
    /\ \A p \in Processes : reload[p].pc = "tagging" => reload[p].data = file

\* A call has a new token, which is not in the file.
Carries(c) == call[c].pc \notin {"none", "releasing", "released"} /\ call[c].token # 0
NewToken(c) ==
    /\ call[c].token \notin spent /\ call[c].token \notin expired
    /\ \A q \in Providers : written[q] # call[c].token
    /\ \A d \in CallIds : Carries(d) /\ call[d].token = call[c].token => d = c

\* A token was written for one provider; one that is spent was written last only
\* while the call that exchanged it is about to write the new one; and new tokens
\* are new.
Replaces(c, q) == call[c].pc \in {"writing", "truncated"} /\ call[c].kind = "resolve" /\ call[c].prov = q
TokenInv ==
    /\ \A q, r \in Providers : written[q] = written[r] /\ written[q] # 0 => q = r
    /\ \A q \in Providers : written[q] \in spent => \E c \in CallIds : Replaces(c, q)
    /\ \A c \in CallIds : Carries(c) => NewToken(c)
    /\ SentOnce

\* The owners that the lock may have are told apart.
LEMMA OwnersDiffer ==
    /\ Dead # None
    /\ \A c \in CallIds : c # None /\ c # Dead /\ \A p \in Processes : c # <<p, 0>>
    /\ \A p \in Processes : <<p, 0>> # None /\ <<p, 0>> # Dead
    /\ \A p, r \in Processes : <<p, 0>> = <<r, 0>> => p = r
<1>1. Dead # None /\ \A p \in Processes : p # None /\ <<p, 0>> # None
  BY CredentialsAssumption DEF Dead
<1>2. ASSUME NEW c \in CallIds
      PROVE  c # None /\ c # Dead /\ \A p \in Processes : c # <<p, 0>>
  <2>1. PICK p \in Processes, i \in Slots : c = <<p, i>>
    BY DEF CallIds
  <2>2. i # 0 /\ c # None
    BY <2>1, CredentialsAssumption
  <2>. QED
    BY <2>1, <2>2 DEF Dead
<1>. QED
  BY <1>1, <1>2 DEF Dead

\* A step that leaves the lock alone, and after which nobody is in it who was not.
LEMMA LockKept ==
    ASSUME LockInv, UNCHANGED lock,
           \A c \in CallIds : call'[c].pc \in InLock => call[c].pc \in InLock,
           \A c \in CallIds : ~call'[c].compromised,
           \A p \in Processes : reload'[p].pc \in InReload => reload[p].pc \in InReload
    PROVE  LockInv'
BY DEF LockInv

\* A step after which nobody is in the lock but, perhaps, its owner.
LEMMA LockMoves ==
    ASSUME LockInv,
           \A c \in CallIds : call'[c].pc \in InLock => lock' = c,
           \A c \in CallIds : ~call'[c].compromised,
           \A p \in Processes : reload'[p].pc \in InReload => lock' = <<p, 0>>
    PROVE  LockInv'
BY DEF LockInv

\* While the lock is free or its owner is dead, nobody is in it.
LEMMA NobodyIn ==
    ASSUME LockInv, lock \in {None, Dead}
    PROVE  /\ \A c \in CallIds : call[c].pc \notin InLock
           /\ \A p \in Processes : reload[p].pc \notin InReload
BY OwnersDiffer DEF LockInv

\* The lock has one owner at a time, as long as none is suspended for too long.
LEMMA LockStep ==
    ASSUME TypeInv, LockInv, [Next]_vars, used'["stalls"] = 0, used'["slow"] = 0
    PROVE  LockInv'
<1> /\ call \in [CallIds -> CallRecord] /\ reload \in [Processes -> ReloadRecord]
    /\ \A c \in CallIds : c[1] \in Processes /\ ~call[c].compromised
    /\ NoCall.pc = "none" /\ ~NoCall.compromised /\ NoReload.pc = "none"
  BY DEF TypeInv, CallType, ProcessType, LockInv, CallIds, NoCall, NoReload
<1>1. CASE UNCHANGED vars
  BY <1>1, LockKept DEF vars
<1>2. ASSUME NEW c \in CallIds, Read(c) \/ LockFails(c) \/ Done(c)
      PROVE  LockInv'
  <2>1. UNCHANGED lock /\ \A p \in Processes : reload'[p].pc \in InReload => reload[p].pc \in InReload
    <3>1. /\ UNCHANGED lock
          /\ reload' = reload \/ reload' = [reload EXCEPT ![c[1]].pc = "locking"]
      BY <1>2 DEF Read, LockFails, Done
    <3>. QED
      BY <3>1 DEF ReloadRecord
  <2>2. \E rec : Goes(c, rec) /\ rec.pc \notin InLock /\ ~rec.compromised
    <3>1. CASE Read(c)
      <4>1. CASE cache[c[1]].rev = rev
        <5>1. /\ Resolve(call[c], cache[c[1]].data).pc \notin InLock
              /\ ~Resolve(call[c], cache[c[1]].data).compromised
          BY DEF Resolve, CallRecord
        <5>. QED
          BY <3>1, <4>1, <5>1 DEF Read
      <4>2. CASE cache[c[1]].rev # rev
        <5>1. /\ [call[c] EXCEPT !.pc = "reading"].pc \notin InLock
              /\ ~[call[c] EXCEPT !.pc = "reading"].compromised
          BY DEF CallRecord
        <5>. QED
          BY <3>1, <4>2, <5>1 DEF Read
      <4>. QED
        BY <4>1, <4>2
    <3>2. CASE LockFails(c) \/ Done(c)
      BY <3>2 DEF LockFails, Done
    <3>. QED
      BY <1>2, <3>1, <3>2
  <2>. QED
    BY <2>1, <2>2, LockKept DEF Goes
<1>3. ASSUME NEW c \in CallIds, NEW kind, NEW q, Call(c, kind, q)
      PROVE  LockInv'
  <2> DEFINE rec == [NoCall EXCEPT !.pc = IF kind = "resolve" THEN "read" ELSE "locking",
                                   !.kind = kind, !.prov = q,
                                   !.token = IF kind = "login" THEN tokens + 1 ELSE 0]
  <2>1. UNCHANGED <<lock, reload>> /\ Goes(c, rec)
    BY <1>3 DEF Call
  <2>2. rec.pc \notin InLock /\ ~rec.compromised
    BY DEF NoCall
  <2> HIDE DEF rec
  <2>. QED
    BY <2>1, <2>2, LockKept DEF Goes
<1>4. ASSUME NEW c \in CallIds, Lock(c)
      PROVE  LockInv'
  <2>1. lock = None /\ lock' = c /\ UNCHANGED reload
    BY <1>4 DEF Lock, Takes
  <2>2. \E rec : Goes(c, rec) /\ ~rec.compromised
    <3>1. \A seen, pc : ~[call[c] EXCEPT !.seen = seen, !.tag = 0, !.pc = pc].compromised
      BY DEF CallRecord
    <3>. QED
      BY <1>4, <3>1 DEF Lock
  <2>. QED
    BY <2>1, <2>2, NobodyIn, LockMoves DEF Goes
<1>5. ASSUME NEW c \in CallIds, Refresh(c) \/ RefreshFails(c) \/ Leave(c) \/ Truncate(c) \/ Write(c)
      PROVE  LockInv'
  <2>1. UNCHANGED <<lock, reload>> /\ call[c].pc \in InLock
    BY <1>5 DEF Refresh, RefreshFails, Leave, Truncate, Write
  <2>2. \E rec : Goes(c, rec) /\ ~rec.compromised
    <3>1. CASE Refresh(c)
      <4>1. /\ ~[call[c] EXCEPT !.pc = "releasing", !.failed = TRUE].compromised
            /\ ~[call[c] EXCEPT !.pc = "writing", !.token = tokens + 1].compromised
        BY DEF CallRecord
      <4>. QED
        BY <3>1, <4>1 DEF Refresh
    <3>2. CASE RefreshFails(c)
      <4>1. ~[call[c] EXCEPT !.pc = "releasing", !.failed = TRUE].compromised
        BY DEF CallRecord
      <4>. QED
        BY <3>2, <4>1 DEF RefreshFails
    <3>3. CASE Write(c)
      <4>1. ~[call[c] EXCEPT !.pc = "releasing", !.seen = file'].compromised
        BY DEF CallRecord
      <4>. QED
        BY <3>3, <4>1 DEF Write
    <3>4. CASE Leave(c)
      <4>1. ~[call[c] EXCEPT !.tag = rev, !.pc = "releasing"].compromised
        BY DEF CallRecord
      <4>. QED
        BY <3>4, <4>1 DEF Leave
    <3>5. CASE Truncate(c)
      <4>1. ~[call[c] EXCEPT !.pc = "truncated"].compromised
        BY DEF CallRecord
      <4>. QED
        BY <3>5, <4>1 DEF Truncate
    <3>. QED
      BY <1>5, <3>1, <3>2, <3>3, <3>4, <3>5
  <2>. QED
    BY <2>1, <2>2, LockKept DEF Goes
<1>6. ASSUME NEW c \in CallIds, Release(c)
      PROVE  LockInv'
  <2>1. lock = c /\ lock' = None /\ UNCHANGED reload
    BY <1>6 DEF Release, Free, LockInv
  <2>2. \E rec : Goes(c, rec) /\ rec.pc \notin InLock /\ ~rec.compromised
    BY <1>6 DEF Release, CallRecord
  <2>3. /\ \A d \in CallIds : call[d].pc \in InLock => d = c
        /\ \A p \in Processes : reload[p].pc \notin InReload
    BY <2>1, OwnersDiffer DEF LockInv
  <2>. QED
    BY <2>1, <2>2, <2>3, LockMoves DEF Goes
<1>7. ASSUME NEW p \in Processes, ReloadLocks(p)
      PROVE  LockInv'
  <2>1. lock = None /\ lock' = <<p, 0>> /\ UNCHANGED call
    BY <1>7 DEF ReloadLocks, ReloadReads, Takes
  <2>2. \A r \in Processes : r # p => reload'[r] = reload[r]
    BY <1>7 DEF ReloadLocks, ReloadReads
  <2>. QED
    BY <2>1, <2>2, NobodyIn, LockMoves
<1>8. ASSUME NEW p \in Processes, ReloadReleases(p)
      PROVE  LockInv'
  <2>1. lock = <<p, 0>> /\ lock' = None /\ UNCHANGED call
    BY <1>8 DEF ReloadReleases, Free, LockInv
  <2>2. \A r \in Processes : reload'[r].pc \notin InReload \/ (r # p /\ reload'[r] = reload[r])
    BY <1>8 DEF ReloadReleases, ReloadRecord
  <2>3. /\ \A d \in CallIds : call[d].pc \notin InLock
        /\ \A r \in Processes : reload[r].pc \in InReload => r = p
    BY <2>1, OwnersDiffer DEF LockInv
  <2>. QED
    BY <2>1, <2>2, <2>3, LockMoves
<1>9. ASSUME NEW p \in Processes, ReloadDone(p) \/ ReloadFails(p)
      PROVE  LockInv'
  <2>1. PICK data : Reloaded(p, data)
    BY <1>9 DEF ReloadDone, ReloadFails
  <2>2. UNCHANGED lock /\ \A r \in Processes : reload'[r].pc \in InReload => reload[r].pc \in InReload
    BY <2>1 DEF Reloaded
  <2>3. \A c \in CallIds : call'[c] = call[c] \/ call'[c] = Resolve(call[c], data)
    BY <2>1 DEF Reloaded
  <2>4. \A c \in CallIds : Resolve(call[c], data).pc \notin InLock /\ ~Resolve(call[c], data).compromised
    BY DEF Resolve, CallRecord
  <2>. QED
    BY <2>2, <2>3, <2>4, LockKept
<1>10. ASSUME NEW p \in Processes, StartStep(p) \/ ReloadTags(p)
       PROVE  LockInv'
  <2>1. UNCHANGED <<lock, call>> /\ \E pc \in {"locking", "holding"} :
            /\ reload' = reload \/ reload' = [reload EXCEPT ![p].pc = pc]
            /\ pc = "holding" => reload[p].pc = "tagging"
    BY <1>10 DEF StartStep, Start, Create, Construct, ReloadTags
  <2>2. \A r \in Processes : reload'[r].pc \in InReload => reload[r].pc \in InReload
    BY <2>1 DEF ReloadRecord
  <2>. QED
    BY <2>1, <2>2, LockKept
<1>11. ASSUME NEW p \in Processes, Crash(p) \/ Tear(p)
       PROVE  LockInv'
  <2>1. /\ lock' = IF lock # None /\ lock[1] = p THEN Dead ELSE lock
        /\ call' = [c \in CallIds |-> IF c[1] = p THEN NoCall ELSE call[c]]
        /\ reload' = [reload EXCEPT ![p] = NoReload]
    BY <1>11 DEF Crash, Tear, Dies
  <2>2. \A c \in CallIds : call'[c].pc \in InLock => lock' = c
    BY <2>1 DEF LockInv
  <2>3. \A r \in Processes : reload'[r].pc \in InReload => lock' = <<r, 0>>
    BY <2>1 DEF LockInv
  <2>. QED
    BY <2>1, <2>2, <2>3, LockMoves
<1>12. ASSUME Stale
       PROVE  LockInv'
  <2>1. lock = Dead /\ UNCHANGED <<call, reload>>
    BY <1>12 DEF Stale
  <2>. QED
    BY <2>1, NobodyIn, LockMoves
<1>13. ASSUME NEW q \in Providers, Expire(q)
       PROVE  LockInv'
  BY <1>13, LockKept DEF Expire
<1>14. ASSUME Stall \/ (\E c \in CallIds : Compromised(c)) \/ (\E p \in Processes : LoadTakesOver(p))
       PROVE  LockInv'
  <2>1. \A c \in CallIds : ~Compromised(c)
    BY DEF Compromised, LockInv
  <2>2. ~Stall
    BY DEF Stall, Uses, TypeInv, BoundType, BoundNames
  <2>3. \A p \in Processes : ~LoadTakesOver(p)
    BY DEF LoadTakesOver, Uses, TypeInv, BoundType, BoundNames
  <2>. QED
    BY <1>14, <2>1, <2>2, <2>3
<1>. QED
  BY <1>1, <1>2, <1>3, <1>4, <1>5, <1>6, <1>7, <1>8, <1>9, <1>10, <1>11, <1>12, <1>13, <1>14
     DEF Next, CallStep, ReloadStep, Environment

\* A step that leaves the file alone, and after which every call that is about to
\* write has the file as its content.
LEMMA WrittenKept ==
    ASSUME WrittenInv, UNCHANGED <<file, written, scenario>>,
           \A p \in Processes : up'[p] = "creating" => up[p] = "creating" \/ file = None,
           \A c \in CallIds : /\ call'[c].pc = "truncated" <=> call[c].pc = "truncated"
                              /\ call'[c].pc \in WithContent =>
                                     \/ call[c].pc \in WithContent /\ call'[c].seen = call[c].seen
                                     \/ call'[c].seen = written,
           \A p \in Processes : reload'[p].pc = "tagging" =>
                                     reload'[p].data = file \/ reload'[p] = reload[p]
    PROVE  WrittenInv'
BY DEF WrittenInv, UpdatesKept

\* Every write is into the file as it is.
LEMMA WrittenStep ==
    ASSUME TypeInv, LockInv, WrittenInv, [Next]_vars, Undisturbed, Undisturbed'
    PROVE  WrittenInv'
<1> /\ call \in [CallIds -> CallRecord] /\ reload \in [Processes -> ReloadRecord]
    /\ FileType /\ CallsUp /\ ProcessesUp
    /\ \A c \in CallIds : c[1] \in Processes
    /\ up \in [Processes -> {"down", "creating", "loading", "up"}]
    /\ NoCall.pc = "none"
  BY DEF TypeInv, CallType, ProcessType, CallIds, NoCall
<1> USE DEF fileVars, WithContent
<1>1. CASE UNCHANGED vars
  BY <1>1, WrittenKept DEF vars
<1> SUFFICES ASSUME Next PROVE WrittenInv'
  BY <1>1
<1>a. UNCHANGED scenario
  BY DEF Next
<1>2. ASSUME NEW c \in CallIds, NEW rec, Goes(c, rec), UNCHANGED <<file, written, up>>,
             \A p \in Processes : reload'[p] = reload[p] \/ reload'[p].pc = "locking",
             rec.pc # "truncated", call[c].pc # "truncated",
             rec.pc \in WithContent =>
                 \/ call[c].pc \in WithContent /\ rec.seen = call[c].seen
                 \/ rec.seen = written
      PROVE  WrittenInv'
  BY <1>2, <1>a, WrittenKept DEF Goes
<1>3. ASSUME NEW c \in CallIds, Read(c)
      PROVE  WrittenInv'
  <2>1. /\ UNCHANGED <<file, written, up>> /\ call[c].pc = "read"
        /\ \A p \in Processes : reload'[p] = reload[p] \/ reload'[p].pc = "locking"
    BY <1>3 DEF Read, ReloadRecord
  <2>2. CASE cache[c[1]].rev = rev
    <3>1. Resolve(call[c], cache[c[1]].data).pc \notin WithContent
      BY DEF Resolve, CallRecord
    <3>. QED
      BY <1>3, <2>1, <2>2, <3>1, <1>2 DEF Read
  <2>3. CASE cache[c[1]].rev # rev
    <3>1. [call[c] EXCEPT !.pc = "reading"].pc \notin WithContent
      BY DEF CallRecord
    <3>. QED
      BY <1>3, <2>1, <2>3, <3>1, <1>2 DEF Read
  <2>. QED
    BY <2>2, <2>3
<1>4. ASSUME NEW c \in CallIds, Lock(c)
      PROVE  WrittenInv'
  <2>1. /\ UNCHANGED <<file, written, up, reload>> /\ call[c].pc = "locking" /\ lock = None
        /\ \E pc \in {"leaving", "refreshing", "writing"} :
               Goes(c, [call[c] EXCEPT !.seen = file, !.tag = 0, !.pc = pc])
    BY <1>4 DEF Lock, Takes
  <2>2. file = written
    <3>1. file # None /\ (\A d \in CallIds : call[d].pc # "truncated")
      BY <2>1, NobodyIn DEF CallsUp, ProcessesUp
    <3>. QED
      BY <3>1 DEF WrittenInv, UpdatesKept
  <2>3. \A pc : /\ [call[c] EXCEPT !.seen = file, !.tag = 0, !.pc = pc].seen = file
                /\ [call[c] EXCEPT !.seen = file, !.tag = 0, !.pc = pc].pc = pc
    BY DEF CallRecord
  <2>. QED
    BY <2>1, <2>2, <2>3, <1>2
<1>5. ASSUME NEW c \in CallIds, LockFails(c) \/ Done(c)
      PROVE  WrittenInv'
  <2>1. UNCHANGED <<file, written, up, reload>> /\ Goes(c, NoCall) /\ call[c].pc # "truncated"
    BY <1>5 DEF LockFails, Done
  <2>. QED
    BY <2>1, <1>2
<1>6. ASSUME NEW c \in CallIds, Refresh(c)
      PROVE  WrittenInv'
  <2>1. UNCHANGED <<file, written, up, reload>> /\ call[c].pc = "refreshing"
    BY <1>6 DEF Refresh
  <2>2. /\ [call[c] EXCEPT !.pc = "releasing", !.failed = TRUE].pc = "releasing"
        /\ [call[c] EXCEPT !.pc = "writing", !.token = tokens + 1].seen = call[c].seen
        /\ [call[c] EXCEPT !.pc = "writing", !.token = tokens + 1].pc = "writing"
    BY DEF CallRecord
  <2>. QED
    BY <1>6, <2>1, <2>2, <1>2 DEF Refresh
<1>7. ASSUME NEW c \in CallIds, RefreshFails(c) \/ Leave(c)
      PROVE  WrittenInv'
  <2>1. UNCHANGED <<file, written, up, reload>> /\ call[c].pc # "truncated"
    BY <1>7 DEF RefreshFails, Leave
  <2>2. /\ [call[c] EXCEPT !.pc = "releasing", !.failed = TRUE].pc = "releasing"
        /\ [call[c] EXCEPT !.tag = rev, !.pc = "releasing"].pc = "releasing"
    BY DEF CallRecord
  <2>. QED
    BY <1>7, <2>1, <2>2, <1>2 DEF RefreshFails, Leave
<1>16. ASSUME NEW c \in CallIds, Truncate(c)
      PROVE  WrittenInv'
  <2>1. ~call[c].compromised /\ call[c].pc = "writing" /\ lock = c /\ call[c].seen = written
    BY <1>16 DEF Truncate, LockInv, WrittenInv
  <2> DEFINE rec == [call[c] EXCEPT !.pc = "truncated"]
  <2>2. Goes(c, rec) /\ UNCHANGED <<up, reload, written>> /\ file' = Empty
    BY <1>16, <2>1 DEF Truncate
  <2>3. rec.pc = "truncated" /\ rec.seen = written
    BY <2>1 DEF CallRecord
  <2> HIDE DEF rec
  <2>4. /\ \A d \in CallIds : d # c => call'[d] = call[d] /\ call[d].pc \notin InLock
        /\ \A p \in Processes : reload[p].pc # "tagging"
    BY <2>1, <2>2, OwnersDiffer DEF Goes, LockInv
  <2>5. call'[c] = rec /\ file # None
    BY <2>1, <2>2 DEF Goes, CallsUp, ProcessesUp
  <2>6. Empty # None
    BY NoneIsNoContent, NothingTypes DEF TypeInv, ServerType
  <2>7. \A p \in Processes : up[p] # "creating"
    BY <2>5 DEF WrittenInv
  <2>. QED
    BY <1>a, <2>2, <2>3, <2>4, <2>5, <2>6, <2>7 DEF WrittenInv, UpdatesKept
<1>8. ASSUME NEW c \in CallIds, Write(c)
      PROVE  WrittenInv'
  <2>1. call[c].pc = "truncated" /\ lock = c /\ call[c].seen = written
    BY <1>8 DEF Write, LockInv, WrittenInv
  <2> DEFINE rec == [call[c] EXCEPT !.pc = "releasing", !.seen = file']
  <2>2. /\ Goes(c, rec) /\ UNCHANGED <<up, reload>>
        /\ file' = [written EXCEPT ![call[c].prov] = call[c].token]
        /\ written' = [written EXCEPT ![call[c].prov] = call[c].token]
    BY <1>8, <2>1 DEF Write
  <2>3. rec.pc = "releasing"
    BY DEF CallRecord
  <2> HIDE DEF rec
  <2>4. file' = written' /\ (\A p \in Processes : up[p] # "creating")
    BY <2>1, <2>2 DEF WrittenInv, CallsUp, ProcessesUp
  <2>5. /\ \A d \in CallIds : d # c => call'[d] = call[d] /\ call[d].pc \notin InLock
        /\ \A p \in Processes : reload[p].pc # "tagging"
    BY <2>1, <2>2, OwnersDiffer DEF Goes, LockInv
  <2>6. call'[c].pc = "releasing"
    BY <2>2, <2>3 DEF Goes
  <2>7. file' # None
    <3>1. written \in Data /\ call[c].token \in 0..tokens
      BY DEF FileType, CallRecord
    <3>2. file' \in Data
      BY <2>2, <3>1 DEF Data
    <3>. QED
      BY <3>2, NoneIsNoContent DEF TypeInv, ServerType
  <2>. QED
    BY <1>a, <2>2, <2>4, <2>5, <2>6, <2>7 DEF WrittenInv, UpdatesKept
<1>9. ASSUME NEW c \in CallIds, Release(c)
      PROVE  WrittenInv'
  <2>1. UNCHANGED <<file, written, up, reload>> /\ call[c].pc = "releasing"
    BY <1>9 DEF Release
  <2>2. [call[c] EXCEPT !.pc = "released"].pc = "released"
    BY DEF CallRecord
  <2>. QED
    BY <1>9, <2>1, <2>2, <1>2 DEF Release
<1>10. ASSUME NEW c \in CallIds, NEW kind, NEW q, Call(c, kind, q)
       PROVE  WrittenInv'
  <2> DEFINE rec == [NoCall EXCEPT !.pc = IF kind = "resolve" THEN "read" ELSE "locking",
                                   !.kind = kind, !.prov = q,
                                   !.token = IF kind = "login" THEN tokens + 1 ELSE 0]
  <2>1. UNCHANGED <<file, written, up, reload>> /\ Goes(c, rec) /\ call[c].pc = "none"
    BY <1>10 DEF Call
  <2>2. rec.pc \notin WithContent
    BY DEF NoCall
  <2> HIDE DEF rec
  <2>. QED
    BY <2>1, <2>2, <1>2
<1>11. ASSUME NEW p \in Processes, ReloadStep(p)
       PROVE  WrittenInv'
  <2>1. CASE ReloadLocks(p) \/ ReloadTags(p) \/ ReloadReleases(p)
    <3>1. /\ UNCHANGED <<file, written, up, call>>
          /\ \A r \in Processes : \/ reload'[r] = reload[r] \/ reload'[r].pc \in {"holding", "released"}
                                 \/ reload'[r].data = file
      BY <2>1 DEF ReloadLocks, ReloadReads, ReloadTags, ReloadReleases, ReloadRecord
    <3>. QED
      BY <1>a, <3>1, WrittenKept
  <2>2. CASE ReloadDone(p) \/ ReloadFails(p)
    <3>1. PICK data : Reloaded(p, data)
      BY <2>2 DEF ReloadDone, ReloadFails
    <3>2. /\ UNCHANGED <<file, written>> /\ \A r \in Processes : up'[r] = "creating" => up[r] = "creating"
          /\ \A r \in Processes : reload'[r] = reload[r] \/ reload'[r].pc = "none"
          /\ \A c \in CallIds : \/ call'[c] = call[c]
                                \/ call[c].pc = "reading" /\ call'[c] = Resolve(call[c], data)
      BY <3>1 DEF Reloaded, NoReload
    <3>3. \A c \in CallIds : Resolve(call[c], data).pc \notin WithContent
      BY DEF Resolve, CallRecord
    <3>. QED
      BY <1>a, <3>2, <3>3, WrittenKept
  <2>3. ~LoadTakesOver(p)
    BY DEF LoadTakesOver, Uses, TypeInv, BoundType, BoundNames, Undisturbed
  <2>. QED
    BY <1>11, <2>1, <2>2, <2>3 DEF ReloadStep
<1>12. ASSUME NEW p \in Processes, Start(p) \/ Construct(p) \/ Crash(p)
       PROVE  WrittenInv'
  <2>1. /\ UNCHANGED <<file, written>>
        /\ \A c \in CallIds : \/ call'[c] = call[c]
                              \/ call[c].pc # "truncated" /\ call'[c] = NoCall
    BY <1>12 DEF Start, Construct, Crash, Dies, InWrite
  <2>2. \A r \in Processes : up'[r] = "creating" => up[r] = "creating" \/ file = None
    BY <1>12 DEF Start, Construct, Crash, Dies
  <2>3. \A r \in Processes : reload'[r] = reload[r] \/ reload'[r].pc \in {"none", "locking"}
    BY <1>12 DEF Start, Construct, Crash, Dies, NoReload, ReloadRecord
  <2>. QED
    BY <1>a, <2>1, <2>2, <2>3, WrittenKept
<1>13. ASSUME NEW p \in Processes, Create(p)
       PROVE  WrittenInv'
  <2>1. /\ up[p] = "creating" /\ file = None /\ written = Empty /\ scenario.absent
        /\ file' = Empty /\ UNCHANGED <<written, call>> /\ up' = [up EXCEPT ![p] = "loading"]
        /\ reload' = [reload EXCEPT ![p].pc = "locking"]
    BY <1>13 DEF Create, WrittenInv
  <2>2. \A r \in Processes : up'[r] # "creating"
    BY <2>1 DEF Undisturbed
  <2>3. \A c \in CallIds : call[c].pc = "none"
    BY <2>1 DEF CallsUp, ProcessesUp
  <2>4. Empty # None
    BY NoneIsNoContent, NothingTypes DEF TypeInv, ServerType
  <2>5. \A r \in Processes : reload'[r].pc # "tagging"
    <3>1. \A r \in Processes : reload[r].pc = "none"
      BY <2>1 DEF ProcessesUp
    <3>. QED
      BY <2>1, <3>1 DEF ReloadRecord
  <2>. QED
    BY <1>a, <2>1, <2>2, <2>3, <2>4, <2>5 DEF WrittenInv, UpdatesKept
<1>14. ASSUME \/ Stale \/ (\E q \in Providers : Expire(q)) \/ Stall
       PROVE  WrittenInv'
  <2>1. UNCHANGED <<file, written, up, call, reload>>
    BY <1>14 DEF Stale, Expire, Stall
  <2>. QED
    BY <1>a, <2>1, WrittenKept
<1>15. ASSUME NEW c \in CallIds, Compromised(c)
       PROVE  WrittenInv'
  BY <1>15 DEF Compromised, LockInv
<1>17. \A p \in Processes : ~Tear(p)
  BY DEF Tear, Uses, TypeInv, BoundType, BoundNames, Undisturbed
<1>. QED
  BY <1>3, <1>4, <1>5, <1>6, <1>7, <1>8, <1>9, <1>10, <1>11, <1>12, <1>13, <1>14, <1>15,
     <1>16, <1>17
     DEF Next, CallStep, StartStep, Environment

\* Why a snapshot is the file it is valid for: every revision that is kept, in a
\* snapshot or by a call that will make one, was taken while the lock kept the
\* content that it stands for, and a write makes a new one.
TagInv ==
    /\ TagsRight
    /\ \A c \in CallIds : call[c].tag <= rev /\ (call[c].tag = rev => call[c].seen = file)

\* A step that leaves the file alone, and in which each snapshot and each call
\* stays what it is, or gets a revision of 0 or that of the file with its content.
LEMMA TagsKept ==
    ASSUME TypeInv, TagInv, UNCHANGED <<file, rev>>,
           \A p \in Processes :
               \/ cache'[p] = cache[p] \/ cache'[p].rev = 0
               \/ cache'[p].rev = rev /\ cache'[p].data = file
               \/ \E c \in CallIds : cache'[p].rev = call[c].tag /\ cache'[p].data = call[c].seen,
           \A c \in CallIds :
               \/ call'[c].tag = call[c].tag /\ call'[c].seen = call[c].seen
               \/ call'[c].tag = 0
               \/ call'[c].tag = rev /\ call'[c].seen = file
    PROVE  TagInv'
<1> rev \in Nat \ {0}
  BY DEF TypeInv, FileType
<1>. QED
  BY DEF TagInv, TagsRight

\* A write: what was valid for the file before is not for the one after.
LEMMA TagsOutdated ==
    ASSUME TypeInv, TagInv, rev' = rev + 1, UNCHANGED cache,
           \A c \in CallIds : call'[c].tag = call[c].tag
    PROVE  TagInv'
<1> /\ rev \in Nat /\ \A p \in Processes : cache[p].rev \in Nat
    /\ \A c \in CallIds : call[c].tag \in Nat
  BY DEF TypeInv, FileType, ProcessType, CallType, CallRecord
<1>. QED
  BY DEF TagInv, TagsRight

\* Every step keeps the revisions right: what is tagged was read under the lock.
LEMMA TagStep ==
    ASSUME TypeInv, LockInv, WrittenInv, TagInv, [Next]_vars
    PROVE  TagInv'
<1> /\ call \in [CallIds -> CallRecord]
    /\ cache \in [Processes -> [data : Contents, rev : Nat]]
    /\ NoCall.tag = 0 /\ NoCache.rev = 0
  BY DEF TypeInv, CallType, ProcessType, NoCall, NoCache
<1> USE DEF fileVars
<1>1. CASE UNCHANGED vars
  BY <1>1, TagsKept DEF vars
<1>2. ASSUME NEW c \in CallIds, Read(c)
      PROVE  TagInv'
  <2>1. UNCHANGED <<file, rev, cache>>
    BY <1>2 DEF Read
  <2>2. \A d \in CallIds :
           call'[d].tag = 0 \/ (call'[d].tag = call[d].tag /\ call'[d].seen = call[d].seen)
    BY <1>2 DEF Read, Goes, Resolve, CallRecord
  <2>. QED
    BY <2>1, <2>2, TagsKept
<1>3. ASSUME NEW c \in CallIds, Leave(c)
      PROVE  TagInv'
  <2>1. UNCHANGED <<file, rev, cache>> /\ call[c].pc = "leaving"
    BY <1>3 DEF Leave
  <2>2. call[c].seen = file
    <3>1. call[c].seen = written /\ lock = c
      BY <2>1 DEF WrittenInv, WithContent, LockInv
    <3>3. c[1] \in Processes /\ up[c[1]] \in Running /\ file # None
      BY <2>1 DEF TypeInv, CallsUp, ProcessesUp, CallIds
    <3>2. \A d \in CallIds : call[d].pc # "truncated"
      BY <2>1, <3>1 DEF LockInv
    <3>. QED
      BY <3>1, <3>2, <3>3 DEF WrittenInv, UpdatesKept
  <2>3. \A d \in CallIds :
           \/ call'[d].tag = call[d].tag /\ call'[d].seen = call[d].seen
           \/ call'[d].tag = rev /\ call'[d].seen = file
    BY <1>3, <2>2 DEF Leave, Goes, CallRecord
  <2>. QED
    BY <2>1, <2>3, TagsKept
<1>12. ASSUME NEW c \in CallIds, Lock(c)
       PROVE  TagInv'
  <2>1. /\ UNCHANGED <<file, rev, cache>> /\ call[c].pc = "locking"
        /\ \E pc : Goes(c, [call[c] EXCEPT !.seen = file, !.tag = 0, !.pc = pc])
    BY <1>12 DEF Lock
  <2>2. \A d \in CallIds :
           call'[d].tag = 0 \/ (call'[d].tag = call[d].tag /\ call'[d].seen = call[d].seen)
    <3>1. \A pc : [call[c] EXCEPT !.seen = file, !.tag = 0, !.pc = pc].tag = 0
      BY DEF CallRecord
    <3>. QED
      BY <2>1, <3>1 DEF Goes
  <2>. QED
    BY <2>1, <2>2, TagsKept
<1>4. ASSUME NEW c \in CallIds,
             LockFails(c) \/ Refresh(c) \/ RefreshFails(c) \/ Release(c) \/ Compromised(c)
      PROVE  TagInv'
  <2>1. UNCHANGED <<file, rev, cache>>
    BY <1>4 DEF LockFails, Refresh, RefreshFails, Release, Compromised
  <2>2. \A d \in CallIds :
           call'[d].tag = 0 \/ (call'[d].tag = call[d].tag /\ call'[d].seen = call[d].seen)
    <3>1. CASE LockFails(c)
      BY <3>1 DEF LockFails, Goes
    <3>2. CASE Refresh(c)
      <4>1. CASE Goes(c, [call[c] EXCEPT !.pc = "releasing", !.failed = TRUE])
        BY <4>1 DEF Goes, CallRecord
      <4>2. CASE Goes(c, [call[c] EXCEPT !.pc = "writing", !.token = tokens + 1])
        BY <4>2 DEF Goes, CallRecord
      <4>. QED
        BY <3>2, <4>1, <4>2 DEF Refresh
    <3>3. CASE RefreshFails(c)
      BY <3>3 DEF RefreshFails, Goes, CallRecord
    <3>4. CASE Release(c) \/ Compromised(c)
      BY <3>4 DEF Release, Compromised, Goes, CallRecord
    <3>. QED
      BY <1>4, <3>1, <3>2, <3>3, <3>4
  <2>. QED
    BY <2>1, <2>2, TagsKept
<1>5. ASSUME NEW c \in CallIds, Truncate(c) \/ Write(c)
      PROVE  TagInv'
  <2>1. \/ Goes(c, [call[c] EXCEPT !.pc = "truncated"])
        \/ Goes(c, [call[c] EXCEPT !.pc = "releasing", !.seen = file'])
    BY <1>5 DEF Truncate, Write, LockInv
  <2>2. rev' = rev + 1 /\ UNCHANGED cache
    BY <1>5 DEF Truncate, Write, LockInv
  <2>3. \A d \in CallIds : call'[d].tag = call[d].tag
    <3>1. /\ [call[c] EXCEPT !.pc = "truncated"].tag = call[c].tag
          /\ [call[c] EXCEPT !.pc = "releasing", !.seen = file'].tag = call[c].tag
      BY DEF CallRecord
    <3>. QED
      BY <2>1, <3>1 DEF Goes
  <2>. QED
    BY <2>2, <2>3, TagsOutdated
<1>6. ASSUME NEW c \in CallIds, Done(c)
      PROVE  TagInv'
  <2>1. UNCHANGED <<file, rev>> /\ c[1] \in Processes
    BY <1>6 DEF Done, CallIds
  <2>2. \A p \in Processes :
            \/ cache'[p] = cache[p]
            \/ cache'[p].rev = call[c].tag /\ cache'[p].data = call[c].seen
    BY <1>6, <2>1 DEF Done
  <2>3. \A d \in CallIds : call'[d] = call[d] \/ call'[d].tag = 0
    BY <1>6 DEF Done, Goes
  <2>. QED
    BY <2>1, <2>2, <2>3, TagsKept
<1>7. ASSUME NEW c \in CallIds, NEW kind, NEW q, Call(c, kind, q)
      PROVE  TagInv'
  <2>1. UNCHANGED <<file, rev, cache>>
    BY <1>7 DEF Call
  <2>2. \A d \in CallIds : call'[d] = call[d] \/ call'[d].tag = 0
    BY <1>7 DEF Call, Goes, NoCall
  <2>. QED
    BY <2>1, <2>2, TagsKept
<1>8. ASSUME NEW p \in Processes, ReloadStep(p) \/ Start(p) \/ Construct(p)
      PROVE  TagInv'
  <2> USE DEF ReloadStep, ReloadLocks, LoadTakesOver, ReloadReads, ReloadTags, ReloadReleases,
              ReloadDone, ReloadFails, Reloaded, Start, Construct
  <2>1. UNCHANGED <<file, rev>>
    BY <1>8
  <2>2. \A r \in Processes : \/ cache'[r] = cache[r]
                             \/ cache'[r].rev = rev /\ cache'[r].data = file
    <3>1. CASE ReloadTags(p)
      <4>1. reload[p].data = file
        BY <3>1 DEF WrittenInv
      <4>. QED
        BY <3>1, <4>1
    <3>2. CASE ~ReloadTags(p)
      BY <1>8, <3>2
    <3>. QED
      BY <3>1, <3>2
  <2>3. \A d \in CallIds :
           call'[d].tag = 0 \/ (call'[d].tag = call[d].tag /\ call'[d].seen = call[d].seen)
    BY <1>8 DEF Resolve, CallRecord
  <2>. QED
    BY <2>1, <2>2, <2>3, TagsKept
<1>9. ASSUME NEW p \in Processes, Create(p)
      PROVE  TagInv'
  BY <1>9, TagsOutdated DEF Create
<1>10. ASSUME NEW p \in Processes, Crash(p) \/ Tear(p)
       PROVE  TagInv'
  <2>1. UNCHANGED <<file, rev>>
    BY <1>10 DEF Crash, Tear, Dies
  <2>2. \A r \in Processes : cache'[r] = cache[r] \/ cache'[r].rev = 0
    BY <1>10 DEF Crash, Tear, Dies
  <2>3. \A d \in CallIds : call'[d] = call[d] \/ call'[d].tag = 0
    BY <1>10 DEF Crash, Tear, Dies
  <2>. QED
    BY <2>1, <2>2, <2>3, TagsKept
<1>11. ASSUME Stale \/ Stall \/ (\E q \in Providers : Expire(q))
       PROVE  TagInv'
  <2>1. UNCHANGED <<file, rev, cache, call>>
    BY <1>11 DEF Stale, Stall, Expire
  <2>. QED
    BY <2>1, TagsKept
<1>. QED
  BY <1>1, <1>2, <1>3, <1>4, <1>5, <1>6, <1>7, <1>8, <1>9, <1>10, <1>11, <1>12
     DEF Next, CallStep, StartStep, Environment

\* A step that leaves what was written and the servers alone, and after which a call has a
\* new token only if it had it before.
LEMMA TokensKept ==
    ASSUME TokenInv, UNCHANGED <<written, spent, expired, reused>>,
           \A c \in CallIds : Carries(c)' => Carries(c) /\ call'[c].token = call[c].token,
           \A c \in CallIds, q \in Providers : Replaces(c, q) => Replaces(c, q)'
    PROVE  TokenInv'
<1>1. ASSUME NEW c \in CallIds, Carries(c)'
      PROVE  NewToken(c)'
  BY <1>1 DEF TokenInv, NewToken
<1>. QED
  BY <1>1 DEF TokenInv, SentOnce

\* A token that was written is not sent again, and one that replaces it is new.
LEMMA TokenStep ==
    ASSUME TypeInv, LockInv, WrittenInv, TokenInv, [Next]_vars, Undisturbed, Undisturbed'
    PROVE  TokenInv'
<1> /\ call \in [CallIds -> CallRecord] /\ FileType /\ CallsUp /\ ProcessesUp /\ ServerType
    /\ \A c \in CallIds : c[1] \in Processes
    /\ NoCall.pc = "none"
  BY DEF TypeInv, CallType, CallIds, NoCall
<1> USE DEF fileVars, serverVars
<1>1. CASE UNCHANGED vars
  <2>1. \A c \in CallIds : /\ Carries(c)' => Carries(c) /\ call'[c].token = call[c].token
                           /\ \A q \in Providers : Replaces(c, q) => Replaces(c, q)'
    BY <1>1 DEF vars, Carries, Replaces
  <2>. QED
    BY <1>1, <2>1, TokensKept DEF vars
<1>2. ASSUME NEW c \in CallIds, NEW rec, Goes(c, rec), UNCHANGED <<written, spent, expired, reused>>,
             \/ rec.pc \in {"none", "releasing", "released"}
             \/ call[c].pc \notin {"none", "releasing", "released"} /\ rec.token = call[c].token,
             call[c].pc \notin {"writing", "truncated"}
      PROVE  TokenInv'
  <2>1. call'[c] = rec /\ \A d \in CallIds : d # c => call'[d] = call[d]
    BY <1>2 DEF Goes
  <2>2. \A d \in CallIds : Carries(d)' => Carries(d) /\ call'[d].token = call[d].token
    BY <1>2, <2>1 DEF Carries
  <2>3. \A d \in CallIds, q \in Providers : Replaces(d, q) => Replaces(d, q)'
    BY <1>2, <2>1 DEF Replaces
  <2>. QED
    BY <1>2, <2>2, <2>3, TokensKept
<1>3. ASSUME NEW c \in CallIds, Read(c)
      PROVE  TokenInv'
  <2>1. UNCHANGED <<written, spent, expired, reused>> /\ call[c].pc = "read"
    BY <1>3 DEF Read
  <2>2. CASE cache[c[1]].rev = rev
    <3>1. \/ Resolve(call[c], cache[c[1]].data).pc = "none"
          \/ Resolve(call[c], cache[c[1]].data).token = call[c].token
      BY DEF Resolve, CallRecord
    <3>. QED
      BY <1>3, <2>1, <2>2, <3>1, <1>2 DEF Read
  <2>3. CASE cache[c[1]].rev # rev
    <3>1. [call[c] EXCEPT !.pc = "reading"].token = call[c].token
      BY DEF CallRecord
    <3>. QED
      BY <1>3, <2>1, <2>3, <3>1, <1>2 DEF Read
  <2>. QED
    BY <2>2, <2>3
<1>4. ASSUME NEW c \in CallIds, Lock(c)
      PROVE  TokenInv'
  <2>1. UNCHANGED <<written, spent, expired, reused>> /\ call[c].pc = "locking"
    BY <1>4 DEF Lock
  <2>2. PICK rec : Goes(c, rec) /\ rec.token = call[c].token
    <3>1. \E pc : Goes(c, [call[c] EXCEPT !.seen = file, !.tag = 0, !.pc = pc])
      BY <1>4 DEF Lock
    <3>2. \A pc : [call[c] EXCEPT !.seen = file, !.tag = 0, !.pc = pc].token = call[c].token
      BY DEF CallRecord
    <3>. QED
      BY <3>1, <3>2
  <2>. QED
    BY <2>1, <2>2, <1>2
<1>5. ASSUME NEW c \in CallIds, LockFails(c) \/ Done(c)
      PROVE  TokenInv'
  <2>1. UNCHANGED <<written, spent, expired, reused>> /\ Goes(c, NoCall)
        /\ call[c].pc \in {"locking", "released"}
    BY <1>5 DEF LockFails, Done
  <2>. QED
    BY <2>1, <1>2
<1>6. ASSUME NEW c \in CallIds, RefreshFails(c) \/ Leave(c)
      PROVE  TokenInv'
  <2>1. UNCHANGED <<written, spent, expired, reused>> /\ call[c].pc \in {"leaving", "refreshing"}
    BY <1>6 DEF RefreshFails, Leave
  <2>2. /\ [call[c] EXCEPT !.pc = "releasing", !.failed = TRUE].pc = "releasing"
        /\ [call[c] EXCEPT !.tag = rev, !.pc = "releasing"].pc = "releasing"
    BY DEF CallRecord
  <2>. QED
    BY <1>6, <2>1, <2>2, <1>2 DEF RefreshFails, Leave
<1>7. ASSUME NEW c \in CallIds, Release(c)
      PROVE  TokenInv'
  <2>1. UNCHANGED <<written, spent, expired, reused>> /\ call[c].pc = "releasing"
    BY <1>7 DEF Release
  <2>2. [call[c] EXCEPT !.pc = "released"].pc = "released"
    BY DEF CallRecord
  <2>. QED
    BY <1>7, <2>1, <2>2, <1>2 DEF Release
<1>8. ASSUME NEW p \in Processes, ReloadStep(p)
      PROVE  TokenInv'
  <2>1. CASE ReloadLocks(p) \/ LoadTakesOver(p) \/ ReloadTags(p) \/ ReloadReleases(p)
    <3>1. UNCHANGED <<written, spent, expired, reused, call>>
      BY <2>1 DEF ReloadLocks, LoadTakesOver, ReloadReads, ReloadTags, ReloadReleases
    <3>2. \A c \in CallIds : /\ Carries(c)' => Carries(c) /\ call'[c].token = call[c].token
                             /\ \A q \in Providers : Replaces(c, q) => Replaces(c, q)'
      BY <3>1 DEF Carries, Replaces
    <3>. QED
      BY <3>1, <3>2, TokensKept
  <2>2. CASE ReloadDone(p) \/ ReloadFails(p)
    <3>1. PICK data : Reloaded(p, data)
      BY <2>2 DEF ReloadDone, ReloadFails
    <3>2. UNCHANGED <<written, spent, expired, reused>>
          /\ \A c \in CallIds : \/ call'[c] = call[c]
                                \/ call[c].pc = "reading" /\ call'[c] = Resolve(call[c], data)
      BY <3>1 DEF Reloaded
    <3>3. \A c \in CallIds : \/ Resolve(call[c], data).pc = "none"
                             \/ Resolve(call[c], data).token = call[c].token
      BY DEF Resolve, CallRecord
    <3>4. \A c \in CallIds : Carries(c)' => Carries(c) /\ call'[c].token = call[c].token
      BY <3>2, <3>3 DEF Carries
    <3>5. \A c \in CallIds, q \in Providers : Replaces(c, q) => Replaces(c, q)'
      BY <3>2 DEF Replaces
    <3>. QED
      BY <3>2, <3>4, <3>5, TokensKept
  <2>. QED
    BY <1>8, <2>1, <2>2 DEF ReloadStep
<1>9. ASSUME Stale \/ Stall \/ (\E p \in Processes : StartStep(p))
      PROVE  TokenInv'
  <2>1. UNCHANGED <<written, spent, expired, reused, call>>
    BY <1>9 DEF Stale, StartStep, Start, Create, Construct, Stall
  <2>2. \A c \in CallIds : /\ Carries(c)' => Carries(c) /\ call'[c].token = call[c].token
                           /\ \A q \in Providers : Replaces(c, q) => Replaces(c, q)'
    BY <2>1 DEF Carries, Replaces
  <2>. QED
    BY <2>1, <2>2, TokensKept
<1>10. ASSUME NEW c \in CallIds, Compromised(c)
       PROVE  TokenInv'
  BY <1>10 DEF Compromised, LockInv
\* Tokens have numbers up to that of the last one issued, and the next one is new.
<1>b. /\ tokens \in Nat \ {0} /\ 0 \notin spent /\ 0 \notin expired
      /\ \A c \in CallIds : call[c].token \in 0..tokens
      /\ tokens + 1 \notin 0..tokens /\ tokens + 1 \notin spent /\ tokens + 1 \notin expired
      /\ written \in Data /\ \A q \in Providers : written[q] \in 0..tokens
  BY DEF ServerType, CallRecord, FileType, Data
<1>c. ASSUME NEW c \in CallIds, UNCHANGED <<written, spent, expired, reused>>,
             call[c].pc = "none", call'[c].pc \notin {"writing", "truncated"}, call'[c].token \in {0, tokens + 1},
             \A d \in CallIds : d # c => call'[d] = call[d]
      PROVE  TokenInv'
  <2>1. \A d \in CallIds : d # c => (Carries(d)' <=> Carries(d))
    BY <1>c DEF Carries
  <2>2. \A d \in CallIds, q \in Providers : Replaces(d, q) => Replaces(d, q)'
    BY <1>c DEF Replaces
  <2>3. ASSUME NEW d \in CallIds, Carries(d)'
        PROVE  NewToken(d)'
    <3>1. CASE d = c
      <4>1. call'[c].token = tokens + 1
        BY <1>c, <2>3, <3>1 DEF Carries
      <4>2. \A e \in CallIds : e # c => call'[e].token # tokens + 1
        BY <1>b, <1>c
      <4>. QED
        BY <1>b, <1>c, <3>1, <4>1, <4>2 DEF NewToken
    <3>2. CASE d # c
      <4>1. Carries(d) /\ call'[d] = call[d] /\ NewToken(d)
        BY <1>c, <2>1, <2>3, <3>2 DEF TokenInv
      <4>2. \A e \in CallIds : Carries(e)' /\ call'[e].token = call[d].token => e # c
        BY <1>b, <1>c, <4>1 DEF Carries
      <4>. QED
        BY <1>c, <2>1, <4>1, <4>2 DEF NewToken
    <3>. QED
      BY <3>1, <3>2
  <2>. QED
    BY <1>c, <2>2, <2>3 DEF TokenInv, SentOnce
<1>11. ASSUME NEW c \in CallIds, NEW kind \in Kinds, NEW q \in Providers, Call(c, kind, q)
       PROVE  TokenInv'
  <2> DEFINE rec == [NoCall EXCEPT !.pc = IF kind = "resolve" THEN "read" ELSE "locking",
                                   !.kind = kind, !.prov = q,
                                   !.token = IF kind = "login" THEN tokens + 1 ELSE 0]
  <2>1. UNCHANGED <<written, spent, expired, reused>> /\ Goes(c, rec) /\ call[c].pc = "none"
    BY <1>11 DEF Call
  <2>2. rec.pc \notin {"writing", "truncated"} /\ rec.token \in {0, tokens + 1}
    BY DEF NoCall
  <2> HIDE DEF rec
  <2>3. call'[c] = rec /\ \A d \in CallIds : d # c => call'[d] = call[d]
    BY <2>1 DEF Goes
  <2>. QED
    BY <2>1, <2>2, <2>3, <1>b, <1>c
<1>12. ASSUME NEW c \in CallIds, Refresh(c)
       PROVE  TokenInv'
  <2> DEFINE q == call[c].prov
             rec == [call[c] EXCEPT !.pc = "writing", !.token = tokens + 1]
  <2>1. /\ call[c].pc = "refreshing" /\ call[c].kind = "resolve" /\ call[c].seen = written
        /\ written[q] \in expired /\ q \in Providers /\ lock = c
    BY <1>12 DEF Refresh, CallsUp, WithContent, WrittenInv, LockInv, TypeInv, CallType
  <2>2. written[q] \notin spent
    <3>1. \A d \in CallIds : ~Replaces(d, q)
      BY <2>1 DEF LockInv, Replaces
    <3>. QED
      BY <2>1, <3>1 DEF TokenInv
  <2>3. /\ Goes(c, rec) /\ UNCHANGED <<written, expired, reused>>
        /\ spent' = spent \union {written[q]}
    BY <1>12, <2>1, <2>2 DEF Refresh
  <2>4. rec.pc = "writing" /\ rec.kind = "resolve" /\ rec.prov = q /\ rec.token = tokens + 1
    BY <2>1 DEF CallRecord
  <2> HIDE DEF rec
  <2>5. call'[c] = rec /\ \A d \in CallIds : d # c => call'[d] = call[d]
    BY <2>3 DEF Goes
  <2>6. \A r \in Providers : written[r] \in spent' => Replaces(c, r)'
    <3>1. ASSUME NEW r \in Providers, written[r] \in spent
          PROVE  FALSE
      BY <2>1, <3>1 DEF TokenInv, LockInv, Replaces
    <3>2. ASSUME NEW r \in Providers, written[r] = written[q]
          PROVE  r = q
      <4>1. written[q] # 0
        BY <2>1 DEF ServerType
      <4>. QED
        BY <2>1, <3>2, <4>1 DEF TokenInv
    <3>. QED
      BY <2>3, <2>4, <2>5, <3>1, <3>2 DEF Replaces
  <2>7. \A d \in CallIds : Carries(d)' => NewToken(d)'
    <3>1. ASSUME NEW d \in CallIds, d # c, Carries(d)'
          PROVE  NewToken(d)'
      <4>1. Carries(d) /\ call'[d] = call[d] /\ NewToken(d)
        BY <2>5, <3>1 DEF Carries, TokenInv
      <4>2. call[d].token # written[q] /\ call[d].token # tokens + 1
        BY <1>b, <2>1, <4>1 DEF NewToken
      <4>3. ASSUME NEW e \in CallIds, Carries(e)', call'[e].token = call[d].token
            PROVE  e = d
        <5>1. e # c
          BY <4>2, <4>3, <2>4, <2>5
        <5>. QED
          BY <4>1, <4>3, <5>1, <2>5 DEF NewToken, Carries
      <4>. QED
        BY <2>3, <4>1, <4>2, <4>3 DEF NewToken
    <3>2. NewToken(c)'
      <4>1. tokens + 1 \notin spent /\ tokens + 1 \notin expired /\ tokens + 1 # written[q]
            /\ \A r \in Providers : written[r] # tokens + 1
        BY <1>b, <2>1
      <4>2. \A d \in CallIds : d # c => call'[d].token # tokens + 1
        BY <1>b, <2>5
      <4>. QED
        BY <2>3, <2>4, <2>5, <4>1, <4>2 DEF NewToken
    <3>. QED
      BY <3>1, <3>2
  <2>. QED
    BY <2>1, <2>3, <2>6, <2>7 DEF TokenInv, SentOnce
<1>13. ASSUME NEW c \in CallIds, Write(c)
       PROVE  TokenInv'
  <2> DEFINE q == call[c].prov
             rec == [call[c] EXCEPT !.pc = "releasing", !.seen = file']
  <2>1. /\ call[c].pc = "truncated" /\ call[c].seen = written
        /\ q \in Providers /\ lock = c
    BY <1>13 DEF Write, WrittenInv, WithContent, LockInv, TypeInv, CallType
  <2>2. /\ Goes(c, rec) /\ UNCHANGED <<spent, expired, reused>>
        /\ written' = [written EXCEPT ![q] = call[c].token]
    BY <1>13, <2>1 DEF Write
  <2>3. rec.pc = "releasing"
    BY DEF CallRecord
  <2> HIDE DEF rec
  <2>4. call'[c] = rec /\ \A d \in CallIds : d # c => call'[d] = call[d]
    BY <2>2 DEF Goes
  <2>5. \A r \in Providers : written'[r] = IF r = q THEN call[c].token ELSE written[r]
    BY <1>b, <2>1, <2>2 DEF Data
  <2>6. call[c].token # 0 => Carries(c) /\ NewToken(c)
    BY <2>1 DEF Carries, TokenInv
  <2>7. \A r, s \in Providers : written'[r] = written'[s] /\ written'[r] # 0 => r = s
    BY <2>1, <2>5, <2>6 DEF NewToken, TokenInv
  <2>8. ASSUME NEW r \in Providers, written'[r] \in spent
        PROVE  FALSE
    <3>1. CASE r = q
      BY <1>b, <2>5, <2>6, <2>8, <3>1 DEF NewToken
    <3>2. CASE r # q
      BY <2>1, <2>5, <2>8, <3>2 DEF TokenInv, Replaces, LockInv
    <3>. QED
      BY <3>1, <3>2
  <2>9. ASSUME NEW d \in CallIds, Carries(d)'
        PROVE  NewToken(d)'
    <3>1. d # c /\ Carries(d) /\ call'[d] = call[d] /\ NewToken(d)
      BY <2>3, <2>4, <2>9 DEF Carries, TokenInv
    <3>2. call[d].token # call[c].token
      BY <2>6, <3>1 DEF NewToken, Carries
    <3>3. \A r \in Providers : written'[r] # call[d].token
      BY <2>1, <2>5, <3>1, <3>2 DEF NewToken
    <3>4. \A e \in CallIds : Carries(e)' => Carries(e) /\ call'[e] = call[e]
      BY <2>3, <2>4 DEF Carries
    <3>. QED
      BY <2>2, <3>1, <3>3, <3>4 DEF NewToken
  <2>. QED
    BY <2>2, <2>7, <2>8, <2>9 DEF TokenInv, SentOnce
<1>17. ASSUME NEW c \in CallIds, Truncate(c)
       PROVE  TokenInv'
  <2> DEFINE rec == [call[c] EXCEPT !.pc = "truncated"]
  <2>1. Goes(c, rec) /\ UNCHANGED <<written, spent, expired, reused>> /\ call[c].pc = "writing"
    BY <1>17 DEF Truncate, LockInv
  <2>2. rec.pc = "truncated" /\ rec.kind = call[c].kind /\ rec.prov = call[c].prov /\ rec.token = call[c].token
    BY DEF CallRecord
  <2> HIDE DEF rec
  <2>3. call'[c] = rec /\ \A d \in CallIds : d # c => call'[d] = call[d]
    BY <2>1 DEF Goes
  <2>4. \A d \in CallIds : Carries(d)' => Carries(d) /\ call'[d].token = call[d].token
    BY <2>1, <2>2, <2>3 DEF Carries
  <2>5. \A d \in CallIds, q \in Providers : Replaces(d, q) => Replaces(d, q)'
    BY <2>1, <2>2, <2>3 DEF Replaces
  <2>. QED
    BY <2>1, <2>4, <2>5, TokensKept
<1>14. ASSUME NEW q \in Providers, Expire(q)
       PROVE  TokenInv'
  <2>1. /\ file # None /\ file[q] # 0 /\ UNCHANGED <<written, call, spent, reused>>
        /\ expired' = expired \union {file[q]}
    BY <1>14 DEF Expire
  <2>2. file[q] = written[q]
    BY <2>1 DEF WrittenInv, UpdatesKept, Empty
  <2>3. \A c \in CallIds : (Carries(c)' <=> Carries(c)) /\ (\A r \in Providers : Replaces(c, r)' <=> Replaces(c, r))
    BY <2>1 DEF Carries, Replaces
  <2>4. \A c \in CallIds : Carries(c) => NewToken(c)'
    BY <2>1, <2>2, <2>3 DEF TokenInv, NewToken
  <2>. QED
    BY <2>1, <2>3, <2>4 DEF TokenInv, SentOnce
<1>16. ASSUME NEW p \in Processes, Crash(p) \/ Tear(p)
       PROVE  TokenInv'
  <2> DEFINE lost == {call[c].seen[call[c].prov] :
                         c \in {d \in CallIds : d[1] = p /\ call[d].pc \in {"writing", "truncated"}}}
  <2>1. /\ UNCHANGED <<written, expired, reused>> /\ spent' = spent \ lost
        /\ call' = [c \in CallIds |-> IF c[1] = p THEN NoCall ELSE call[c]]
    BY <1>16 DEF Crash, Tear, Dies
  <2>2. \A c \in CallIds : Carries(c)' => Carries(c) /\ call'[c] = call[c]
    BY <2>1 DEF Carries
  <2>3. ASSUME NEW q \in Providers, written[q] \in spent'
        PROVE  \E c \in CallIds : Replaces(c, q)'
    <3>1. PICK c \in CallIds : Replaces(c, q)
      BY <2>1, <2>3 DEF TokenInv
    <3>2. c[1] # p
      <4>1. call[c].seen[call[c].prov] = written[q]
        BY <3>1 DEF Replaces, WrittenInv, WithContent
      <4>. QED
        BY <2>1, <2>3, <3>1, <4>1 DEF Replaces
    <3>. QED
      BY <2>1, <3>1, <3>2 DEF Replaces
  <2>4. \A c \in CallIds : Carries(c)' => NewToken(c)'
    BY <2>1, <2>2 DEF TokenInv, NewToken
  <2>. QED
    BY <2>1, <2>3, <2>4 DEF TokenInv, SentOnce
<1>. QED
  BY <1>1, <1>3, <1>4, <1>5, <1>6, <1>7, <1>8, <1>9, <1>10, <1>11, <1>12, <1>13, <1>14, <1>16, <1>17
     DEF Next, CallStep, Environment

\* What the lock protects, as long as it is not lost.
SafeInv == Undisturbed => LockInv /\ WrittenInv /\ TagInv /\ TokenInv

\* The first state is safe.
LEMMA SafeInit == Init => SafeInv
<1> SUFFICES ASSUME Init PROVE LockInv /\ WrittenInv /\ TagInv /\ TokenInv
  BY DEF SafeInv
<1>1. /\ \A c \in CallIds : call[c].pc = "none" /\ ~call[c].compromised
      /\ \A p \in Processes : reload[p].pc = "none" /\ up[p] # "creating"
  BY DEF Init, NoCall, NoReload
<1>2. /\ spent = {} /\ expired = {} /\ ~reused
      /\ scenario.absent => file = None /\ written = Empty
      /\ ~scenario.absent => file = LoggedIn /\ written = LoggedIn
  BY DEF Init
<1>3. ~scenario.absent => LoggedIn # None
  BY <1>2, TypeInit, NoneIsNoContent DEF TypeInv, ServerType, FileType
<1>4. LockInv
  BY <1>1 DEF LockInv
<1>5. WrittenInv
  BY <1>1, <1>2, <1>3 DEF WrittenInv, UpdatesKept, WithContent
<1>6. TokenInv
  <2>1. ASSUME NEW q \in Providers, NEW r \in Providers, written[q] = written[r], written[q] # 0
        PROVE  q = r
    BY <2>1, <1>2 DEF LoggedIn, Empty
  <2>. QED
    BY <1>1, <1>2, <2>1 DEF TokenInv, SentOnce, Carries
<1>7. TagInv
  BY DEF Init, TagInv, TagsRight, NoCall, NoCache
<1>. QED
  BY <1>4, <1>5, <1>6, <1>7

\* A step uses at most one of the bounds.
LEMMA UsesOne ==
    ASSUME [Next]_vars
    PROVE  UNCHANGED used \/ \E b \in BoundNames : Uses(b)
<1> USE DEF BoundNames
<1>1. ASSUME NEW c \in CallIds, CallStep(c) \/ (\E kind \in Kinds, q \in Providers : Call(c, kind, q))
      PROVE  UNCHANGED used \/ \E b \in BoundNames : Uses(b)
  BY <1>1 DEF CallStep, Read, Lock, Leave, LockFails, Refresh, RefreshFails, Truncate, Write, Release, Done, Call
<1>2. ASSUME NEW p \in Processes, ReloadStep(p) \/ StartStep(p)
      PROVE  UNCHANGED used \/ \E b \in BoundNames : Uses(b)
  BY <1>2 DEF ReloadStep, ReloadLocks, LoadTakesOver, ReloadTags, ReloadReleases, ReloadDone, ReloadFails,
     StartStep, Start, Construct, Create
<1>3. ASSUME Stale \/ Environment
      PROVE  UNCHANGED used \/ \E b \in BoundNames : Uses(b)
  BY <1>3 DEF Stale, Environment, Expire, Crash, Tear, Stall, Compromised
<1>. QED
  BY <1>1, <1>2, <1>3 DEF Next, vars

\* Every step is.
LEMMA SafeStep ==
    ASSUME TypeInv, SafeInv, [Next]_vars
    PROVE  SafeInv'
<1> SUFFICES ASSUME Undisturbed' PROVE LockInv' /\ WrittenInv' /\ TagInv' /\ TokenInv'
  BY DEF SafeInv
<1>1. used'["stalls"] = 0 /\ used'["slow"] = 0 /\ used'["torn"] = 0
  BY DEF Undisturbed
<1>2. Undisturbed
  <2>1. ASSUME NEW a \in BoundNames, used'[a] = 0
        PROVE  used[a] = 0
    <3>1. used[a] \in Nat /\ used \in [BoundNames -> Nat]
      BY DEF TypeInv, BoundType
    <3>2. ASSUME NEW b \in BoundNames, Uses(b)
          PROVE  used[a] = 0
      <4>1. used' = [used EXCEPT ![b] = used[b] + 1]
        BY <3>2 DEF Uses
      <4>2. b # a
        BY <2>1, <3>1, <4>1
      <4>. QED
        BY <2>1, <3>1, <4>1, <4>2
    <3>. QED
      BY <2>1, <3>2, UsesOne
  <2>2. {"stalls", "slow", "torn"} \subseteq BoundNames
    BY DEF BoundNames
  <2>3. scenario' = scenario
    BY DEF Next, vars
  <2>. QED
    BY <1>1, <2>1, <2>2, <2>3 DEF Undisturbed
<1>. QED
  BY <1>1, <1>2, LockStep, WrittenStep, TagStep, TokenStep DEF SafeInv

\* Whatever the processes read, refresh, log in to and log out of, crashes
\* included but those in the middle of a write: auth.json holds for each provider
\* what was last written for it, unless a lock was taken from a live owner.
THEOREM NoUpdateLostHolds == Spec => []NoUpdateLost
<1>1. SafeInv => NoUpdateLost
  BY DEF SafeInv, WrittenInv, NoUpdateLost
<1>. QED
  BY TypeInit, TypeNext, SafeInit, SafeStep, <1>1, PTL DEF Spec

\* And no token is sent to the server twice, however many calls of however many
\* processes find it about to expire.
THEOREM RefreshedOnceHolds == Spec => []RefreshedOnce
<1>1. SafeInv => RefreshedOnce
  BY DEF SafeInv, TokenInv, RefreshedOnce
<1>. QED
  BY TypeInit, TypeNext, SafeInit, SafeStep, <1>1, PTL DEF Spec

\* And the snapshot a process answers from is the file it is valid for, whatever
\* is written between its reads, as long as nobody writes without the lock.
THEOREM SnapshotIsFileHolds == Spec => []SnapshotIsFile
<1>1. SafeInv => SnapshotIsFile
  BY DEF SafeInv, TagInv, SnapshotIsFile
<1>. QED
  BY TypeInit, TypeNext, SafeInit, SafeStep, <1>1, PTL DEF Spec
=============================================================================
