----------------------------- MODULE Credentials -----------------------------
(***************************************************************************)
(* Stored credentials: AuthStorage over auth.json and its lock file        *)
(* (packages/coding-agent/src/core/auth-storage.ts), and the refresh of    *)
(* OAuth tokens under that lock (packages/ai/src/auth/resolve.ts), of      *)
(* several processes that share the file.                                  *)
(*                                                                         *)
(* A step is the code between two awaits of a call, or between two system  *)
(* calls where another process can tell the difference: a write truncates  *)
(* the file first, and what is read is tagged with a revision in a second  *)
(* step.  A credential is the number of the token in it; 0 is none.  The   *)
(* lock is that of proper-lockfile: a directory, that its owner touches    *)
(* every 15 seconds.  Who calls takes it over when it was not touched for  *)
(* 30 seconds; who constructs an AuthStorage, synchronously, after 10.     *)
(***************************************************************************)
EXTENDS Integers, FiniteSets

CONSTANTS
    Processes, Providers,
    Slots,       \* calls of one process at a time, numbered from 1; 0 is its reload
    Scenarios,   \* what may happen in a behaviour, as a set of records:
                 \*   kinds     the calls made: "resolve", "login", "logout"
                 \*   calls     bound: calls
                 \*   sessions  bound: sessions begun by a process that has one
                 \*   expiries  bound: tokens that come to expire
                 \*   failures  bound: refreshes that fail, locks given up on
                 \*   crashes   bound: processes that die
                 \*   torn      bound: processes that die in the middle of a write
                 \*   stalls    bound: owners of the lock suspended past the stale time
                 \*   slow      bound: refreshes that outlast that of a synchronous load
                 \*   absent    whether there is no auth.json at first
    None         \* no file, no owner of the lock, no process

Kinds == {"resolve", "login", "logout"}

ASSUME CredentialsAssumption ==
    /\ Slots \subseteq Nat \ {0}
    /\ Scenarios \subseteq [kinds : SUBSET Kinds, calls : Nat, sessions : Nat, expiries : Nat,
                            failures : Nat, crashes : Nat, torn : Nat, stalls : Nat, slow : Nat, absent : BOOLEAN]
    /\ None \notin Processes /\ None \notin [Providers -> Nat]
    /\ None # <<None, 0>> /\ \A p \in Processes, i \in Slots \union {0} : None # <<p, i>>

VARIABLES
    scenario,
    file,     \* the content of auth.json: a token for each provider; None if absent
    rev,      \* what stat() tells of it: changes with every write
    lock,     \* the call or the reload that owns the lock file, Dead after a crash, or None
    up,       \* of each process, how far its AuthStorage is constructed
    cache,    \* its readState: data, and the revision it is valid for (0: none)
    reload,   \* its readState.reload
    call,     \* its calls
    used,     \* how often each bound was used
    \* --- the servers, and history
    tokens,   \* tokens issued
    expired,  \* tokens that are to expire within minutes
    spent,    \* tokens that were exchanged for another
    reused,   \* whether a spent token was sent again
    written   \* what was last written for each provider

vars == <<scenario, file, rev, lock, up, cache, reload, call, used, tokens, expired, spent, reused,
          written>>
fileVars == <<file, rev, written>>
serverVars == <<tokens, expired, spent, reused>>

CallIds == Processes \X Slots
Dead == <<None, 0>>
Empty == [q \in Providers |-> 0]
LoggedIn == [Empty EXCEPT ![CHOOSE q \in Providers : TRUE] = 1]
NoCache == [data |-> Empty, rev |-> 0]
NoReload == [pc |-> "none", data |-> Empty]
NoCall == [pc |-> "none", kind |-> "none", prov |-> None, seen |-> Empty, token |-> 0, tag |-> 0,
           compromised |-> FALSE, failed |-> FALSE]

Uses(bound) == /\ used[bound] < scenario[bound]
               /\ used' = [used EXCEPT ![bound] = @ + 1]

Goes(c, rec) == call' = [call EXCEPT ![c] = rec]

\* The lock directory is removed by its name, whoever made it; not, though, by an
\* owner whose timer has found out that it is another's.
Free(holder) == lock' = None \/ (lock # holder /\ UNCHANGED lock)

(***************************************************************************)
(* A process constructs its AuthStorage                                    *)
(***************************************************************************)
\* ensureFileExists looks for the file, and writes an empty one if there is none
\* (empty or with {} in it, it is read alike); then the constructor reloads.
Start(p) ==
    /\ up[p] = "down"
    /\ up' = [up EXCEPT ![p] = IF file = None THEN "creating" ELSE "loading"]
    /\ reload' = IF file = None THEN reload ELSE [reload EXCEPT ![p].pc = "locking"]
    /\ UNCHANGED <<fileVars, lock, cache, call, used, serverVars>>

\* A process that has one constructs another, for a new session: they share the
\* snapshot, which is loaded again unless the file is unchanged.
Construct(p) ==
    /\ up[p] = "up" /\ reload[p].pc = "none" /\ cache[p].rev # rev
    /\ Uses("sessions")
    /\ up' = [up EXCEPT ![p] = "loading"]
    /\ reload' = [reload EXCEPT ![p].pc = "locking"]
    /\ UNCHANGED <<fileVars, lock, cache, call, serverVars>>

Create(p) ==
    /\ up[p] = "creating"
    /\ file' = Empty /\ rev' = rev + 1
    /\ up' = [up EXCEPT ![p] = "loading"]
    /\ reload' = [reload EXCEPT ![p].pc = "locking"]
    /\ UNCHANGED <<lock, cache, call, used, serverVars, written>>

(***************************************************************************)
(* read(): the snapshot if the file is unchanged, else one reload for all  *)
(* that wait                                                               *)
(***************************************************************************)
\* A token that is stored and does not expire soon is used as it is; one that
\* does leads to modify(), by resolveStoredOAuth.
Resolve(rec, data) ==
    IF data[rec.prov] = 0 \/ data[rec.prov] \notin expired THEN NoCall
    ELSE [rec EXCEPT !.pc = "locking"]

Read(c) ==
    LET p == c[1] IN
    /\ call[c].pc = "read" /\ up[p] = "up"
    /\ IF cache[p].rev = rev
       THEN Goes(c, Resolve(call[c], cache[p].data)) /\ UNCHANGED reload
       ELSE /\ Goes(c, [call[c] EXCEPT !.pc = "reading"])
            /\ reload' = IF reload[p].pc # "none" THEN reload
                         ELSE [reload EXCEPT ![p].pc = "locking"]
    /\ UNCHANGED <<fileVars, lock, up, cache, used, serverVars>>

\* A lock that was released on disk is known to be so in its own process before
\* the process can take it again, unless it does so synchronously.
Takes(p) ==
    /\ lock = None
    /\ \/ up[p] = "loading"
       \/ reload[p].pc # "released" /\ \A i \in Slots : call[<<p, i>>].pc # "released"

\* withLock or withLockAsync reads the file ...
ReloadReads(p) ==
    /\ lock' = <<p, 0>>
    /\ reload' = [reload EXCEPT ![p] = [pc |-> "tagging", data |-> file]]
    /\ UNCHANGED <<fileVars, up, cache, call, serverVars>>

ReloadLocks(p) ==
    /\ reload[p].pc = "locking" /\ Takes(p)
    /\ ReloadReads(p)
    /\ UNCHANGED used

\* ... and so it does if it is a constructor's, when the owner of the lock has
\* waited for the server for more than ten seconds.
LoadTakesOver(p) ==
    /\ up[p] = "loading" /\ reload[p].pc = "locking"
    /\ Uses("slow")
    /\ \E c \in CallIds : /\ lock = c /\ call[c].kind = "resolve"
                          /\ call[c].pc \in {"refreshing", "writing", "truncated", "releasing"}
    /\ ReloadReads(p)

\* The revision is that of the file when stat() is called.
ReloadTags(p) ==
    /\ reload[p].pc = "tagging"
    /\ reload' = [reload EXCEPT ![p].pc = "holding"]
    /\ cache' = [cache EXCEPT ![p] = [data |-> reload[p].data, rev |-> rev]]
    /\ UNCHANGED <<fileVars, lock, up, call, used, serverVars>>

ReloadReleases(p) ==
    /\ reload[p].pc = "holding"
    /\ Free(<<p, 0>>)
    /\ reload' = [reload EXCEPT ![p].pc = "released"]
    /\ UNCHANGED <<fileVars, up, cache, call, used, serverVars>>

\* All that wait for the reload get its data; a process that was constructing
\* its AuthStorage is done.
Reloaded(p, data) ==
    /\ reload' = [reload EXCEPT ![p] = NoReload]
    /\ up' = [up EXCEPT ![p] = "up"]
    /\ call' = [c \in CallIds |-> IF c[1] = p /\ call[c].pc = "reading"
                                  THEN Resolve(call[c], data) ELSE call[c]]
    /\ UNCHANGED <<fileVars, lock, cache, serverVars>>

ReloadDone(p) ==
    /\ reload[p].pc = "released"
    /\ Reloaded(p, reload[p].data)
    /\ UNCHANGED used

\* The lock is given up on: the last snapshot is used.
ReloadFails(p) ==
    /\ reload[p].pc = "locking" /\ lock # None
    /\ Uses("failures")
    /\ Reloaded(p, cache[p].data)

(***************************************************************************)
(* modify() and delete(), under the lock                                   *)
(***************************************************************************)
\* The application asks for a token, logs in or logs out, as another call of the
\* process (slots are alike: the first free one).
Call(c, kind, q) ==
    /\ up[c[1]] = "up" /\ call[c].pc = "none"
    /\ \A i \in Slots : i < c[2] => call[<<c[1], i>>].pc # "none"
    /\ kind \in scenario.kinds
    /\ Uses("calls")
    /\ Goes(c, [NoCall EXCEPT !.pc = IF kind = "resolve" THEN "read" ELSE "locking",
                              !.kind = kind, !.prov = q,
                              !.token = IF kind = "login" THEN tokens + 1 ELSE 0])
    /\ tokens' = IF kind = "login" THEN tokens + 1 ELSE tokens
    /\ UNCHANGED <<fileVars, lock, up, cache, reload, expired, spent, reused>>

\* Mutant: expiry is not checked again under the lock.
Lock_NoRecheck(c) ==
    /\ call[c].pc = "locking" /\ Takes(c[1])
    /\ lock' = c
    /\ Goes(c, [call[c] EXCEPT !.seen = file, !.tag = 0,
                               !.pc = IF call[c].kind # "resolve" THEN "writing" ELSE "refreshing"])
    /\ UNCHANGED <<fileVars, up, cache, reload, used, serverVars>>

\* The content is read, and the callback of modify() sees its own provider: a
\* token that was refreshed or removed meanwhile is left as it is.
Lock(c) ==
    /\ call[c].pc = "locking" /\ Takes(c[1])
    /\ lock' = c
    /\ LET leave == call[c].kind = "resolve" /\ (file[call[c].prov] = 0 \/ file[call[c].prov] \notin expired)
       IN Goes(c, [call[c] EXCEPT !.seen = file, !.tag = 0,
                                  !.pc = IF leave THEN "leaving"
                                         ELSE IF call[c].kind = "resolve"
                                              THEN "refreshing" ELSE "writing"])
    /\ UNCHANGED <<fileVars, up, cache, reload, used, serverVars>>

\* What was left as it is, is tagged with its revision.
Leave(c) ==
    /\ call[c].pc = "leaving"
    /\ Goes(c, [call[c] EXCEPT !.tag = rev, !.pc = "releasing"])
    /\ UNCHANGED <<fileVars, lock, up, cache, reload, used, serverVars>>

LockFails(c) ==
    /\ call[c].pc = "locking" /\ lock # None
    /\ Uses("failures")
    /\ Goes(c, NoCall)
    /\ UNCHANGED <<fileVars, lock, up, cache, reload, serverVars>>

\* The server exchanges the token: it takes each once.
Refresh(c) ==
    /\ call[c].pc = "refreshing"
    /\ LET token == call[c].seen[call[c].prov]
       IN IF token \in spent
          THEN /\ reused' = TRUE
               /\ Goes(c, [call[c] EXCEPT !.pc = "releasing", !.failed = TRUE])
               /\ UNCHANGED <<tokens, spent>>
          ELSE /\ spent' = spent \union {token}
               /\ tokens' = tokens + 1
               /\ Goes(c, [call[c] EXCEPT !.pc = "writing", !.token = tokens + 1])
               /\ UNCHANGED reused
    /\ UNCHANGED <<fileVars, lock, up, cache, reload, used, expired>>

\* Mutant: the lock is not released when the refresh fails.
RefreshFails_KeepsLock(c) ==
    /\ call[c].pc = "refreshing"
    /\ Uses("failures")
    /\ Goes(c, NoCall)
    /\ UNCHANGED <<fileVars, lock, up, cache, reload, serverVars>>

RefreshFails(c) ==
    /\ call[c].pc = "refreshing"
    /\ Uses("failures")
    /\ Goes(c, [call[c] EXCEPT !.pc = "releasing", !.failed = TRUE])
    /\ UNCHANGED <<fileVars, lock, up, cache, reload, serverVars>>

\* The callback is done: unless the lock is known to be compromised, the file is
\* written, which empties it first.
Truncate(c) ==
    /\ call[c].pc = "writing"
    /\ IF call[c].compromised
       THEN /\ Goes(c, [call[c] EXCEPT !.pc = "releasing", !.failed = TRUE])
            /\ UNCHANGED <<file, rev>>
       ELSE /\ file' = Empty /\ rev' = rev + 1
            /\ Goes(c, [call[c] EXCEPT !.pc = "truncated"])
    /\ UNCHANGED <<written, lock, up, cache, reload, used, serverVars>>

\* Mutant: the new credential is merged into the snapshot.
Write_IntoSnapshot(c) ==
    /\ call[c].pc = "truncated"
    /\ file' = [cache[c[1]].data EXCEPT ![call[c].prov] = call[c].token]
    /\ rev' = rev + 1
    /\ written' = [written EXCEPT ![call[c].prov] = call[c].token]
    /\ Goes(c, [call[c] EXCEPT !.pc = "releasing", !.seen = file'])
    /\ UNCHANGED <<lock, up, cache, reload, used, serverVars>>

\* Then the content that was read is written, with this provider's credential
\* replaced.
Write(c) ==
    /\ call[c].pc = "truncated"
    /\ file' = [call[c].seen EXCEPT ![call[c].prov] = call[c].token]
    /\ rev' = rev + 1
    /\ written' = [written EXCEPT ![call[c].prov] = call[c].token]
    /\ Goes(c, [call[c] EXCEPT !.pc = "releasing", !.seen = file'])
    /\ UNCHANGED <<lock, up, cache, reload, used, serverVars>>

Release(c) ==
    /\ call[c].pc = "releasing"
    /\ IF call[c].compromised THEN UNCHANGED lock ELSE Free(c)
    /\ Goes(c, [call[c] EXCEPT !.pc = "released"])
    /\ UNCHANGED <<fileVars, up, cache, reload, used, serverVars>>

\* Mutant: the snapshot is valid for the file as it is after the release.
Done_TagsLate(c) ==
    /\ call[c].pc = "released"
    /\ cache' = IF call[c].failed THEN cache
                ELSE [cache EXCEPT ![c[1]] = [data |-> call[c].seen, rev |-> rev]]
    /\ Goes(c, NoCall)
    /\ UNCHANGED <<fileVars, lock, up, reload, used, serverVars>>

\* updateReadState, after the release: what was written has no revision yet.
Done(c) ==
    /\ call[c].pc = "released"
    /\ cache' = IF call[c].failed THEN cache
                ELSE [cache EXCEPT ![c[1]] = [data |-> call[c].seen, rev |-> call[c].tag]]
    /\ Goes(c, NoCall)
    /\ UNCHANGED <<fileVars, lock, up, reload, used, serverVars>>

(***************************************************************************)
(* The environment                                                         *)
(***************************************************************************)
Expire(q) ==
    /\ file # None /\ file[q] # 0 /\ file[q] \notin expired
    /\ Uses("expiries")
    /\ expired' = expired \union {file[q]}
    /\ UNCHANGED <<fileVars, lock, up, cache, reload, call, tokens, spent, reused>>

\* A process dies.  What it got for a spent token is lost with it.
Dies(p) ==
    /\ up' = [up EXCEPT ![p] = "down"]
    /\ cache' = [cache EXCEPT ![p] = NoCache]
    /\ reload' = [reload EXCEPT ![p] = NoReload]
    /\ call' = [c \in CallIds |-> IF c[1] = p THEN NoCall ELSE call[c]]
    /\ spent' = spent \ {call[c].seen[call[c].prov] :
                            c \in {d \in CallIds : d[1] = p /\ call[d].pc \in {"writing", "truncated"}}}
    /\ lock' = IF lock # None /\ lock[1] = p THEN Dead ELSE lock
    /\ UNCHANGED <<fileVars, tokens, expired, reused>>

InWrite(p) == \E c \in CallIds : c[1] = p /\ call[c].pc = "truncated"

Crash(p) == up[p] # "down" /\ ~InWrite(p) /\ Uses("crashes") /\ Dies(p)

\* It dies between the truncation and the write: the file stays empty.
Tear(p) == InWrite(p) /\ Uses("torn") /\ Dies(p)

\* The lock file of a dead owner becomes stale.  The retries of whoever waits
\* take longer than that.
Stale ==
    /\ lock = Dead
    /\ lock' = None
    /\ UNCHANGED <<fileVars, up, cache, reload, call, used, serverVars>>

\* So does that of a process that is suspended for long enough; its timer finds
\* out at some time after it goes on.
Stall ==
    /\ lock \notin {None, Dead}
    /\ Uses("stalls")
    /\ lock' = None
    /\ UNCHANGED <<fileVars, up, cache, reload, call, serverVars>>

Compromised(c) ==
    /\ call[c].pc \in {"refreshing", "writing"} /\ lock # c /\ ~call[c].compromised
    /\ Goes(c, [call[c] EXCEPT !.compromised = TRUE])
    /\ UNCHANGED <<fileVars, lock, up, cache, reload, used, serverVars>>

(***************************************************************************)
(* Specification                                                           *)
(***************************************************************************)
Init ==
    /\ scenario \in Scenarios
    /\ file = (IF scenario.absent THEN None ELSE LoggedIn)
    /\ rev = 1 /\ lock = None
    /\ up = [p \in Processes |-> IF scenario.absent THEN "down" ELSE "up"]
    /\ cache = [p \in Processes |-> IF scenario.absent THEN NoCache ELSE [data |-> LoggedIn, rev |-> 1]]
    /\ reload = [p \in Processes |-> NoReload]
    /\ call = [c \in CallIds |-> NoCall]
    /\ used = [b \in {"calls", "sessions", "expiries", "failures", "crashes", "torn", "stalls", "slow"} |-> 0]
    /\ tokens = 1 /\ expired = {} /\ spent = {} /\ reused = FALSE
    /\ written = (IF scenario.absent THEN Empty ELSE LoggedIn)

CallStep(c) == \/ Read(c) \/ Lock(c) \/ Leave(c) \/ LockFails(c) \/ Refresh(c) \/ RefreshFails(c)
               \/ Truncate(c) \/ Write(c) \/ Release(c) \/ Done(c)
ReloadStep(p) == \/ ReloadLocks(p) \/ LoadTakesOver(p) \/ ReloadTags(p) \/ ReloadReleases(p)
                 \/ ReloadDone(p) \/ ReloadFails(p)
StartStep(p) == Start(p) \/ Create(p) \/ Construct(p)
Environment == \/ \E q \in Providers : Expire(q)
               \/ \E p \in Processes : Crash(p) \/ Tear(p)
               \/ \E c \in CallIds : Compromised(c)
               \/ Stall

\* The system really may stop: nothing happens until the user acts.
Next ==
    /\ \/ \E c \in CallIds : CallStep(c) \/ (\E kind \in Kinds, q \in Providers : Call(c, kind, q))
       \/ \E p \in Processes : ReloadStep(p) \/ StartStep(p)
       \/ Stale \/ Environment
    /\ UNCHANGED scenario

\* A running process goes on with its calls, and a dead owner's lock becomes
\* stale; no call needs to be made, and no process started again.
Fairness ==
    /\ \A c \in CallIds : WF_vars(CallStep(c) /\ UNCHANGED scenario)
    /\ \A p \in Processes : WF_vars(ReloadStep(p) /\ UNCHANGED scenario)
    /\ WF_vars(Stale /\ UNCHANGED scenario)

Spec == Init /\ [][Next]_vars /\ Fairness

(***************************************************************************)
(* Properties                                                              *)
(***************************************************************************)
Data == [Providers -> 0..tokens]

\* Every variable has its type; what is cached, read or written holds tokens that
\* a server has issued; the lock is held by a call, a reload or a dead process.
TypeOK ==
    /\ scenario \in Scenarios /\ \A b \in DOMAIN used : used[b] <= scenario[b]
    /\ file \in Data \union {None} /\ written \in Data /\ rev \in Nat
    /\ lock \in (Processes \X (Slots \union {0})) \union {Dead, None}
    /\ up \in [Processes -> {"down", "creating", "loading", "up"}]
    /\ \A p \in Processes :
          /\ cache[p].data \in Data \union {None} /\ cache[p].rev \in Nat
          /\ reload[p].pc \in {"none", "locking", "tagging", "holding", "released"}
    /\ \A c \in CallIds :
          /\ call[c].pc \in {"none", "read", "reading", "locking", "leaving", "refreshing",
                            "writing", "truncated", "releasing", "released"}
          /\ call[c].pc # "none" => call[c].kind \in Kinds /\ call[c].prov \in Providers
          /\ call[c].token \in 0..tokens
    /\ expired \subseteq 1..tokens /\ spent \subseteq 1..tokens /\ reused \in BOOLEAN

\* What the lock and the file are relied upon for.  No owner of the lock was
\* suspended for so long, or waited for the server for so long, that another
\* process took the lock over while it went on; no process died between the
\* truncation and the write; and of processes that create auth.json, there is one.
Undisturbed ==
    /\ used["stalls"] = 0 /\ used["slow"] = 0 /\ used["torn"] = 0
    /\ scenario.absent => \A p, q \in Processes : p = q

\* "re-check expiry under the lock, refresh once globally": whatever calls of
\* whatever process find the same token about to expire, it is sent to the server
\* once (again only if what it was exchanged for was lost in a crash), and the
\* token that replaced it is not exchanged by those that waited.
SentOnce == ~reused /\ spent \subseteq expired
RefreshedOnce == Undisturbed => SentOnce

\* No write undoes another: whenever it is not being written, auth.json holds, for
\* each provider, what was last written for that provider.
UpdatesKept == file = None \/ file = written \/ \E c \in CallIds : call[c].pc = "truncated"
NoUpdateLost == Undisturbed => UpdatesKept

\* The snapshot a process answers from without the lock is the file it is
\* valid for, although it is read and tagged in two steps, and whatever was
\* written while its last call released the lock.
TagsRight ==
    \A p \in Processes : cache[p].rev <= rev /\ (cache[p].rev = rev => cache[p].data = file)
SnapshotIsFile == Undisturbed => TagsRight

\* Every call returns, also when the owner of the lock has died.
CallsFinish == \A c \in CallIds : call[c].pc # "none" ~> call[c].pc = "none"
=============================================================================
