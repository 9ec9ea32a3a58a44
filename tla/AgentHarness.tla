---------------------------- MODULE AgentHarness ----------------------------
(***************************************************************************)
(* AgentHarness (packages/agent/src/harness/agent-harness.ts): phases,     *)
(* queues, pending session writes and hooks around the agent loop, over a  *)
(* session whose appends are asynchronous.                                 *)
(*                                                                         *)
(* A step is the code between two awaits that something outside may delay: *)
(* a listener, a hook, the provider, an append to the file.  Each of them  *)
(* settles or throws.  The application, and any listener, may call every   *)
(* method of the harness at any of these steps.  The loop that module      *)
(* Agent models event by event is reduced to the messages it emits, the    *)
(* polls of the queues and the ends of turns.                              *)
(***************************************************************************)
EXTENDS HarnessSession, FiniteSets, SequencesExt

CONSTANTS
    Runs,        \* calls of prompt(), skill() and promptFromTemplate(), numbered from 1
    Writers,     \* calls that append to the session of an idle harness
    Scenarios,   \* what may happen in a behaviour, as a set of records:
                 \*   ways    what the application calls: "steer", "followUp", "nextTurn",
                 \*           "write", "compact", "navigate", "abort"
                 \*   modes   the queue modes: "all", "one-at-a-time"
                 \*   runs    bound: runs at a time; a run may be followed by others
                 \*   calls   bound: those calls, and prompts
                 \*   turns   bound: replies with a tool call
                 \*   throws  bound: listeners, hooks and appends that throw
                 \*   awaits  whether the application awaits an operation, and its own
                 \*           appends, before it starts the next operation
    None

Ways == {"steer", "followUp", "nextTurn", "write", "compact", "navigate", "abort"}

ASSUME HarnessAssumption ==
    /\ Runs \subseteq Nat
    /\ Scenarios \subseteq [ways : SUBSET Ways, modes : SUBSET {"all", "one-at-a-time"}, runs : Nat,
                            calls : Nat, turns : Nat, throws : Nat, awaits : BOOLEAN]

VARIABLES
    scenario,
    \* --- the harness
    phase,
    runPromise,         \* the run whose end waitForIdle() awaits
    runAbortController, \* the run that abort() signals
    pendingSessionWrites,
    steerQueue, followUpQueue, nextTurnQueue, mode,
    \* --- the session
    tree, leaf,
    \* --- the calls under way
    run,                \* of prompt(), by call
    op,                 \* of compact() or navigateTree()
    writer,             \* of appendMessage(), setModel(), ..., while idle
    aborted,            \* the runs whose signal is aborted
    \* --- bounds and history
    nextId, calls, turns, throws,
    sent,               \* the items accepted from the application
    discarded,          \* those that abort() gave back, and those that are lost
    lost                \* those that a run had taken when it threw: nobody gets them back

sessionVars == <<tree, leaf>>
queueVars == <<steerQueue, followUpQueue, nextTurnQueue, mode>>
harnessVars == <<phase, runPromise, runAbortController, pendingSessionWrites>>
auxVars == <<nextId, calls, turns, sent, discarded, lost>>
vars == <<scenario, harnessVars, queueVars, sessionVars, run, op, writer, aborted, auxVars, throws>>

(***************************************************************************)
(* Items: messages, writes and entries of the session                      *)
(***************************************************************************)
FromUser == {"prompt", "nextTurn", "steer", "followUp"}
Item(id, via) == [id |-> id, via |-> via]
NoItem == Item(0, "none")
NoPut == [item |-> NoItem, parent |-> 0, to |-> 0]
IsUser(item) == item.via \in FromUser

\* The state of a call: where it is, what it still emits, and then goes on to;
\* the append it is in; the context of its next request.
NoRun == [pc |-> "none", out |-> <<>>, next |-> "none", ret |-> "none", put |-> NoPut,
          ctx |-> <<>>, reply |-> "none", queue |-> "none",
          failing |-> FALSE, threw |-> FALSE, ended |-> FALSE]
NoOp == [pc |-> "none", kind |-> "none", put |-> NoPut, to |-> 0]

Throw == throws < scenario.throws /\ throws' = throws + 1

\* The application makes a call.
Calls(way) ==
    /\ way \in scenario.ways
    /\ calls < scenario.calls /\ calls' = calls + 1

\* An append begins: the parent of the entry is the leaf of this moment.
Put(item) == Entry(item, leaf)

\* The append of a put ends: the entry is in the file, and is the leaf.
Appended(put) ==
    /\ tree' = Append(tree, put)
    /\ leaf' = LeafAfter(tree')

(***************************************************************************)
(* The end of an await of run r: rec is what the run has become            *)
(***************************************************************************)
Becomes(r, rec) == run' = [run EXCEPT ![r] = rec]

\* Mutant: the context is that of the session before the append that has ended.
FlushThen_OldContext(r, rec, ret, pending, E, to) ==
    /\ Becomes(r, IF pending = <<>>
                  THEN [rec EXCEPT !.pc = ret, !.put = NoPut,
                                   !.ended = @ \/ ret = "ended",
                                   !.ctx = IF ret = "prepare" THEN Branch(tree, leaf) ELSE @]
                  ELSE [rec EXCEPT !.pc = "flushing", !.ret = ret, !.put = Entry(pending[1], to)])
    /\ phase' = IF pending = <<>> /\ ret = "ended" THEN "idle" ELSE phase

\* Mutant: the harness is idle before the pending writes are flushed.
FlushThen_IdleFirst(r, rec, ret, pending, E, to) ==
    /\ Becomes(r, IF pending = <<>>
                  THEN [rec EXCEPT !.pc = ret, !.put = NoPut,
                                   !.ended = @ \/ ret = "ended",
                                   !.ctx = IF ret = "prepare" THEN Branch(E, to) ELSE @]
                  ELSE [rec EXCEPT !.pc = "flushing", !.ret = ret, !.put = Entry(pending[1], to)])
    /\ phase' = IF ret = "ended" THEN "idle" ELSE phase

\* flushPendingSessionWrites, up to its next append or its return: pending and
\* the session are those of this moment.
FlushThen(r, rec, ret, pending, E, to) ==
    /\ Becomes(r, IF pending = <<>>
                  THEN [rec EXCEPT !.pc = ret, !.put = NoPut,
                                   !.ended = @ \/ ret = "ended",
                                   !.ctx = IF ret = "prepare" THEN Branch(E, to) ELSE @]
                  ELSE [rec EXCEPT !.pc = "flushing", !.ret = ret, !.put = Entry(pending[1], to)])
    /\ phase' = IF pending = <<>> /\ ret = "ended" THEN "idle" ELSE phase

\* What an error of the loop leads to: the failure is reported with a message
\* of its own; if the report fails too, the run is over.
Fails(r, rec) ==
    /\ LET taken == {item \in Range(rec.out) : IsUser(item)}
       IN discarded' = discarded \union taken /\ lost' = lost \union taken
    /\ IF rec.failing
       THEN /\ FlushThen(r, [rec EXCEPT !.out = <<>>, !.queue = "none", !.threw = TRUE], "release",
                         pendingSessionWrites, tree, leaf)
            /\ UNCHANGED nextId
       ELSE /\ Becomes(r, [rec EXCEPT !.pc = "emit", !.failing = TRUE, !.put = NoPut,
                                      !.out = <<Item(nextId, "failure")>>, !.queue = "none",
                                      !.next = "turnEnd", !.reply = "failed"])
            /\ nextId' = nextId + 1
            /\ UNCHANGED phase

\* An error outside of the loop, in prompt() itself.
Rejects(r) ==
    /\ phase' = "idle"
    /\ runPromise' = None
    /\ Becomes(r, NoRun)

(***************************************************************************)
(* prompt(), skill() and promptFromTemplate() before the loop              *)
(***************************************************************************)
Prompt(r) ==
    /\ run[r].pc = "none" /\ phase = "idle"
    /\ r <= scenario.runs
    /\ scenario.awaits => /\ \A w \in Writers : writer[w] = NoPut
                          /\ \A q \in Runs : run[q].pc = "none"
    /\ calls < scenario.calls /\ calls' = calls + 1
    /\ phase' = "turn" /\ runPromise' = r
    /\ nextId' = nextId + 1
    /\ sent' = sent \union {Item(nextId, "prompt")}
    /\ Becomes(r, [NoRun EXCEPT !.pc = "snapshot", !.ctx = Branch(tree, leaf),
                                !.out = <<Item(nextId, "prompt")>>])
    /\ UNCHANGED <<runAbortController, pendingSessionWrites, queueVars, sessionVars, op, writer,
                   aborted, turns, discarded, lost, throws>>

\* The turn state is there: executeTurn takes the messages for the next turn.
Snapshot(r) ==
    /\ run[r].pc = "snapshot"
    /\ Becomes(r, [run[r] EXCEPT !.pc = IF nextTurnQueue = <<>> THEN "before" ELSE "taken",
                                 !.out = nextTurnQueue \o @])
    /\ nextTurnQueue' = <<>>
    /\ UNCHANGED <<harnessVars, steerQueue, followUpQueue, mode, sessionVars, op, writer,
                   aborted, auxVars, throws>>

\* The system prompt throws, or there is no such skill or template.
SnapshotThrows(r) ==
    /\ run[r].pc = "snapshot"
    /\ Throw
    /\ Rejects(r)
    /\ sent' = sent \ Range(run[r].out)
    /\ UNCHANGED <<runAbortController, pendingSessionWrites, queueVars, sessionVars, op, writer,
                   aborted, nextId, calls, turns, discarded, lost>>

\* The listeners of queue_update, after the queue was taken.
Taken(r) ==
    /\ run[r].pc = "taken"
    /\ Becomes(r, [run[r] EXCEPT !.pc = "before"])
    /\ UNCHANGED <<harnessVars, queueVars, sessionVars, op, writer, aborted, auxVars, throws>>

\* Mutant: what was taken is not put back.
TakenThrows_Forgets(r) ==
    /\ run[r].pc = "taken"
    /\ Throw
    /\ sent' = sent \ {run[r].out[Len(run[r].out)]}
    /\ Rejects(r)
    /\ UNCHANGED <<runAbortController, pendingSessionWrites, queueVars,
                   sessionVars, op, writer, aborted, nextId, calls, turns, discarded, lost>>

TakenThrows(r) ==
    /\ run[r].pc = "taken"
    /\ Throw
    /\ nextTurnQueue' = Front(run[r].out) \o nextTurnQueue
    /\ sent' = sent \ {Last(run[r].out)}
    /\ Rejects(r)
    /\ UNCHANGED <<runAbortController, pendingSessionWrites, steerQueue, followUpQueue, mode,
                   sessionVars, op, writer, aborted, nextId, calls, turns, discarded, lost>>

\* before_agent_start is answered: the loop begins with its prompts.
Before(r) ==
    /\ run[r].pc = "before"
    /\ runAbortController' = r
    /\ aborted' = aborted \ {r}
    /\ Becomes(r, [run[r] EXCEPT !.pc = "emit", !.next = "poll", !.ctx = @ \o run[r].out])
    /\ UNCHANGED <<phase, runPromise, pendingSessionWrites, queueVars, sessionVars, op, writer,
                   auxVars, throws>>

\* before_agent_start throws: what was taken for this turn is gone.
BeforeThrows(r) ==
    /\ run[r].pc = "before"
    /\ Throw
    /\ discarded' = discarded \union Range(Front(run[r].out))
    /\ lost' = lost \union Range(Front(run[r].out))
    /\ sent' = sent \ {Last(run[r].out)}
    /\ Rejects(r)
    /\ UNCHANGED <<runAbortController, pendingSessionWrites, queueVars, sessionVars, op, writer,
                   aborted, nextId, calls, turns>>

(***************************************************************************)
(* The loop: messages, polls, requests and the ends of turns               *)
(***************************************************************************)
\* The listeners of message_start are done: the append begins, and stays in
\* "out" until the listeners of message_end are done too.
MessageStart(r) ==
    /\ run[r].pc = "emit"
    /\ Becomes(r, [run[r] EXCEPT !.pc = "appending", !.put = Put(Head(run[r].out))])
    /\ UNCHANGED <<harnessVars, queueVars, sessionVars, op, writer, aborted, auxVars, throws>>

MessageAppended(r) ==
    /\ run[r].pc = "appending"
    /\ Appended(run[r].put)
    /\ Becomes(r, [run[r] EXCEPT !.pc = "told", !.put = NoPut, !.out = Tail(@),
                                 !.ctx = IF run[r].next = "poll" THEN @
                                         ELSE Append(@, Head(run[r].out))])
    /\ UNCHANGED <<harnessVars, queueVars, op, writer, aborted, auxVars, throws>>

MessageTold(r) ==
    /\ run[r].pc = "told"
    /\ Becomes(r, [run[r] EXCEPT !.pc = IF run[r].out # <<>> THEN "emit" ELSE run[r].next])
    /\ UNCHANGED <<harnessVars, queueVars, sessionVars, op, writer, aborted, auxVars, throws>>

\* The queue that is polled: steering after a turn and at the start; follow-ups
\* when nothing was steered and the last reply called no tool.
Polled(r) == IF run[r].pc = "pollFollowUp" THEN followUpQueue ELSE steerQueue
Taking(queue, kind) == IF mode[kind] = "all" THEN queue ELSE SubSeq(queue, 1, 1)

\* drainQueuedMessages takes messages; the listeners of queue_update are told.
Drain(r) ==
    /\ run[r].pc \in {"poll", "pollFollowUp"} /\ Polled(r) # <<>>
    /\ LET kind == IF run[r].pc = "poll" THEN "steer" ELSE "followUp"
           taken == Taking(Polled(r), kind)
           left == SubSeq(Polled(r), Len(taken) + 1, Len(Polled(r)))
       IN /\ Becomes(r, [run[r] EXCEPT !.pc = "drained", !.out = taken, !.queue = kind])
          /\ IF kind = "steer" THEN steerQueue' = left /\ UNCHANGED followUpQueue
             ELSE followUpQueue' = left /\ UNCHANGED steerQueue
    /\ UNCHANGED <<harnessVars, nextTurnQueue, mode, sessionVars, op, writer, aborted, auxVars,
                   throws>>

Drained(r) ==
    /\ run[r].pc = "drained"
    /\ Becomes(r, [run[r] EXCEPT !.pc = "emit", !.next = "request", !.queue = "none"])
    /\ UNCHANGED <<harnessVars, queueVars, sessionVars, op, writer, aborted, auxVars, throws>>

\* A listener of queue_update throws: the messages go back to the array they
\* came from, which is not the queue any more once abort() has replaced it.
DrainThrows(r) ==
    /\ run[r].pc = "drained"
    /\ Throw
    /\ LET back(kind) == IF run[r].queue = kind THEN run[r].out ELSE <<>>
       IN /\ steerQueue' = back("steer") \o steerQueue
          /\ followUpQueue' = back("followUp") \o followUpQueue
    /\ Fails(r, [run[r] EXCEPT !.out = IF run[r].queue = "orphan" THEN @ ELSE <<>>])
    /\ UNCHANGED <<runPromise, runAbortController, pendingSessionWrites, nextTurnQueue, mode,
                   sessionVars, op, writer, aborted, calls, turns, sent>>

\* Mutant: the run goes on polling when there are no follow-ups.
NothingPolled_NoBreak(r) ==
    /\ run[r].pc \in {"poll", "pollFollowUp"} /\ Polled(r) = <<>>
    /\ Becomes(r, [run[r] EXCEPT !.pc = IF run[r].pc = "pollFollowUp" THEN "poll"
                                        ELSE IF run[r].reply = "stop" THEN "pollFollowUp"
                                        ELSE "request"])
    /\ UNCHANGED <<harnessVars, queueVars, sessionVars, op, writer, aborted, auxVars, throws>>

\* Nothing is queued: the next request, or the follow-ups, or the end.
NothingPolled(r) ==
    /\ run[r].pc \in {"poll", "pollFollowUp"} /\ Polled(r) = <<>>
    /\ CASE run[r].pc = "pollFollowUp" ->
               FlushThen(r, run[r], "ended", pendingSessionWrites, tree, leaf)
         [] run[r].pc = "poll" /\ run[r].reply = "stop" ->
               Becomes(r, [run[r] EXCEPT !.pc = "pollFollowUp"]) /\ UNCHANGED phase
         [] OTHER -> Becomes(r, [run[r] EXCEPT !.pc = "request"]) /\ UNCHANGED phase
    /\ UNCHANGED <<runPromise, runAbortController, pendingSessionWrites, queueVars, sessionVars,
                   op, writer, aborted, auxVars, throws>>

\* The provider answers; a tool call is answered by its result at once.
Reply(r, kind) ==
    /\ run[r].pc = "request"
    /\ kind = "aborted" => r \in aborted
    /\ kind = "tool" => turns < scenario.turns
    /\ turns' = IF kind = "tool" THEN turns + 1 ELSE turns
    /\ LET told == IF kind = "tool" THEN <<Item(nextId, "assistant"), Item(nextId + 1, "result")>>
                   ELSE <<Item(nextId, "assistant")>>
       IN /\ Becomes(r, [run[r] EXCEPT !.pc = "emit", !.out = told, !.next = "turnEnd",
                                       !.reply = kind])
          /\ nextId' = nextId + Len(told)
    /\ UNCHANGED <<harnessVars, queueVars, sessionVars, op, writer, aborted, calls, sent,
                   discarded, lost, throws>>

\* The listeners of turn_end are done, or have thrown: pending writes are
\* flushed first, in either case.
TurnEnd(r, ret) ==
    /\ run[r].pc = "turnEnd"
    /\ FlushThen(r, run[r], ret, pendingSessionWrites, tree, leaf)
    /\ UNCHANGED <<runPromise, runAbortController, pendingSessionWrites, queueVars, sessionVars,
                   op, writer, aborted, auxVars>>

\* The listeners of save_point are done: the end after a failed reply,
\* otherwise prepareNextTurn flushes and takes a new snapshot.
SavePoint(r) ==
    /\ run[r].pc = "savePoint"
    /\ FlushThen(r, run[r], IF run[r].reply \in {"failed", "aborted"} THEN "ended" ELSE "prepare",
                 pendingSessionWrites, tree, leaf)
    /\ UNCHANGED <<runPromise, runAbortController, pendingSessionWrites, queueVars, sessionVars,
                   op, writer, aborted, auxVars, throws>>

Prepared(r) ==
    /\ run[r].pc = "prepare"
    /\ Becomes(r, [run[r] EXCEPT !.pc = "poll"])
    /\ UNCHANGED <<harnessVars, queueVars, sessionVars, op, writer, aborted, auxVars, throws>>

\* An append of flushPendingSessionWrites ends; what is first by now is shifted.
Flushed(r) ==
    /\ run[r].pc = "flushing"
    /\ Appended(run[r].put)
    /\ pendingSessionWrites' = SubSeq(pendingSessionWrites, 2, Len(pendingSessionWrites))
    /\ FlushThen(r, run[r], run[r].ret, pendingSessionWrites', tree', leaf')
    /\ UNCHANGED <<runPromise, runAbortController, queueVars, op, writer, aborted, auxVars, throws>>

\* Something throws inside of the loop: a listener, a hook, an append.
LoopThrows(r) ==
    /\ \/ run[r].pc \in {"emit", "appending", "told", "request", "savePoint", "prepare", "ended"}
       \/ run[r].pc = "flushing" /\ run[r].ret # "release"
    /\ Throw
    /\ Fails(r, run[r])
    /\ UNCHANGED <<runPromise, runAbortController, pendingSessionWrites, queueVars, sessionVars,
                   op, writer, aborted, calls, turns, sent>>

\* What a listener of turn_end threw is thrown again after the flush.
TurnThrew(r) ==
    /\ run[r].pc = "turnThrew"
    /\ Fails(r, run[r])
    /\ UNCHANGED <<runPromise, runAbortController, pendingSessionWrites, queueVars, sessionVars,
                   op, writer, aborted, calls, turns, sent, throws>>

(***************************************************************************)
(* The end of a run                                                        *)
(***************************************************************************)
\* The listeners of agent_end and settled are done.
Settled(r) ==
    /\ run[r].pc = "ended"
    /\ FlushThen(r, run[r], "release", pendingSessionWrites, tree, leaf)
    /\ UNCHANGED <<runPromise, runAbortController, pendingSessionWrites, queueVars, sessionVars,
                   op, writer, aborted, auxVars, throws>>

\* The last flush fails: prompt() throws, and what is pending stays so.
LastFlushFails(r) ==
    /\ run[r].pc = "flushing" /\ run[r].ret = "release"
    /\ Throw
    /\ Becomes(r, [run[r] EXCEPT !.pc = "release", !.put = NoPut, !.threw = TRUE])
    /\ UNCHANGED <<harnessVars, queueVars, sessionVars, op, writer, aborted, auxVars>>

\* The finally blocks of executeTurn and prompt.
Release(r) ==
    /\ run[r].pc = "release"
    /\ runAbortController' = None
    /\ runPromise' = None
    /\ phase' = IF run[r].threw THEN "idle" ELSE phase
    /\ Becomes(r, NoRun)
    /\ UNCHANGED <<pendingSessionWrites, queueVars, sessionVars, op, writer, aborted, auxVars,
                   throws>>

(***************************************************************************)
(* The other calls of the application                                      *)
(***************************************************************************)
Accepts(way, via) ==
    /\ Calls(way)
    /\ nextId' = nextId + 1
    /\ sent' = sent \union {Item(nextId, via)}

Steer ==
    /\ phase # "idle"
    /\ Accepts("steer", "steer")
    /\ steerQueue' = Append(steerQueue, Item(nextId, "steer"))
    /\ UNCHANGED <<harnessVars, followUpQueue, nextTurnQueue, mode, sessionVars, run, op, writer,
                   aborted, turns, discarded, lost, throws>>

FollowUp ==
    /\ phase # "idle"
    /\ Accepts("followUp", "followUp")
    /\ followUpQueue' = Append(followUpQueue, Item(nextId, "followUp"))
    /\ UNCHANGED <<harnessVars, steerQueue, nextTurnQueue, mode, sessionVars, run, op, writer,
                   aborted, turns, discarded, lost, throws>>

NextTurn ==
    /\ Accepts("nextTurn", "nextTurn")
    /\ nextTurnQueue' = Append(nextTurnQueue, Item(nextId, "nextTurn"))
    /\ UNCHANGED <<harnessVars, steerQueue, followUpQueue, mode, sessionVars, run, op, writer,
                   aborted, turns, discarded, lost, throws>>

\* appendMessage, setModel, setThinkingLevel, setTools, setActiveTools: pending
\* while an operation is active, an append of their own while the harness is idle.
WriteBusy ==
    /\ phase # "idle"
    /\ Accepts("write", "write")
    /\ pendingSessionWrites' = Append(pendingSessionWrites, Item(nextId, "write"))
    /\ UNCHANGED <<phase, runPromise, runAbortController, queueVars, sessionVars, run, op, writer,
                   aborted, turns, discarded, lost, throws>>

Quiet == /\ \A r \in Runs : run[r].pc = "none"
         /\ \A w \in Writers : writer[w] = NoPut

WriteIdle(w) ==
    /\ writer[w] = NoPut /\ phase = "idle"
    /\ scenario.awaits => Quiet
    /\ Accepts("write", "write")
    /\ writer' = [writer EXCEPT ![w] = Put(Item(nextId, "write"))]
    /\ UNCHANGED <<harnessVars, queueVars, sessionVars, run, op, aborted, turns, discarded, lost,
                   throws>>

Written(w) ==
    /\ writer[w] # NoPut
    /\ Appended(writer[w])
    /\ writer' = [writer EXCEPT ![w] = NoPut]
    /\ UNCHANGED <<harnessVars, queueVars, run, op, aborted, auxVars, throws>>

\* The append fails, and with it the call.
WriteFails(w) ==
    /\ writer[w] # NoPut
    /\ Throw
    /\ writer' = [writer EXCEPT ![w] = NoPut]
    /\ sent' = sent \ {writer[w].item}
    /\ UNCHANGED <<harnessVars, queueVars, sessionVars, run, op, aborted, nextId, calls, turns,
                   discarded, lost>>

\* abort() replaces both arrays, gives back what was in them, and signals the
\* run whose controller is current; it then awaits runPromise.
Abort ==
    /\ Calls("abort")
    /\ steerQueue' = <<>> /\ followUpQueue' = <<>>
    /\ discarded' = discarded \union Range(steerQueue) \union Range(followUpQueue)
    /\ aborted' = IF runAbortController = None THEN aborted ELSE aborted \union {runAbortController}
    /\ run' = [r \in Runs |-> IF run[r].pc = "drained" THEN [run[r] EXCEPT !.queue = "orphan"]
                              ELSE run[r]]
    /\ UNCHANGED <<harnessVars, nextTurnQueue, mode, sessionVars, op, writer, nextId, turns, sent,
                   lost, throws>>

(***************************************************************************)
(* compact() and navigateTree()                                            *)
(***************************************************************************)
Starts(way, rec) ==
    /\ phase = "idle" /\ op = NoOp
    /\ scenario.awaits => Quiet
    /\ Calls(way)
    /\ op' = rec
    /\ UNCHANGED <<runPromise, runAbortController, pendingSessionWrites, queueVars, sessionVars,
                   run, writer, aborted, nextId, turns, sent, discarded, lost, throws>>

Compact ==
    /\ leaf # 0
    /\ phase' = "compaction"
    /\ Starts("compact", [NoOp EXCEPT !.pc = "hook", !.kind = "compact"])

\* The entry of a user message is gone back to with its text in the editor: the
\* leaf becomes its parent.
Navigate(target) ==
    /\ target # leaf /\ tree[target].item.via # "leaf"
    /\ phase' = "branch_summary"
    /\ Starts("navigate",
              [NoOp EXCEPT !.pc = "hook", !.kind = "navigate",
                           !.to = IF IsUser(tree[target].item) THEN tree[target].parent ELSE target])

\* The hooks and the summary are done: the (first) append begins.
OpAppends ==
    /\ op.pc = "hook"
    /\ nextId' = nextId + 1
    /\ op' = [op EXCEPT !.pc = "appending",
                        !.put = IF op.kind = "compact" THEN Put(Item(nextId, "compaction"))
                                ELSE LeafEntry(Item(nextId, "leaf"), leaf, op.to)]
    /\ UNCHANGED <<harnessVars, queueVars, sessionVars, run, writer, aborted, calls, turns, sent,
                   discarded, lost, throws>>

\* moveTo goes on to append the summary, under the entry that was moved to.
OpAppended(summarizes) ==
    /\ op.pc = "appending"
    /\ summarizes => op.put.item.via = "leaf"
    /\ Appended(op.put)
    /\ IF summarizes
       THEN /\ op' = [op EXCEPT !.put = Entry(Item(nextId, "summary"), op.to)]
            /\ nextId' = nextId + 1
       ELSE op' = [op EXCEPT !.pc = "told", !.put = NoPut] /\ UNCHANGED nextId
    /\ UNCHANGED <<harnessVars, queueVars, run, writer, aborted, calls, turns, sent, discarded,
                   lost, throws>>

\* A hook cancels, there is nothing to compact, something throws, or it is done.
OpEnds ==
    /\ op.pc \in {"hook", "appending", "told"}
    /\ IF op.pc = "appending" THEN Throw ELSE UNCHANGED throws
    /\ op' = NoOp
    /\ phase' = "idle"
    /\ UNCHANGED <<runPromise, runAbortController, pendingSessionWrites, queueVars, sessionVars,
                   run, writer, aborted, auxVars>>

(***************************************************************************)
(* Specification                                                           *)
(***************************************************************************)
Init ==
    /\ scenario \in Scenarios
    /\ phase = "idle" /\ runPromise = None /\ runAbortController = None
    /\ pendingSessionWrites = <<>>
    /\ steerQueue = <<>> /\ followUpQueue = <<>> /\ nextTurnQueue = <<>>
    /\ mode \in [{"steer", "followUp"} -> scenario.modes]
    /\ tree = <<>> /\ leaf = 0
    /\ run = [r \in Runs |-> NoRun] /\ op = NoOp /\ writer = [w \in Writers |-> NoPut]
    /\ aborted = {}
    /\ nextId = 1 /\ calls = 0 /\ turns = 0 /\ throws = 0
    /\ sent = {} /\ discarded = {} /\ lost = {}

ReplyKinds == {"stop", "tool", "failed", "aborted"}
TurnEndThrows(r) == Throw /\ TurnEnd(r, "turnThrew")
TurnEndTold(r) == TurnEnd(r, "savePoint") /\ UNCHANGED throws

RunStep(r) ==
    \/ Snapshot(r) \/ SnapshotThrows(r) \/ Taken(r) \/ TakenThrows(r)
    \/ Before(r) \/ BeforeThrows(r)
    \/ MessageStart(r) \/ MessageAppended(r) \/ MessageTold(r)
    \/ Drain(r) \/ Drained(r) \/ DrainThrows(r) \/ NothingPolled(r)
    \/ (\E kind \in ReplyKinds : Reply(r, kind))
    \/ TurnEndTold(r) \/ TurnEndThrows(r) \/ SavePoint(r) \/ Prepared(r)
    \/ Flushed(r) \/ LoopThrows(r) \/ TurnThrew(r)
    \/ Settled(r) \/ LastFlushFails(r) \/ Release(r)

OpStep == OpAppends \/ (\E summarizes \in BOOLEAN : OpAppended(summarizes)) \/ OpEnds
WriterStep(w) == Written(w) \/ WriteFails(w)

Application ==
    \/ \E r \in Runs : Prompt(r)
    \/ Steer \/ FollowUp \/ NextTurn \/ WriteBusy \/ (\E w \in Writers : WriteIdle(w))
    \/ Abort \/ Compact \/ (\E target \in DOMAIN tree : Navigate(target))

\* The system really may stop: nothing happens until the application calls.
Next ==
    /\ \/ Application
       \/ \E r \in Runs : RunStep(r)
       \/ OpStep
       \/ \E w \in Writers : WriterStep(w)
    /\ UNCHANGED scenario

\* The event loop runs every call on; the application owes nothing.
Fairness ==
    /\ \A r \in Runs : WF_vars(RunStep(r) /\ UNCHANGED scenario)
    /\ WF_vars(OpStep /\ UNCHANGED scenario)
    /\ \A w \in Writers : WF_vars(WriterStep(w) /\ UNCHANGED scenario)

Spec == Init /\ [][Next]_vars /\ Fairness

(***************************************************************************)
(* Properties                                                              *)
(***************************************************************************)
Pcs == {"none", "snapshot", "taken", "before", "emit", "appending", "told", "poll", "pollFollowUp",
        "drained", "request", "turnEnd", "turnThrew", "savePoint", "prepare", "flushing", "ended",
        "release"}

\* Every variable has its type; a run that is told to go on somewhere goes on
\* to a place of the loop; the leaf is an entry of the session, or the root.
TypeOK ==
    /\ phase \in {"idle", "turn", "compaction", "branch_summary"}
    /\ runPromise \in Runs \union {None} /\ runAbortController \in Runs \union {None}
    /\ aborted \subseteq Runs
    /\ leaf \in 0..Len(tree)
    /\ \A i \in DOMAIN tree : tree[i].parent \in 0..(i - 1) /\ tree[i].to \in 0..(i - 1)
    /\ \A r \in Runs : /\ run[r].pc \in Pcs /\ run[r].next \in Pcs /\ run[r].ret \in Pcs
                       /\ run[r].put = NoPut <=> run[r].pc \notin {"appending", "flushing"}
                       /\ run[r].pc \in {"emit", "appending", "taken", "before"} => run[r].out # <<>>
    /\ lost \subseteq discarded /\ discarded \subseteq sent

\* The places where an item is: in a queue, the pending writes, the messages of a
\* run, an append of its own, the session.
Places(item) ==
    LET At(place, of, list) == {<<place, of, i>> : i \in {j \in DOMAIN list : list[j] = item}}
    IN At("steer", 0, steerQueue) \union At("followUp", 0, followUpQueue)
           \union At("nextTurn", 0, nextTurnQueue) \union At("pending", 0, pendingSessionWrites)
           \union At("session", 0, [i \in DOMAIN tree |-> tree[i].item])
           \union (UNION {At("run", r, run[r].out) : r \in Runs})
           \union (UNION {At("writer", w, <<writer[w].item>>) : w \in Writers})

\* An accepted message or write is in exactly one place (a queue, the pending
\* writes, the run that delivers it, the session), and in none once abort() has
\* given it back, or once the run that had taken it threw.  The latter are lost,
\* which a throw only can do: what is still queued or pending outlives it, and a
\* listener that throws while a queue is drained has its messages put back.
InOnePlace ==
    /\ \A item \in sent : Cardinality(Places(item)) = IF item \in discarded THEN 0 ELSE 1
    /\ throws = 0 => lost = {}

\* What packages/agent/docs/agent-harness.md has the queues promise (:202, what is
\* queued with nextTurn() is inserted before the next prompt; :306, drains roll
\* back), the code keeps only while nothing throws.
NothingEverLost == lost = {}

\* The context of a request is the branch of the session that is open: the
\* snapshot, the injected messages and the flushed writes agree with what a
\* reopened session shows.
RequestIsBranch ==
    scenario.awaits => \A r \in Runs : run[r].pc = "request" => run[r].ctx = Branch(tree, leaf)

\* While the application awaits its operations the phase tells the truth: a run
\* that has not emitted agent_end keeps the harness busy, is the one that
\* waitForIdle() awaits and, once it has begun, the one abort() signals.
PhaseTruth ==
    scenario.awaits =>
        /\ \A r \in Runs :
              run[r].pc # "none" =>
                 /\ runPromise = r
                 /\ run[r].ended \/ phase = "turn"
                 /\ run[r].pc \in {"snapshot", "taken", "before"} \/ runAbortController = r
        /\ op # NoOp => phase \in {"compaction", "branch_summary"}
        /\ Quiet /\ op = NoOp => phase = "idle" /\ runPromise = None /\ runAbortController = None

\* Writes requested while an operation is active are not left behind when the
\* harness is idle again, unless something threw.
IdleNothingPending ==
    Quiet /\ op = NoOp /\ throws = 0 => pendingSessionWrites = <<>>

\* Every call of prompt() returns, and what awaits the run with it.
PromptReturns == \A r \in Runs : run[r].pc # "none" ~> run[r].pc = "none"
=============================================================================
