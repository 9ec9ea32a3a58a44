------------------------------- MODULE Agent -------------------------------
(***************************************************************************)
(* The stateful agent of packages/agent: the class Agent (agent.ts)        *)
(* running the low-level agent loop (agent-loop.ts).                       *)
(*                                                                         *)
(* A step is a segment of the JavaScript between two awaits.  Every event  *)
(* the loop emits is one step (processEvents reduces the event into the    *)
(* agent's state and awaits the listeners); a listener, a hook or a        *)
(* provider that throws sends the run to its catch block.  Between two     *)
(* steps the application may call any method of the agent, and the tools   *)
(* of a parallel batch settle in any order.                                *)
(*                                                                         *)
(* Data is abstracted: a user message is its number and the channel it     *)
(* came by, an assistant message its stop reason and the tool calls it     *)
(* asks for, a tool result the call it answers.                            *)
(***************************************************************************)
EXTENDS Integers, Sequences, FiniteSets

CONSTANTS
    QueueModes,     \* the queue modes the application may select
    BatchModes,     \* "sequential" and/or "parallel" tool execution
    MaxPerMessage,  \* bound: tool calls in one assistant message
    Budgets         \* bounds: what a behaviour may have at most, as a set of records:
                    \*   users     user messages the application sends
                    \*   calls     tool calls the model makes
                    \*   failures  listeners, hooks and providers that throw
                    \*   modes     queue modes that are combined with them

ASSUME AgentAssumption ==
    /\ QueueModes \subseteq {"all", "one-at-a-time"} /\ QueueModes # {}
    /\ BatchModes \subseteq {"sequential", "parallel"} /\ BatchModes # {}
    /\ MaxPerMessage \in Nat
    /\ Budgets \subseteq [users : Nat, calls : Nat, failures : Nat,
                             modes : SUBSET QueueModes]

Channels == {"prompt", "steer", "followUp"}
FailedStops == {"error", "aborted"}

UserMsg(id, via) == [role |-> "user", id |-> id, via |-> via]
AssistantMsg(stop, calls) == [role |-> "assistant", stop |-> stop, calls |-> calls]
ResultMsg(call) == [role |-> "toolResult", call |-> call]

\* The results of a list of calls, in the order of the calls.
Answers(calls) == [i \in 1..Len(calls) |-> ResultMsg(calls[i])]

UserMessages == [role : {"user"}, id : Nat, via : Channels]
AssistantMessages ==
    [role : {"assistant"}, stop : {"stop", "length"} \union FailedStops, calls : Seq(Nat)]
ResultMessages == [role : {"toolResult"}, call : Nat]
Message == UserMessages \union AssistantMessages \union ResultMessages

VARIABLES
    pc,               \* where the active run is; "idle" when activeRun is undefined
    \* --- AgentState
    messages,         \* the transcript
    isStreaming,
    streamingMessage, \* whether a message is between message_start and message_end
    pendingToolCalls,
    errorMessage,     \* whether the last turn left an error
    \* --- queues and the abort signal of the active run
    steeringQueue, followUpQueue, steeringMode, followUpMode,
    aborted,
    \* --- locals of the run
    ctx,              \* the loop's own copy of the transcript, sent to the provider
    newMessages,      \* what the run reports in agent_end
    outbox,           \* messages the current for-loop still has to emit
    skipPoll,         \* skipInitialSteeringPoll of createLoopConfig
    moreTools,        \* hasMoreToolCalls
    \* --- the tool batch
    batchMode,        \* "sequential", "parallel" or "truncated"; "none" outside a batch
    todo,             \* calls of the batch whose execution has not been announced
    started,          \* calls announced, in order
    prepared,         \* calls prepared for execution, not yet executed
    executing,        \* calls whose tool.execute has not settled
    ending,           \* calls whose tool_execution_end listeners have not settled
    terminating,      \* calls whose result asks to terminate
    \* --- bookkeeping of the environment and of what was given up
    nextUser, nextCall, failures,
    wasReset,         \* reset() was called during the active run
    dropped,          \* calls given up by an abort or by a failing run
    discarded         \* user messages cleared, reset, or lost with a failing run

stateVars == <<messages, isStreaming, streamingMessage, pendingToolCalls, errorMessage>>
queueVars == <<steeringQueue, followUpQueue, steeringMode, followUpMode>>
runVars == <<ctx, newMessages, outbox, skipPoll, moreTools>>
batchVars == <<batchMode, todo, started, prepared, executing, ending, terminating>>
auxVars == <<nextUser, nextCall, wasReset, dropped, discarded>>
vars == <<pc, stateVars, queueVars, aborted, runVars, batchVars, auxVars, failures>>

(***************************************************************************)
(* Helpers                                                                 *)
(***************************************************************************)
\* A behaviour stays within one of the budgets.
Within(b, users, calls, throws, modes) ==
    users <= b.users /\ calls <= b.calls /\ throws <= b.failures /\ modes \subseteq b.modes
Affordable(users, calls, throws) ==
    \E b \in Budgets : Within(b, users, calls, throws, {steeringMode, followUpMode})

Elems(s) == {s[i] : i \in DOMAIN s}

\* The ids of the user messages in a sequence of messages.
UserIds(s) == {m.id : m \in {x \in Elems(s) : x.role = "user"}}

LastRole == IF messages = <<>> THEN "none" ELSE messages[Len(messages)].role

\* PendingMessageQueue.drain: what a drain takes and what it leaves.
Drained(queue, mode) == IF mode = "all" \/ queue = <<>> THEN queue ELSE <<Head(queue)>>
Left(queue, mode) == IF mode = "all" \/ queue = <<>> THEN <<>> ELSE Tail(queue)

\* The awaited code either settles, and the run goes on at next, or throws,
\* and the run goes to onThrow.
SettleOr(next, onThrow) ==
    \/ pc' = next /\ UNCHANGED failures
    \/ /\ Affordable(nextUser, nextCall, failures + 1)
       /\ failures' = failures + 1
       /\ pc' = onThrow

Settle(next) == SettleOr(next, "failed")

Goto(from, to) == pc = from /\ pc' = to /\ UNCHANGED failures

(***************************************************************************)
(* The application's calls                                                 *)
(***************************************************************************)

\* runWithLifecycle and runAgentLoop up to the first await: the run is
\* active, and the loop has its copy of the transcript with the prompts.
BeginRun(prompts, skip) ==
    /\ pc' = "start"
    /\ isStreaming' = TRUE
    /\ streamingMessage' = FALSE
    /\ errorMessage' = FALSE
    /\ aborted' = FALSE
    /\ wasReset' = FALSE
    /\ ctx' = messages \o prompts
    /\ newMessages' = prompts
    /\ outbox' = prompts
    /\ skipPoll' = skip
    /\ moreTools' = TRUE
    /\ UNCHANGED <<messages, pendingToolCalls, batchVars, nextCall, dropped, discarded, failures>>

Prompt ==
    /\ pc = "idle"
    /\ Affordable(nextUser + 1, nextCall, failures)
    /\ nextUser' = nextUser + 1
    /\ BeginRun(<<UserMsg(nextUser + 1, "prompt")>>, FALSE)
    /\ UNCHANGED queueVars

\* continue() on a transcript that ends with a user message or a tool result.
ContinueTranscript ==
    /\ pc = "idle"
    /\ LastRole \in {"user", "toolResult"}
    /\ BeginRun(<<>>, FALSE)
    /\ UNCHANGED <<queueVars, nextUser>>

\* Mutant: the run polls for steering again after it took its prompts there.
ContinueSteering_Poll ==
    /\ pc = "idle"
    /\ LastRole = "assistant"
    /\ steeringQueue # <<>>
    /\ steeringQueue' = Left(steeringQueue, steeringMode)
    /\ BeginRun(Drained(steeringQueue, steeringMode), FALSE)
    /\ UNCHANGED <<followUpQueue, steeringMode, followUpMode, nextUser>>

\* continue() on a transcript that ends with an assistant message: the queued
\* steering messages are the prompts, and are not polled for again.
ContinueSteering ==
    /\ pc = "idle"
    /\ LastRole = "assistant"
    /\ steeringQueue # <<>>
    /\ steeringQueue' = Left(steeringQueue, steeringMode)
    /\ BeginRun(Drained(steeringQueue, steeringMode), TRUE)
    /\ UNCHANGED <<followUpQueue, steeringMode, followUpMode, nextUser>>

ContinueFollowUp ==
    /\ pc = "idle"
    /\ LastRole = "assistant"
    /\ steeringQueue = <<>>
    /\ followUpQueue # <<>>
    /\ followUpQueue' = Left(followUpQueue, followUpMode)
    /\ BeginRun(Drained(followUpQueue, followUpMode), FALSE)
    /\ UNCHANGED <<steeringQueue, steeringMode, followUpMode, nextUser>>

Steer ==
    /\ Affordable(nextUser + 1, nextCall, failures)
    /\ nextUser' = nextUser + 1
    /\ steeringQueue' = Append(steeringQueue, UserMsg(nextUser + 1, "steer"))
    /\ UNCHANGED <<pc, stateVars, followUpQueue, steeringMode, followUpMode, aborted,
                   runVars, batchVars, nextCall, wasReset, dropped, discarded, failures>>

FollowUp ==
    /\ Affordable(nextUser + 1, nextCall, failures)
    /\ nextUser' = nextUser + 1
    /\ followUpQueue' = Append(followUpQueue, UserMsg(nextUser + 1, "followUp"))
    /\ UNCHANGED <<pc, stateVars, steeringQueue, steeringMode, followUpMode, aborted,
                   runVars, batchVars, nextCall, wasReset, dropped, discarded, failures>>

ClearSteeringQueue ==
    /\ steeringQueue' = <<>>
    /\ discarded' = discarded \union UserIds(steeringQueue)
    /\ UNCHANGED <<pc, stateVars, followUpQueue, steeringMode, followUpMode, aborted,
                   runVars, batchVars, nextUser, nextCall, wasReset, dropped, failures>>

ClearFollowUpQueue ==
    /\ followUpQueue' = <<>>
    /\ discarded' = discarded \union UserIds(followUpQueue)
    /\ UNCHANGED <<pc, stateVars, steeringQueue, steeringMode, followUpMode, aborted,
                   runVars, batchVars, nextUser, nextCall, wasReset, dropped, failures>>

SetSteeringMode ==
    /\ steeringMode' \in QueueModes
    /\ \E b \in Budgets : Within(b, nextUser, nextCall, failures, {steeringMode', followUpMode})
    /\ UNCHANGED <<pc, stateVars, steeringQueue, followUpQueue, followUpMode, aborted,
                   runVars, batchVars, auxVars, failures>>

SetFollowUpMode ==
    /\ followUpMode' \in QueueModes
    /\ \E b \in Budgets : Within(b, nextUser, nextCall, failures, {steeringMode, followUpMode'})
    /\ UNCHANGED <<pc, stateVars, steeringQueue, followUpQueue, steeringMode, aborted,
                   runVars, batchVars, auxVars, failures>>

Abort ==
    /\ pc # "idle"
    /\ aborted' = TRUE
    /\ UNCHANGED <<pc, stateVars, queueVars, runVars, batchVars, auxVars, failures>>

\* reset() does not look at the active run: the loop goes on with its copy.
Reset ==
    /\ messages' = <<>>
    /\ isStreaming' = FALSE
    /\ streamingMessage' = FALSE
    /\ pendingToolCalls' = {}
    /\ errorMessage' = FALSE
    /\ steeringQueue' = <<>>
    /\ followUpQueue' = <<>>
    /\ wasReset' = (pc # "idle")
    /\ discarded' = discarded \union UserIds(messages \o steeringQueue \o followUpQueue)
    /\ UNCHANGED <<pc, steeringMode, followUpMode, aborted, runVars, batchVars,
                   nextUser, nextCall, dropped, failures>>

(***************************************************************************)
(* Emitting a list of messages, one message_start and one message_end each *)
(***************************************************************************)
EmitMessageStart(from, to, onThrow) ==
    /\ pc = from
    /\ streamingMessage' = TRUE
    /\ SettleOr(to, onThrow)
    /\ UNCHANGED <<messages, isStreaming, pendingToolCalls, errorMessage, queueVars,
                   aborted, runVars, batchVars, auxVars>>

\* processEvents appends to the transcript before it awaits the listeners.
EmitMessageEnd(from, again, done, onThrow) ==
    /\ pc = from
    /\ streamingMessage' = FALSE
    /\ messages' = Append(messages, Head(outbox))
    /\ outbox' = Tail(outbox)
    /\ SettleOr(IF Tail(outbox) = <<>> THEN done ELSE again, onThrow)
    /\ UNCHANGED <<isStreaming, pendingToolCalls, errorMessage, queueVars, aborted,
                   skipPoll, moreTools, batchVars, auxVars>>

(***************************************************************************)
(* The loop                                                                *)
(***************************************************************************)

\* agent_start and turn_start
AgentStart ==
    /\ pc = "start"
    /\ Settle(IF outbox = <<>> THEN "pollFirst" ELSE "prompt")
    /\ UNCHANGED <<stateVars, queueVars, aborted, runVars, batchVars, auxVars>>

PromptStart == EmitMessageStart("prompt", "promptEnd", "failed")
PromptEnd ==
    /\ EmitMessageEnd("promptEnd", "prompt", "pollFirst", "failed")
    /\ UNCHANGED <<ctx, newMessages>>

\* The poll before the first turn.
PollFirst ==
    /\ outbox' = IF skipPoll THEN <<>> ELSE Drained(steeringQueue, steeringMode)
    /\ steeringQueue' = IF skipPoll THEN steeringQueue ELSE Left(steeringQueue, steeringMode)
    /\ skipPoll' = FALSE
    /\ Goto("pollFirst", IF outbox' = <<>> THEN "stream" ELSE "inject")
    /\ UNCHANGED <<stateVars, followUpQueue, steeringMode, followUpMode, aborted,
                   ctx, newMessages, moreTools, batchVars, auxVars>>

TurnStart ==
    /\ pc = "turnStart"
    /\ Settle(IF outbox = <<>> THEN "stream" ELSE "inject")
    /\ UNCHANGED <<stateVars, queueVars, aborted, runVars, batchVars, auxVars>>

InjectStart == EmitMessageStart("inject", "injectEnd", "failed")
InjectEnd ==
    /\ EmitMessageEnd("injectEnd", "inject", "stream", "failed")
    /\ ctx' = Append(ctx, Head(outbox))
    /\ newMessages' = Append(newMessages, Head(outbox))

\* The provider accepts the request and sends the first event.
StreamStart ==
    /\ ~aborted
    /\ Goto("stream", "streaming")
    /\ streamingMessage' = TRUE
    /\ UNCHANGED <<messages, isStreaming, pendingToolCalls, errorMessage, queueVars,
                   aborted, runVars, batchVars, auxVars>>

\* The context transform, the key lookup, the stream function, the iteration
\* over its events or a listener of the partial message throws.
StreamThrows ==
    /\ pc \in {"stream", "streaming"}
    /\ Affordable(nextUser, nextCall, failures + 1)
    /\ failures' = failures + 1
    /\ pc' = "failed"
    /\ streamingMessage' \in {streamingMessage, TRUE}
    /\ UNCHANGED <<messages, isStreaming, pendingToolCalls, errorMessage, queueVars,
                   aborted, runVars, batchVars, auxVars>>

\* Mutant: the calls of a truncated message are executed like any other.
StreamEnd_NoLengthCheck(stop, n) ==
    /\ pc \in {"stream", "streaming"}
    /\ Affordable(nextUser, nextCall + n, failures)
    /\ LET calls == [i \in 1..n |-> nextCall + i]
           message == AssistantMsg(stop, calls)
           batch == n > 0 /\ stop \notin FailedStops
       IN  /\ messages' = Append(messages, message)
           /\ ctx' = Append(ctx, message)
           /\ newMessages' = Append(newMessages, message)
           /\ todo' = IF batch THEN calls ELSE <<>>
           /\ batchMode' \in IF ~batch THEN {"none"}
                             ELSE BatchModes
           /\ Settle(IF batch THEN "tools" ELSE "turnEnd")
    /\ nextCall' = nextCall + n
    /\ streamingMessage' = FALSE
    /\ moreTools' = FALSE
    /\ UNCHANGED <<isStreaming, pendingToolCalls, errorMessage, queueVars, aborted, outbox,
                   skipPoll, started, prepared, executing, ending, terminating,
                   nextUser, wasReset, dropped, discarded>>

\* The final message.  A request made with an aborted signal can only end in
\* error; one that was streaming may have completed before it saw the signal.
\* A reply that fails or is aborted keeps the calls it had streamed; the loop
\* returns before it looks at them.
StreamEnd(stop, n) ==
    /\ pc \in {"stream", "streaming"}
    /\ pc = "stream" => stop \in FailedStops \/ ~aborted
    /\ stop = "aborted" => aborted
    /\ Affordable(nextUser, nextCall + n, failures)
    /\ LET calls == [i \in 1..n |-> nextCall + i]
           message == AssistantMsg(stop, calls)
           batch == n > 0 /\ stop \notin FailedStops
       IN  /\ messages' = Append(messages, message)
           /\ ctx' = Append(ctx, message)
           /\ newMessages' = Append(newMessages, message)
           /\ todo' = IF batch THEN calls ELSE <<>>
           /\ batchMode' \in IF ~batch THEN {"none"}
                             ELSE IF stop = "length" THEN {"truncated"} ELSE BatchModes
           /\ Settle(IF batch THEN "tools" ELSE "turnEnd")
    /\ nextCall' = nextCall + n
    /\ streamingMessage' = FALSE
    /\ moreTools' = FALSE
    /\ UNCHANGED <<isStreaming, pendingToolCalls, errorMessage, queueVars, aborted, outbox,
                   skipPoll, started, prepared, executing, ending, terminating,
                   nextUser, wasReset, dropped, discarded>>

(***************************************************************************)
(* The tool batch                                                          *)
(***************************************************************************)

\* tool_execution_start
ToolStart ==
    /\ pc = "tools"
    /\ pendingToolCalls' = pendingToolCalls \union {Head(todo)}
    /\ Settle("prepare")
    /\ UNCHANGED <<messages, isStreaming, streamingMessage, errorMessage, queueVars,
                   aborted, runVars, batchVars, auxVars>>

\* The call is answered without execution: truncated message, unknown tool,
\* invalid arguments, blocked by the hook, or aborted.
ToolImmediate ==
    /\ pc = "prepare"
    /\ started' = Append(started, Head(todo))
    /\ todo' = Tail(todo)
    /\ pendingToolCalls' = pendingToolCalls \ {Head(todo)}
    /\ IF batchMode = "parallel"
       THEN Settle("nextTool") /\ UNCHANGED outbox
       ELSE Settle("result") /\ outbox' = <<ResultMsg(Head(todo))>>
    /\ UNCHANGED <<messages, isStreaming, streamingMessage, errorMessage, queueVars, aborted,
                   ctx, newMessages, skipPoll, moreTools, batchMode, prepared, executing,
                   ending, terminating, auxVars>>

\* The call may run: at once when sequential, after the whole batch is prepared
\* when parallel.
ToolPrepared ==
    /\ batchMode # "truncated"
    /\ ~aborted
    /\ Goto("prepare", IF batchMode = "parallel" THEN "nextTool" ELSE "exec")
    /\ started' = Append(started, Head(todo))
    /\ todo' = Tail(todo)
    /\ IF batchMode = "parallel"
       THEN prepared' = prepared \union {Head(todo)} /\ UNCHANGED executing
       ELSE executing' = executing \union {Head(todo)} /\ UNCHANGED prepared
    /\ UNCHANGED <<stateVars, queueVars, aborted, runVars, batchMode, ending, terminating,
                   auxVars>>

\* The for-loop over the calls goes round, or ends, or is broken off by an abort.
NextTool ==
    /\ IF todo # <<>> /\ (batchMode = "truncated" \/ ~aborted)
       THEN Goto("nextTool", "tools") /\ UNCHANGED <<todo, prepared, executing, dropped>>
       ELSE /\ Goto("nextTool", IF batchMode = "parallel" THEN "exec" ELSE "batchDone")
            /\ dropped' = dropped \union Elems(todo)
            /\ todo' = <<>>
            /\ executing' = executing \union prepared
            /\ prepared' = {}
    /\ UNCHANGED <<stateVars, queueVars, aborted, runVars, batchMode, started, ending,
                   terminating, nextUser, nextCall, wasReset, discarded>>

\* Mutant: the promise of a tool that is aborted never settles.
ToolSettles_NotAborted(call) ==
    /\ ~aborted
    /\ call \in executing \intersect Elems(started)
    /\ executing' = executing \ {call}
    /\ ending' = ending \union {call}
    /\ pendingToolCalls' = pendingToolCalls \ {call}
    /\ UNCHANGED <<pc, failures, terminating, messages, isStreaming, streamingMessage,
                   errorMessage, queueVars, aborted, runVars, batchMode, todo, started,
                   prepared, auxVars>>

\* tool.execute settles and tool_execution_end is emitted; or a listener of a
\* progress update threw, and the call fails the whole batch.
ToolSettles(call) ==
    /\ call \in executing \intersect Elems(started)
    /\ executing' = executing \ {call}
    /\ \/ /\ ending' = ending \union {call}
          /\ pendingToolCalls' = pendingToolCalls \ {call}
          /\ terminating' \in {terminating, terminating \union {call}}
          /\ UNCHANGED <<pc, failures>>
       \/ /\ Affordable(nextUser, nextCall, failures + 1)
          /\ failures' = failures + 1
          /\ pc' = "failed"
          /\ UNCHANGED <<ending, pendingToolCalls, terminating>>
    /\ UNCHANGED <<messages, isStreaming, streamingMessage, errorMessage, queueVars, aborted,
                   runVars, batchMode, todo, started, prepared, auxVars>>

\* The listeners of tool_execution_end.
EndListenersSettle(call) ==
    /\ call \in ending \intersect Elems(started)
    /\ ending' = ending \ {call}
    /\ Settle(pc)
    /\ UNCHANGED <<stateVars, queueVars, aborted, runVars, batchMode, todo, started,
                   prepared, executing, terminating, auxVars>>

\* A call that was running when its run failed is not cancelled.  Its end is
\* still reduced; the listeners hear of it only if another run is active.
OrphanSettles(call) ==
    /\ call \in executing \ Elems(started)
    /\ executing' = executing \ {call}
    /\ pendingToolCalls' = pendingToolCalls \ {call}
    /\ ending' = IF pc = "idle" THEN ending ELSE ending \union {call}
    /\ UNCHANGED <<pc, messages, isStreaming, streamingMessage, errorMessage, queueVars,
                   aborted, runVars, batchMode, todo, started, prepared, terminating,
                   auxVars, failures>>

\* Nobody awaits what the listeners of an orphan return.
OrphanListenersSettle(call) ==
    /\ call \in ending \ Elems(started)
    /\ ending' = ending \ {call}
    /\ UNCHANGED <<pc, stateVars, queueVars, aborted, runVars, batchMode, todo, started,
                   prepared, executing, terminating, auxVars, failures>>

\* Mutant: the results of a parallel batch are emitted last call first.
ExecDone_Reversed ==
    /\ (executing \union ending) \intersect Elems(started) = {}
    /\ Goto("exec", "result")
    /\ outbox' = IF batchMode = "parallel"
                 THEN [i \in 1..Len(started) |-> ResultMsg(started[Len(started) - i + 1])]
                 ELSE <<ResultMsg(started[Len(started)])>>
    /\ UNCHANGED <<stateVars, queueVars, aborted, ctx, newMessages, skipPoll, moreTools,
                   batchVars, auxVars>>

\* Promise.all over the batch, or the await of the one sequential call.
ExecDone ==
    /\ (executing \union ending) \intersect Elems(started) = {}
    /\ Goto("exec", "result")
    /\ outbox' = IF batchMode = "parallel"
                 THEN Answers(started)
                 ELSE <<ResultMsg(started[Len(started)])>>
    /\ UNCHANGED <<stateVars, queueVars, aborted, ctx, newMessages, skipPoll, moreTools,
                   batchVars, auxVars>>

ResultStart == EmitMessageStart("result", "resultEnd", "failed")
ResultEnd ==
    /\ EmitMessageEnd("resultEnd", "result",
                      IF batchMode = "parallel" THEN "batchDone" ELSE "nextTool", "failed")
    /\ UNCHANGED <<ctx, newMessages>>

\* Mutant: the results are not added to the loop's context.
BatchDone_NoContext ==
    /\ Goto("batchDone", "turnEnd")
    /\ newMessages' = newMessages \o Answers(started)
    /\ moreTools' = ~(Elems(started) \subseteq terminating)
    /\ started' = <<>>
    /\ terminating' = {}
    /\ batchMode' = "none"
    /\ UNCHANGED <<stateVars, queueVars, aborted, ctx, outbox, skipPoll, todo,
                   prepared, executing, ending, auxVars>>

\* Mutant: the results are added to the context but not to the run's report.
BatchDone_NotReported ==
    /\ Goto("batchDone", "turnEnd")
    /\ ctx' = ctx \o Answers(started)
    /\ moreTools' = ~(Elems(started) \subseteq terminating)
    /\ started' = <<>>
    /\ terminating' = {}
    /\ batchMode' = "none"
    /\ UNCHANGED <<stateVars, queueVars, aborted, newMessages, outbox, skipPoll, todo,
                   prepared, executing, ending, auxVars>>

BatchDone ==
    /\ Goto("batchDone", "turnEnd")
    /\ ctx' = ctx \o Answers(started)
    /\ newMessages' = newMessages \o Answers(started)
    /\ moreTools' = ~(Elems(started) \subseteq terminating)
    /\ started' = <<>>
    /\ terminating' = {}
    /\ batchMode' = "none"
    /\ UNCHANGED <<stateVars, queueVars, aborted, outbox, skipPoll, todo,
                   prepared, executing, ending, auxVars>>

(***************************************************************************)
(* Between turns, and the end of the run                                   *)
(***************************************************************************)
TurnFailed ==
    LET last == newMessages[Len(newMessages)]
    IN  last.role = "assistant" /\ last.stop \in FailedStops

\* turn_end, then prepareNextTurn
TurnEnd ==
    /\ pc = "turnEnd"
    /\ errorMessage' = (errorMessage \/ TurnFailed)
    /\ Settle(IF TurnFailed THEN "agentEnd" ELSE "pollSteer")
    /\ UNCHANGED <<messages, isStreaming, streamingMessage, pendingToolCalls, queueVars,
                   aborted, runVars, batchVars, auxVars>>

PollSteer ==
    /\ outbox' = Drained(steeringQueue, steeringMode)
    /\ steeringQueue' = Left(steeringQueue, steeringMode)
    /\ Goto("pollSteer", IF moreTools \/ outbox' # <<>> THEN "turnStart" ELSE "pollFollowUp")
    /\ UNCHANGED <<stateVars, followUpQueue, steeringMode, followUpMode, aborted,
                   ctx, newMessages, skipPoll, moreTools, batchVars, auxVars>>

\* Mutant: a one-at-a-time drain takes one message and empties the queue.
PollFollowUp_Clears ==
    /\ outbox' = Drained(followUpQueue, followUpMode)
    /\ followUpQueue' = <<>>
    /\ Goto("pollFollowUp", IF outbox' # <<>> THEN "turnStart" ELSE "agentEnd")
    /\ UNCHANGED <<stateVars, steeringQueue, steeringMode, followUpMode, aborted,
                   ctx, newMessages, skipPoll, moreTools, batchVars, auxVars>>

PollFollowUp ==
    /\ outbox' = Drained(followUpQueue, followUpMode)
    /\ followUpQueue' = Left(followUpQueue, followUpMode)
    /\ Goto("pollFollowUp", IF outbox' # <<>> THEN "turnStart" ELSE "agentEnd")
    /\ UNCHANGED <<stateVars, steeringQueue, steeringMode, followUpMode, aborted,
                   ctx, newMessages, skipPoll, moreTools, batchVars, auxVars>>

AgentEnd ==
    /\ pc = "agentEnd"
    /\ streamingMessage' = FALSE
    /\ Settle("finish")
    /\ UNCHANGED <<messages, isStreaming, pendingToolCalls, errorMessage, queueVars,
                   aborted, runVars, batchVars, auxVars>>

\* Mutant: the failure message carries a stop reason nobody knows.
Failed_UnknownStop ==
    LET message == AssistantMsg(IF aborted THEN "aborted" ELSE "failed", <<>>)
    IN  /\ Goto("failed", "fail")
        /\ outbox' = <<message>>
        /\ newMessages' = <<message>>
        /\ discarded' = discarded \union UserIds(outbox)
        /\ todo' = <<>>
        /\ started' = <<>>
        /\ prepared' = {}
        /\ terminating' = {}
        /\ batchMode' = "none"
        /\ UNCHANGED <<stateVars, queueVars, aborted, ctx, skipPoll, moreTools,
                       executing, ending, nextUser, nextCall, wasReset, dropped>>

\* handleRunFailure: the run's messages are replaced by one failure message.
Failed ==
    LET message == AssistantMsg(IF aborted THEN "aborted" ELSE "error", <<>>)
    IN  /\ Goto("failed", "fail")
        /\ outbox' = <<message>>
        /\ newMessages' = <<message>>
        /\ discarded' = discarded \union UserIds(outbox)
        /\ dropped' = dropped \union
               {c \in Elems(started \o todo) : ResultMsg(c) \notin Elems(messages)}
        /\ todo' = <<>>
        /\ started' = <<>>
        /\ prepared' = {}
        /\ terminating' = {}
        /\ batchMode' = "none"
        /\ UNCHANGED <<stateVars, queueVars, aborted, ctx, skipPoll, moreTools,
                       executing, ending, nextUser, nextCall, wasReset>>

\* What throws while the failure is reported rejects the caller's promise.
FailStart == EmitMessageStart("fail", "failEnd", "finish")
FailEnd ==
    /\ EmitMessageEnd("failEnd", "fail", "failTurnEnd", "finish")
    /\ UNCHANGED <<ctx, newMessages>>
FailTurnEnd ==
    /\ pc = "failTurnEnd"
    /\ errorMessage' = TRUE
    /\ SettleOr("failAgentEnd", "finish")
    /\ UNCHANGED <<messages, isStreaming, streamingMessage, pendingToolCalls, queueVars,
                   aborted, runVars, batchVars, auxVars>>
FailAgentEnd ==
    /\ pc = "failAgentEnd"
    /\ streamingMessage' = FALSE
    /\ SettleOr("finish", "finish")
    /\ UNCHANGED <<messages, isStreaming, pendingToolCalls, errorMessage, queueVars,
                   aborted, runVars, batchVars, auxVars>>

\* finishRun
Finish ==
    /\ Goto("finish", "idle")
    /\ isStreaming' = FALSE
    /\ streamingMessage' = FALSE
    /\ pendingToolCalls' = {}
    /\ aborted' = FALSE
    /\ wasReset' = FALSE
    /\ ctx' = <<>> /\ newMessages' = <<>> /\ outbox' = <<>>
    /\ skipPoll' = FALSE /\ moreTools' = FALSE
    /\ UNCHANGED <<messages, errorMessage, queueVars, batchVars, nextUser, nextCall,
                   dropped, discarded>>

(***************************************************************************)
(* The specification                                                       *)
(***************************************************************************)
Init ==
    /\ pc = "idle"
    /\ messages = <<>> /\ isStreaming = FALSE /\ streamingMessage = FALSE
    /\ pendingToolCalls = {} /\ errorMessage = FALSE
    /\ steeringQueue = <<>> /\ followUpQueue = <<>>
    /\ steeringMode \in QueueModes /\ followUpMode \in QueueModes
    /\ aborted = FALSE
    /\ ctx = <<>> /\ newMessages = <<>> /\ outbox = <<>>
    /\ skipPoll = FALSE /\ moreTools = FALSE
    /\ batchMode = "none"
    /\ todo = <<>> /\ started = <<>>
    /\ prepared = {} /\ executing = {} /\ ending = {} /\ terminating = {}
    /\ nextUser = 0 /\ nextCall = 0 /\ failures = 0
    /\ wasReset = FALSE /\ dropped = {} /\ discarded = {}

Application ==
    \/ Prompt \/ ContinueTranscript \/ ContinueSteering \/ ContinueFollowUp
    \/ Steer \/ FollowUp \/ ClearSteeringQueue \/ ClearFollowUpQueue
    \/ SetSteeringMode \/ SetFollowUpMode \/ Abort \/ Reset

LoopStep ==
    \/ AgentStart \/ PromptStart \/ PromptEnd \/ PollFirst
    \/ TurnStart \/ InjectStart \/ InjectEnd
    \/ StreamStart \/ StreamThrows
    \/ \E stop \in {"stop", "length"} \union FailedStops, n \in 0..MaxPerMessage : StreamEnd(stop, n)
    \/ ToolStart \/ ToolImmediate \/ ToolPrepared \/ NextTool
    \/ ExecDone \/ ResultStart \/ ResultEnd \/ BatchDone
    \/ TurnEnd \/ PollSteer \/ PollFollowUp \/ AgentEnd
    \/ Failed \/ FailStart \/ FailEnd \/ FailTurnEnd \/ FailAgentEnd
    \/ Finish

ToolStep ==
    \/ \E call \in executing : ToolSettles(call) \/ OrphanSettles(call)
    \/ \E call \in ending : EndListenersSettle(call) \/ OrphanListenersSettle(call)

Next == Application \/ LoopStep \/ ToolStep

Spec == Init /\ [][Next]_vars

\* The event loop runs what is ready: the run, and each tool, goes on as long
\* as it can.  Nothing is assumed of the application.
Fairness == WF_vars(LoopStep) /\ WF_vars(ToolStep)

FairSpec == Spec /\ Fairness

(***************************************************************************)
(* Properties                                                              *)
(***************************************************************************)
PCs == {"idle", "start", "prompt", "promptEnd", "pollFirst", "turnStart", "inject",
        "injectEnd", "stream", "streaming", "tools", "prepare", "nextTool", "exec",
        "result", "resultEnd", "batchDone", "turnEnd", "pollSteer", "pollFollowUp",
        "agentEnd", "failed", "fail", "failEnd", "failTurnEnd", "failAgentEnd", "finish"}

FlagType ==
    /\ isStreaming \in BOOLEAN /\ streamingMessage \in BOOLEAN /\ errorMessage \in BOOLEAN
    /\ aborted \in BOOLEAN /\ skipPoll \in BOOLEAN /\ moreTools \in BOOLEAN
    /\ wasReset \in BOOLEAN
QueueType ==
    /\ steeringQueue \in Seq(UserMessages) /\ followUpQueue \in Seq(UserMessages)
    /\ steeringMode \in QueueModes /\ followUpMode \in QueueModes
RunType ==
    /\ messages \in Seq(Message) /\ ctx \in Seq(Message)
    /\ newMessages \in Seq(Message) /\ outbox \in Seq(Message)
BatchType ==
    /\ batchMode \in {"none", "truncated"} \union BatchModes
    /\ todo \in Seq(Nat) /\ started \in Seq(Nat)
    /\ pendingToolCalls \subseteq Nat /\ prepared \subseteq Nat
    /\ executing \subseteq Nat /\ ending \subseteq Nat /\ terminating \subseteq Nat
AuxType ==
    /\ nextUser \in Nat /\ nextCall \in Nat
    /\ dropped \subseteq Nat /\ discarded \subseteq Nat

\* The types of the variables.
TypeOK ==
    /\ pc \in PCs /\ failures \in Nat
    /\ FlagType /\ QueueType /\ RunType /\ BatchType /\ AuxType

\* The loop keeps its own copy of the transcript, extended by code paths other
\* than the ones that extend the agent's: each request to the provider still
\* carries the whole transcript, unless the agent was reset under the run.
ContextIsTranscript ==
    pc \in {"stream", "streaming"} /\ ~wasReset => ctx = messages

\* What agent_end reports is the tail of the transcript, in a run that ends
\* well as in one that fails.
ReportIsTail ==
    pc \in {"agentEnd", "failAgentEnd"} /\ ~wasReset =>
        /\ Len(newMessages) <= Len(messages)
        /\ newMessages = SubSeq(messages, Len(messages) - Len(newMessages) + 1, Len(messages))

Results(call) == {k \in DOMAIN messages : messages[k] = ResultMsg(call)}

\* Calls that get no answer: those of a reply that failed or was aborted, and
\* those given up when an abort or a failing run ended their batch.
Unanswered(message, call) == message.stop \in FailedStops \/ call \in dropped

\* A tool call of the transcript that has been passed by is answered exactly
\* once, or is one of those that are never answered; the answers follow the
\* call's message at once.
AnsweredOnce ==
    \A i, j \in DOMAIN messages :
        /\ i < j /\ messages[i].role = "assistant" /\ messages[j].role # "toolResult"
        => \A call \in Elems(messages[i].calls) :
               /\ Cardinality(Results(call)) = IF Unanswered(messages[i], call) THEN 0 ELSE 1
               /\ \A k \in Results(call) : i < k /\ k < j

\* However the calls of a batch settle, their results are in the order in which
\* the assistant made the calls.
ResultsInOrder ==
    \A i, j \in DOMAIN messages :
        /\ i < j
        /\ messages[i].role = "toolResult" /\ messages[j].role = "toolResult"
        => messages[i].call < messages[j].call

\* Whichever way the calls of a batch settle, are refused, aborted or fail, each
\* is answered once and the answers stand in the order of the calls.  Never
\* answered are the calls of a reply that failed or was aborted itself, and
\* those that an abort or a throwing listener gave up before their result.
AnsweredInOrder == AnsweredOnce /\ ResultsInOrder

\* A queue's messages reach the transcript in the order in which they were
\* queued, each at most once; "pending" is what a drain took and the loop has
\* not yet emitted.
InQueueOrder(queue, via) ==
    LET all == messages \o outbox \o queue
        Via(m) == m.role = "user" /\ m.via = via
    IN  \A i, j \in DOMAIN all :
            i < j /\ Via(all[i]) /\ Via(all[j]) => all[i].id < all[j].id
FirstInFirstOut ==
    InQueueOrder(steeringQueue, "steer") /\ InQueueOrder(followUpQueue, "followUp")

\* No message the application handed over disappears: it is queued, pending or
\* in the transcript, unless it was cleared, or a run that failed had drained it.
NothingLost ==
    1..nextUser \subseteq
        discarded \union UserIds(messages \o outbox \o steeringQueue \o followUpQueue)

\* Every message the application queued is delivered, in its order, once; lost are
\* those that a run had drained when a listener threw.
QueuedDelivered == FirstInFirstOut /\ NothingLost

\* In one-at-a-time mode a run takes a steering message from the queue only when
\* the model has answered every steering message that the run took before, at
\* the start of a run as between its turns.
Taken == UserIds(steeringQueue) \ (UserIds(steeringQueue') \union discarded')
OneSteerPerRequest ==
    [][pc # "idle" /\ steeringMode = "one-at-a-time" /\ Taken # {} =>
          /\ Cardinality(Taken) = 1
          /\ \A i \in DOMAIN newMessages :
                newMessages[i].role = "user" /\ newMessages[i].via = "steer" =>
                    \E k \in i..Len(newMessages) : newMessages[k].role = "assistant"]_vars

\* At the end of a turn no tool of the batch is reported as pending, whichever
\* way each call ended.
NoPendingAtTurnEnd == pc = "turnEnd" => pendingToolCalls = {}

\* The calls of a message that is not complete, because it was cut off by the
\* token limit, failed or was aborted, are never executed.
TruncatedNeverRun ==
    \A m \in Elems(messages) :
        m.role = "assistant" /\ m.stop # "stop" =>
            Elems(m.calls) \intersect (prepared \union executing \union ending) = {}

\* What is executed, and what is reported as being executed, is what the model
\* may have executed: never a call of an incomplete reply, and nothing any
\* more when the turn has ended.
ToolsAccountedFor == NoPendingAtTurnEnd /\ TruncatedNeverRun

\* The comment of waitForIdle (agent.ts): the run's promise resolves when "all
\* awaited event listeners have finished".
ListenersSettledWhenIdle == pc = "idle" => ending = {}

\* The comment of isStreaming (types.ts): "True while the agent is processing a
\* prompt or continuation."
StreamingWhileActive == pc # "idle" => isStreaming

\* Every run settles, aborted or not: no order of settlements leaves the batch
\* or the loop waiting.
RunSettles == (pc # "idle") ~> (pc = "idle")
=============================================================================
