---------------------------- MODULE AgentProofs ----------------------------
(***************************************************************************)
(* Theorems about Agent, for every number of messages, calls and failures  *)
(* and for every set of modes: types, the protocol of runs and messages;   *)
(* then what the loop does with calls and queues: which calls are          *)
(* executed, which are reported as pending, and how each is answered in    *)
(* the transcript; and every message that the application hands over is    *)
(* queued, pending or in the transcript, unless it was given up, and those *)
(* of one queue keep their order on the way.                               *)
(***************************************************************************)
EXTENDS Agent, SequenceTheorems, FiniteSetTheorems, TLAPS

(***************************************************************************)
(* Types                                                                   *)
(***************************************************************************)

\* Where the code takes the first element of a sequence, there is one.
NonEmpty ==
    /\ pc \in {"prompt", "promptEnd", "inject", "injectEnd", "result", "resultEnd",
               "fail", "failEnd"} => outbox # <<>>
    /\ pc \in {"tools", "prepare"} => todo # <<>>
    /\ pc \in {"nextTool", "exec", "result", "resultEnd", "batchDone"} => started # <<>>

TypeInv == TypeOK /\ NonEmpty

\* What the message constructors build are messages.
LEMMA MessageTypes ==
    /\ \A id \in Nat, via \in Channels : UserMsg(id, via) \in UserMessages
    /\ \A stop \in {"stop", "length"} \union FailedStops, calls \in Seq(Nat) :
           AssistantMsg(stop, calls) \in Message
    /\ \A call \in Nat : ResultMsg(call) \in Message
    /\ \A m \in UserMessages : m \in Message /\ m.id \in Nat
BY DEF UserMsg, AssistantMsg, ResultMsg, Message, UserMessages, AssistantMessages,
       ResultMessages

\* A drain of a pending-message queue splits it into two sequences of its elements.
LEMMA DrainTypes ==
    ASSUME NEW S, NEW queue \in Seq(S), NEW mode
    PROVE  Drained(queue, mode) \in Seq(S) /\ Left(queue, mode) \in Seq(S)
BY DEF Drained, Left

\* The results of a batch are messages, one for each call, in the order of the calls.
LEMMA AnswerTypes ==
    ASSUME NEW calls \in Seq(Nat)
    PROVE  /\ Answers(calls) \in Seq(Message) /\ Len(Answers(calls)) = Len(calls)
           /\ \A i \in 1..Len(calls) : Answers(calls)[i] = ResultMsg(calls[i])
<1>1. \A i \in 1..Len(calls) : ResultMsg(calls[i]) \in Message
  BY MessageTypes
<1>. QED
  BY <1>1 DEF Answers

\* The elements of a sequence over a set belong to the set.
LEMMA ElemTypes ==
    ASSUME NEW S, NEW s \in Seq(S)
    PROVE  Elems(s) \subseteq S
BY DEF Elems

\* A sequence of user messages is a sequence of messages.
LEMMA UserMessageSeq ==
    ASSUME NEW s \in Seq(UserMessages)
    PROVE  s \in Seq(Message)
BY MessageTypes

\* The ids of the user messages of a transcript are numbers.
LEMMA UserIdTypes ==
    ASSUME NEW s \in Seq(Message)
    PROVE  UserIds(s) \subseteq Nat
BY DEF UserIds, Elems, Message, UserMessages, AssistantMessages, ResultMessages

\* A new agent is well typed.
THEOREM TypeInit == Init => TypeInv
<1> SUFFICES ASSUME Init PROVE TypeInv
  OBVIOUS
<1>1. QueueType /\ RunType
  BY DEF Init, QueueType, RunType
<1>2. BatchType /\ AuxType
  BY DEF Init, BatchType, AuxType
<1>3. FlagType
  BY DEF Init, FlagType
<1>4. NonEmpty /\ pc \in PCs /\ failures \in Nat
  BY DEF Init, NonEmpty, PCs
<1>. QED
  BY <1>1, <1>2, <1>3, <1>4 DEF TypeInv, TypeOK

\* Every step of the agent keeps the transcript and the lists of a run well typed.
LEMMA RunStep ==
    ASSUME TypeInv, [Next]_vars
    PROVE  RunType'
<1> RunType /\ QueueType /\ BatchType /\ NonEmpty /\ nextUser \in Nat /\ nextCall \in Nat
  BY DEF TypeInv, TypeOK, AuxType
<1> USE DEF RunType, QueueType, BatchType, NonEmpty, Channels, stateVars, queueVars,
     runVars, batchVars, auxVars
<1>1. CASE Steer \/ FollowUp \/ ClearSteeringQueue \/ ClearFollowUpQueue \/
     SetSteeringMode \/ SetFollowUpMode \/ Abort
  BY <1>1 DEF Steer, FollowUp, ClearSteeringQueue, ClearFollowUpQueue, SetSteeringMode,
       SetFollowUpMode, Abort
<1>2. CASE Prompt
  BY <1>2, MessageTypes DEF Prompt, BeginRun
<1>3. CASE ContinueTranscript
  BY <1>3 DEF ContinueTranscript, BeginRun
<1>4. CASE ContinueSteering
  BY <1>4, MessageTypes, DrainTypes DEF ContinueSteering, BeginRun
<1>5. CASE ContinueFollowUp
  BY <1>5, MessageTypes, DrainTypes DEF ContinueFollowUp, BeginRun
<1>6. CASE Reset
  BY <1>6 DEF Reset
<1>7. CASE AgentStart \/ PromptStart \/ TurnStart \/ InjectStart \/ StreamStart \/
     StreamThrows \/ ToolStart \/ ToolPrepared \/ NextTool \/ ResultStart \/ TurnEnd \/
     AgentEnd \/ FailStart \/ FailTurnEnd \/ FailAgentEnd
  BY <1>7 DEF AgentStart, Settle, SettleOr, PromptStart, EmitMessageStart, TurnStart,
       InjectStart, StreamStart, Goto, StreamThrows, ToolStart, ToolPrepared, NextTool,
       ResultStart, TurnEnd, TurnFailed, AgentEnd, FailStart, FailTurnEnd, FailAgentEnd
<1>8. CASE PromptEnd
  BY <1>8 DEF PromptEnd, EmitMessageEnd, SettleOr
<1>9. CASE PollFirst
  BY <1>9, MessageTypes, DrainTypes DEF PollFirst, Goto
<1>10. CASE InjectEnd
  BY <1>10 DEF InjectEnd, EmitMessageEnd, SettleOr
<1>11. ASSUME NEW stop \in {"stop", "length"} \union FailedStops, NEW n \in Nat,
     StreamEnd(stop, n) PROVE RunType'
  <2> DEFINE calls == [i \in 1..n |-> nextCall + i]
             message == AssistantMsg(stop, calls)
  <2>1. message \in Message
    BY MessageTypes
  <2>2. /\ messages' = Append(messages, message)
        /\ ctx' = Append(ctx, message)
        /\ newMessages' = Append(newMessages, message)
        /\ outbox' = outbox
    BY <1>11 DEF StreamEnd
  <2>. QED
    BY <2>1, <2>2 DEF RunType
<1>12. CASE ToolImmediate
  <2>1. ResultMsg(Head(todo)) \in Message
    BY <1>12, MessageTypes DEF ToolImmediate, BatchType, NonEmpty
  <2>2. UNCHANGED <<messages, ctx, newMessages>>
    BY <1>12 DEF ToolImmediate
  <2>3. outbox' = outbox \/ outbox' = <<ResultMsg(Head(todo))>>
    BY <1>12 DEF ToolImmediate
  <2>4. outbox' \in Seq(Message)
    <3>1. <<ResultMsg(Head(todo))>> \in Seq(Message)
      BY <2>1
    <3>2. outbox \in Seq(Message)
      BY DEF RunType
    <3>. QED
      BY <3>1, <3>2, <2>3
  <2>. QED
    BY <2>2, <2>4 DEF RunType
<1>13. CASE ExecDone
  <2>1. started[Len(started)] \in Nat
    BY <1>13 DEF ExecDone, Goto, BatchType, NonEmpty
  <2>2. Answers(started) \in Seq(Message) /\ <<ResultMsg(started[Len(started)])>> \in Seq(Message)
    BY <2>1, MessageTypes, AnswerTypes DEF BatchType
  <2>3. outbox' \in Seq(Message)
    BY <1>13, <2>2 DEF ExecDone
  <2>. QED
    BY <1>13, <2>3 DEF ExecDone, RunType, stateVars
<1>14. CASE ResultEnd
  BY <1>14 DEF ResultEnd, EmitMessageEnd, SettleOr
<1>15. CASE BatchDone
  BY <1>15, AnswerTypes DEF BatchDone, Goto
<1>16. CASE PollSteer
  BY <1>16, MessageTypes, DrainTypes DEF PollSteer, Goto
<1>17. CASE PollFollowUp
  BY <1>17, MessageTypes, DrainTypes DEF PollFollowUp, Goto
<1>18. CASE Failed
  <2> DEFINE message == AssistantMsg(IF aborted THEN "aborted" ELSE "error", <<>>)
  <2>1. message \in Message
    <3>1. (IF aborted THEN "aborted" ELSE "error") \in {"stop", "length"} \union FailedStops
      BY DEF FailedStops
    <3>2. <<>> \in Seq(Nat)
      OBVIOUS
    <3>. QED
      BY <3>1, <3>2, MessageTypes
  <2>2. UNCHANGED <<messages, ctx>> /\ outbox' = <<message>> /\ newMessages' = <<message>>
    BY <1>18 DEF Failed, stateVars
  <2>. QED
    BY <2>1, <2>2 DEF RunType
<1>19. CASE FailEnd
  BY <1>19 DEF FailEnd, EmitMessageEnd, SettleOr
<1>20. CASE Finish
  BY <1>20 DEF Finish, Goto
<1>21. ASSUME NEW call, ToolSettles(call) \/ EndListenersSettle(call) \/
     OrphanSettles(call) \/ OrphanListenersSettle(call) PROVE RunType'
  BY <1>21 DEF ToolSettles, EndListenersSettle, Settle, SettleOr, OrphanSettles,
       OrphanListenersSettle
<1>22. CASE UNCHANGED vars
  BY <1>22 DEF vars
<1>. QED BY <1>1, <1>2, <1>3, <1>4, <1>5, <1>6, <1>7, <1>8, <1>9, <1>10, <1>11, <1>12,
     <1>13, <1>14, <1>15, <1>16, <1>17, <1>18, <1>19, <1>20, <1>21, <1>22 DEF Next,
     Application, LoopStep, ToolStep

\* Every step keeps the two queues of pending messages well typed.
LEMMA QueueStep ==
    ASSUME TypeInv, [Next]_vars
    PROVE  QueueType'
<1> QueueType /\ nextUser \in Nat
  BY DEF TypeInv, TypeOK, AuxType
<1> USE DEF QueueType, Channels, stateVars, queueVars, runVars, batchVars, auxVars
<1>1. CASE Prompt \/ ContinueTranscript \/ Abort
  BY <1>1 DEF Prompt, BeginRun, ContinueTranscript, Abort
<1>2. CASE ContinueSteering
  BY <1>2, DrainTypes DEF ContinueSteering, BeginRun
<1>3. CASE ContinueFollowUp
  BY <1>3, DrainTypes DEF ContinueFollowUp, BeginRun
<1>4. CASE Steer
  BY <1>4, MessageTypes DEF Steer
<1>5. CASE FollowUp
  BY <1>5, MessageTypes DEF FollowUp
<1>6. CASE ClearSteeringQueue
  BY <1>6 DEF ClearSteeringQueue
<1>7. CASE ClearFollowUpQueue
  BY <1>7 DEF ClearFollowUpQueue
<1>8. CASE SetSteeringMode
  BY <1>8 DEF SetSteeringMode
<1>9. CASE SetFollowUpMode
  BY <1>9 DEF SetFollowUpMode
<1>10. CASE Reset
  BY <1>10 DEF Reset
<1>11. CASE AgentStart \/ PromptStart \/ PromptEnd \/ TurnStart \/ InjectStart \/
     InjectEnd \/ StreamStart \/ StreamThrows \/ (\E stop, n : StreamEnd(stop, n)) \/
     ToolStart \/ ToolImmediate \/ ToolPrepared \/ NextTool \/ ExecDone \/ ResultStart
     \/ ResultEnd \/ BatchDone \/ TurnEnd \/ AgentEnd \/ Failed \/ FailStart \/ FailEnd
     \/ FailTurnEnd \/ FailAgentEnd \/ Finish
  BY <1>11 DEF AgentStart, Settle, SettleOr, PromptStart, EmitMessageStart, PromptEnd,
       EmitMessageEnd, TurnStart, InjectStart, InjectEnd, StreamStart, Goto,
       StreamThrows, StreamEnd, ToolStart, ToolImmediate, ToolPrepared, NextTool,
       ExecDone, ResultStart, ResultEnd, BatchDone, TurnEnd, TurnFailed, AgentEnd,
       Failed, FailStart, FailEnd, FailTurnEnd, FailAgentEnd, Finish
<1>12. CASE PollFirst
  BY <1>12, DrainTypes DEF PollFirst, Goto
<1>13. CASE PollSteer
  BY <1>13, DrainTypes DEF PollSteer, Goto
<1>14. CASE PollFollowUp
  BY <1>14, DrainTypes DEF PollFollowUp, Goto
<1>15. ASSUME NEW call, ToolSettles(call) \/ EndListenersSettle(call) \/
     OrphanSettles(call) \/ OrphanListenersSettle(call) PROVE QueueType'
  BY <1>15 DEF ToolSettles, EndListenersSettle, Settle, SettleOr, OrphanSettles,
       OrphanListenersSettle
<1>16. CASE UNCHANGED vars
  BY <1>16 DEF vars
<1>. QED BY <1>1, <1>2, <1>3, <1>4, <1>5, <1>6, <1>7, <1>8, <1>9, <1>10, <1>11, <1>12,
     <1>13, <1>14, <1>15, <1>16 DEF Next, Application, LoopStep, ToolStep

\* Every step keeps the lists and sets of a tool batch well typed.
LEMMA BatchStep ==
    ASSUME TypeInv, [Next]_vars
    PROVE  BatchType'
<1> BatchType /\ NonEmpty /\ nextCall \in Nat
  BY DEF TypeInv, TypeOK, AuxType
<1> USE DEF BatchType, NonEmpty, stateVars, queueVars, runVars, batchVars, auxVars
<1>1. CASE Prompt \/ ContinueTranscript \/ ContinueSteering \/ ContinueFollowUp \/
     Steer \/ FollowUp \/ ClearSteeringQueue \/ ClearFollowUpQueue \/ SetSteeringMode
     \/ SetFollowUpMode \/ Abort
  BY <1>1 DEF Prompt, BeginRun, ContinueTranscript, ContinueSteering, ContinueFollowUp,
       Steer, FollowUp, ClearSteeringQueue, ClearFollowUpQueue, SetSteeringMode,
       SetFollowUpMode, Abort
<1>2. CASE Reset
  BY <1>2 DEF Reset
<1>3. CASE AgentStart \/ PromptStart \/ PromptEnd \/ PollFirst \/ TurnStart \/
     InjectStart \/ InjectEnd \/ StreamStart \/ StreamThrows \/ ExecDone \/ ResultStart
     \/ ResultEnd \/ TurnEnd \/ PollSteer \/ PollFollowUp \/ AgentEnd \/ FailStart \/
     FailEnd \/ FailTurnEnd \/ FailAgentEnd
  BY <1>3 DEF AgentStart, Settle, SettleOr, PromptStart, EmitMessageStart, PromptEnd,
       EmitMessageEnd, PollFirst, Goto, TurnStart, InjectStart, InjectEnd, StreamStart,
       StreamThrows, ExecDone, ResultStart, ResultEnd, TurnEnd, TurnFailed, PollSteer,
       PollFollowUp, AgentEnd, FailStart, FailEnd, FailTurnEnd, FailAgentEnd
<1>4. ASSUME NEW stop \in {"stop", "length"} \union FailedStops, NEW n \in Nat,
     StreamEnd(stop, n) PROVE BatchType'
  <2>1. [i \in 1..n |-> nextCall + i] \in Seq(Nat) /\ <<>> \in Seq(Nat)
    OBVIOUS
  <2>2. batchMode' \in {"none", "truncated"} \union BatchModes
    BY <1>4 DEF StreamEnd
  <2>3. /\ todo' = [i \in 1..n |-> nextCall + i] \/ todo' = <<>>
        /\ UNCHANGED <<started, pendingToolCalls, prepared, executing, ending, terminating>>
    BY <1>4 DEF StreamEnd
  <2>. QED
    BY <2>1, <2>2, <2>3 DEF BatchType
<1>5. CASE ToolStart
  <2>1. Head(todo) \in Nat /\ Tail(todo) \in Seq(Nat)
    BY <1>5 DEF ToolStart, BatchType, NonEmpty
  <2>. QED
    BY <1>5, <2>1 DEF ToolStart, BatchType, batchVars
<1>6. CASE ToolImmediate
  <2>1. Head(todo) \in Nat /\ Tail(todo) \in Seq(Nat)
    BY <1>6 DEF ToolImmediate, BatchType, NonEmpty
  <2>2. /\ started' = Append(started, Head(todo)) /\ todo' = Tail(todo)
        /\ pendingToolCalls' \subseteq pendingToolCalls
        /\ UNCHANGED <<batchMode, prepared, executing, ending, terminating>>
    BY <1>6 DEF ToolImmediate
  <2>. QED
    BY <2>1, <2>2 DEF BatchType
<1>7. CASE ToolPrepared
  <2>1. Head(todo) \in Nat /\ Tail(todo) \in Seq(Nat)
    BY <1>7 DEF ToolPrepared, BatchType, NonEmpty, Goto
  <2>2. /\ started' = Append(started, Head(todo)) /\ todo' = Tail(todo)
        /\ prepared' \subseteq prepared \union {Head(todo)}
        /\ executing' \subseteq executing \union {Head(todo)}
        /\ UNCHANGED <<batchMode, pendingToolCalls, ending, terminating>>
    BY <1>7 DEF ToolPrepared, stateVars
  <2>. QED
    BY <2>1, <2>2 DEF BatchType
<1>8. CASE NextTool
  <2>1. todo' \in Seq(Nat)
    <3>1. todo' = todo \/ todo' = <<>>
      BY <1>8 DEF NextTool
    <3>2. todo \in Seq(Nat) /\ <<>> \in Seq(Nat)
      BY DEF BatchType
    <3>. QED
      BY <3>1, <3>2
  <2>2. /\ prepared' \subseteq prepared
        /\ executing' \subseteq executing \union prepared
        /\ UNCHANGED <<batchMode, started, pendingToolCalls, ending, terminating>>
    BY <1>8 DEF NextTool, stateVars
  <2>. QED
    BY <2>1, <2>2 DEF BatchType
<1>9. CASE BatchDone
  BY <1>9 DEF BatchDone, Goto
<1>10. CASE Failed
  BY <1>10 DEF Failed, Goto
<1>11. CASE Finish
  BY <1>11 DEF Finish, Goto
<1>12. ASSUME NEW call \in executing \union ending, ToolSettles(call) PROVE BatchType'
  BY <1>12 DEF ToolSettles
<1>13. ASSUME NEW call \in executing \union ending, EndListenersSettle(call) PROVE
     BatchType'
  BY <1>13 DEF EndListenersSettle, Settle, SettleOr
<1>14. ASSUME NEW call \in executing \union ending, OrphanSettles(call) PROVE
     BatchType'
  BY <1>14 DEF OrphanSettles
<1>15. ASSUME NEW call \in executing \union ending, OrphanListenersSettle(call) PROVE
     BatchType'
  BY <1>15 DEF OrphanListenersSettle
<1>16. CASE UNCHANGED vars
  BY <1>16 DEF vars
<1>. QED BY <1>1, <1>2, <1>3, <1>4, <1>5, <1>6, <1>7, <1>8, <1>9, <1>10, <1>11, <1>12,
     <1>13, <1>14, <1>15, <1>16 DEF Next, Application, LoopStep, ToolStep

\* Every step keeps the counters and the record of what was given up well typed.
LEMMA AuxStep ==
    ASSUME TypeInv, [Next]_vars
    PROVE  AuxType'
<1> AuxType /\ QueueType /\ RunType /\ BatchType
  BY DEF TypeInv, TypeOK
<1> USE DEF AuxType, stateVars, queueVars, runVars, batchVars, auxVars
<1>1. CASE ContinueTranscript \/ ContinueSteering \/ ContinueFollowUp \/
     SetSteeringMode \/ SetFollowUpMode \/ Abort
  BY <1>1 DEF ContinueTranscript, BeginRun, ContinueSteering, ContinueFollowUp,
       SetSteeringMode, SetFollowUpMode, Abort
<1>2. CASE Prompt
  BY <1>2 DEF Prompt, BeginRun
<1>3. CASE Steer
  BY <1>3 DEF Steer
<1>4. CASE FollowUp
  BY <1>4 DEF FollowUp
<1>5. CASE ClearSteeringQueue
  <2>1. UserIds(steeringQueue) \subseteq Nat
    BY UserMessageSeq, UserIdTypes DEF QueueType
  <2>. QED
    BY <1>5, <2>1 DEF ClearSteeringQueue, AuxType
<1>6. CASE ClearFollowUpQueue
  <2>1. UserIds(followUpQueue) \subseteq Nat
    BY UserMessageSeq, UserIdTypes DEF QueueType
  <2>. QED
    BY <1>6, <2>1 DEF ClearFollowUpQueue, AuxType
<1>7. CASE Reset
  <2>1. messages \o steeringQueue \o followUpQueue \in Seq(Message)
    BY UserMessageSeq DEF QueueType, RunType
  <2>2. UserIds(messages \o steeringQueue \o followUpQueue) \subseteq Nat
    BY <2>1, UserIdTypes
  <2>. QED
    BY <1>7, <2>2 DEF Reset, AuxType
<1>8. CASE AgentStart \/ PromptStart \/ PromptEnd \/ PollFirst \/ TurnStart \/
     InjectStart \/ InjectEnd \/ StreamStart \/ StreamThrows \/ ToolStart \/
     ToolImmediate \/ ToolPrepared \/ ExecDone \/ ResultStart \/ ResultEnd \/ BatchDone
     \/ TurnEnd \/ PollSteer \/ PollFollowUp \/ AgentEnd \/ FailStart \/ FailEnd \/
     FailTurnEnd \/ FailAgentEnd \/ Finish
  BY <1>8 DEF AgentStart, Settle, SettleOr, PromptStart, EmitMessageStart, PromptEnd,
       EmitMessageEnd, PollFirst, Goto, TurnStart, InjectStart, InjectEnd, StreamStart,
       StreamThrows, ToolStart, ToolImmediate, ToolPrepared, ExecDone, ResultStart,
       ResultEnd, BatchDone, TurnEnd, TurnFailed, PollSteer, PollFollowUp, AgentEnd,
       FailStart, FailEnd, FailTurnEnd, FailAgentEnd, Finish
<1>9. ASSUME NEW stop \in {"stop", "length"} \union FailedStops, NEW n \in Nat,
     StreamEnd(stop, n) PROVE AuxType'
  BY SMTT(20), <1>9 DEF StreamEnd, AuxType
<1>10. CASE NextTool
  <2>1. Elems(todo) \subseteq Nat
    BY ElemTypes DEF BatchType
  <2>2. dropped' \subseteq dropped \union Elems(todo) /\ UNCHANGED <<nextUser, nextCall, discarded>>
    BY <1>10 DEF NextTool
  <2>. QED
    BY <2>1, <2>2 DEF AuxType
<1>11. CASE Failed
  <2>1. UserIds(outbox) \subseteq Nat
    BY UserIdTypes DEF RunType
  <2>2. Elems(started \o todo) \subseteq Nat
    <3>1. started \o todo \in Seq(Nat)
      BY DEF BatchType
    <3>. QED
      BY <3>1, ElemTypes
  <2>3. /\ discarded' = discarded \union UserIds(outbox)
        /\ dropped' \subseteq dropped \union Elems(started \o todo)
        /\ UNCHANGED <<nextUser, nextCall>>
    BY <1>11 DEF Failed
  <2>. QED
    BY <2>1, <2>2, <2>3 DEF AuxType
<1>12. ASSUME NEW call, ToolSettles(call) \/ EndListenersSettle(call) \/
     OrphanSettles(call) \/ OrphanListenersSettle(call) PROVE AuxType'
  BY <1>12 DEF ToolSettles, EndListenersSettle, Settle, SettleOr, OrphanSettles,
       OrphanListenersSettle
<1>13. CASE UNCHANGED vars
  BY <1>13 DEF vars
<1>. QED BY <1>1, <1>2, <1>3, <1>4, <1>5, <1>6, <1>7, <1>8, <1>9, <1>10, <1>11, <1>12,
     <1>13 DEF Next, Application, LoopStep, ToolStep

\* Wherever the run goes next, the list whose first element the code takes there
\* is not empty.
LEMMA PcStep ==
    ASSUME TypeInv, [Next]_vars
    PROVE  pc' \in PCs /\ failures' \in Nat /\ NonEmpty'
<1> pc \in PCs /\ failures \in Nat /\ NonEmpty /\ BatchType
  BY DEF TypeInv, TypeOK
<1> USE DEF PCs, NonEmpty, stateVars, queueVars, runVars, batchVars, auxVars
<1>1. CASE Steer \/ FollowUp \/ ClearSteeringQueue \/ ClearFollowUpQueue \/
     SetSteeringMode \/ SetFollowUpMode \/ Abort \/ Reset
  BY <1>1 DEF Steer, FollowUp, ClearSteeringQueue, ClearFollowUpQueue, SetSteeringMode,
       SetFollowUpMode, Abort, Reset
<1>2. CASE Prompt
  BY <1>2 DEF Prompt, BeginRun
<1>3. CASE ContinueTranscript
  BY <1>3 DEF ContinueTranscript, BeginRun
<1>4. CASE ContinueSteering
  BY <1>4 DEF ContinueSteering, BeginRun
<1>5. CASE ContinueFollowUp
  BY <1>5 DEF ContinueFollowUp, BeginRun
<1>6. CASE AgentStart
  BY <1>6 DEF AgentStart, Settle, SettleOr
<1>7. CASE PromptStart
  BY <1>7 DEF PromptStart, EmitMessageStart, SettleOr
<1>8. CASE PromptEnd
  BY <1>8 DEF PromptEnd, EmitMessageEnd, SettleOr
<1>9. CASE PollFirst
  BY <1>9 DEF PollFirst, Goto
<1>10. CASE TurnStart
  BY <1>10 DEF TurnStart, Settle, SettleOr
<1>11. CASE InjectStart
  BY <1>11 DEF InjectStart, EmitMessageStart, SettleOr
<1>12. CASE InjectEnd
  BY <1>12 DEF InjectEnd, EmitMessageEnd, SettleOr
<1>13. CASE StreamStart
  BY <1>13 DEF StreamStart, Goto
<1>14. CASE StreamThrows
  BY <1>14 DEF StreamThrows
<1>15. ASSUME NEW stop \in {"stop", "length"} \union FailedStops, NEW n \in Nat,
     StreamEnd(stop, n) PROVE pc' \in PCs /\ failures' \in Nat /\ NonEmpty'
  <2>1. n > 0 => [i \in 1..n |-> nextCall + i] # <<>>
    OBVIOUS
  <2>2. /\ pc' \in {"failed", IF n > 0 /\ stop \notin FailedStops THEN "tools" ELSE "turnEnd"}
        /\ failures' \in Nat
    BY <1>15 DEF StreamEnd, Settle, SettleOr
  <2>3. n > 0 /\ stop \notin FailedStops => todo' = [i \in 1..n |-> nextCall + i]
    BY <1>15 DEF StreamEnd
  <2>. QED
    BY <2>1, <2>2, <2>3 DEF PCs, NonEmpty
<1>16. CASE ToolStart
  BY <1>16 DEF ToolStart, Settle, SettleOr
<1>17. CASE ToolImmediate
  <2>1. pc' \in {"failed", "nextTool", "result"} /\ failures' \in Nat
    BY <1>17 DEF ToolImmediate, Settle, SettleOr
  <2>2. pc' = "result" => outbox' = <<ResultMsg(Head(todo))>>
    BY <1>17 DEF ToolImmediate, Settle, SettleOr
  <2>3. started' # <<>>
    BY SMTT(20), <1>17 DEF ToolImmediate, BatchType
  <2>. QED
    BY <2>1, <2>2, <2>3 DEF PCs, NonEmpty
<1>18. CASE ToolPrepared
  BY <1>18 DEF ToolPrepared, Goto
<1>19. CASE NextTool
  BY <1>19 DEF NextTool, Goto
<1>20. CASE ExecDone
  <2>1. Answers(started) # <<>>
    <3>1. started # <<>> /\ started \in Seq(Nat)
      BY <1>20 DEF ExecDone, Goto, NonEmpty, BatchType
    <3>. QED
      BY <3>1, AnswerTypes
  <2>2. pc' = "result" /\ failures' = failures /\ started' = started
    BY <1>20 DEF ExecDone, Goto, batchVars
  <2>3. outbox' # <<>>
    BY <1>20, <2>1 DEF ExecDone
  <2>. QED
    BY <1>20, <2>2, <2>3 DEF PCs, NonEmpty, ExecDone, Goto
<1>21. CASE ResultStart
  BY <1>21 DEF ResultStart, EmitMessageStart, SettleOr
<1>22. CASE ResultEnd
  BY <1>22 DEF ResultEnd, EmitMessageEnd, SettleOr
<1>23. CASE BatchDone
  BY <1>23 DEF BatchDone, Goto
<1>24. CASE TurnEnd
  BY <1>24 DEF TurnEnd, Settle, SettleOr, TurnFailed
<1>25. CASE PollSteer
  BY <1>25 DEF PollSteer, Goto
<1>26. CASE PollFollowUp
  BY <1>26 DEF PollFollowUp, Goto
<1>27. CASE AgentEnd
  BY <1>27 DEF AgentEnd, Settle, SettleOr
<1>28. CASE Failed
  BY <1>28 DEF Failed, Goto
<1>29. CASE FailStart
  BY <1>29 DEF FailStart, EmitMessageStart, SettleOr
<1>30. CASE FailEnd
  BY <1>30 DEF FailEnd, EmitMessageEnd, SettleOr
<1>31. CASE FailTurnEnd
  BY <1>31 DEF FailTurnEnd, SettleOr
<1>32. CASE FailAgentEnd
  BY <1>32 DEF FailAgentEnd, SettleOr
<1>33. CASE Finish
  BY <1>33 DEF Finish, Goto
<1>34. ASSUME NEW call, OrphanSettles(call) \/ OrphanListenersSettle(call) PROVE pc'
     \in PCs /\ failures' \in Nat /\ NonEmpty'
  BY <1>34 DEF OrphanSettles, OrphanListenersSettle
<1>35. ASSUME NEW call \in executing \union ending, ToolSettles(call) PROVE pc' \in PCs
     /\ failures' \in Nat /\ NonEmpty'
  BY <1>35 DEF ToolSettles
<1>36. ASSUME NEW call \in executing \union ending, EndListenersSettle(call) PROVE pc'
     \in PCs /\ failures' \in Nat /\ NonEmpty'
  BY <1>36 DEF EndListenersSettle, Settle, SettleOr
<1>37. CASE UNCHANGED vars
  BY <1>37 DEF vars
<1>. QED BY <1>1, <1>2, <1>3, <1>4, <1>5, <1>6, <1>7, <1>8, <1>9, <1>10, <1>11, <1>12,
     <1>13, <1>14, <1>15, <1>16, <1>17, <1>18, <1>19, <1>20, <1>21, <1>22, <1>23,
     <1>24, <1>25, <1>26, <1>27, <1>28, <1>29, <1>30, <1>31, <1>32, <1>33, <1>34,
     <1>35, <1>36, <1>37 DEF Next, Application, LoopStep, ToolStep

\* Every step keeps the flags of the agent's state Boolean.
LEMMA FlagStep ==
    ASSUME TypeInv, [Next]_vars
    PROVE  FlagType'
<1> FlagType
  BY DEF TypeInv, TypeOK
<1> USE DEF FlagType, stateVars, queueVars, runVars, batchVars, auxVars
<1>1. CASE Application
  <2>1. CASE Prompt
    BY <2>1 DEF Prompt, BeginRun
  <2>2. CASE ContinueTranscript
    BY <2>2 DEF ContinueTranscript, BeginRun
  <2>3. CASE ContinueSteering
    BY <2>3 DEF ContinueSteering, BeginRun
  <2>4. CASE ContinueFollowUp
    BY <2>4 DEF ContinueFollowUp, BeginRun
  <2>5. CASE Steer \/ FollowUp
    BY <2>5 DEF Steer, FollowUp
  <2>6. CASE ClearSteeringQueue \/ ClearFollowUpQueue
    BY <2>6 DEF ClearSteeringQueue, ClearFollowUpQueue
  <2>7. CASE SetSteeringMode \/ SetFollowUpMode
    BY <2>7 DEF SetSteeringMode, SetFollowUpMode
  <2>8. CASE Abort \/ Reset
    BY <2>8 DEF Abort, Reset
  <2>. QED
    BY <1>1, <2>1, <2>2, <2>3, <2>4, <2>5, <2>6, <2>7, <2>8 DEF Application
<1>2. CASE AgentStart \/ TurnStart \/ ToolStart \/ ToolImmediate \/ ToolPrepared
     \/ NextTool \/ ExecDone \/ PollSteer \/ PollFollowUp \/ Failed
  BY <1>2 DEF AgentStart, Settle, SettleOr, TurnStart, Goto, ToolStart, ToolImmediate,
       ToolPrepared, NextTool, ExecDone, PollSteer, PollFollowUp, Failed
<1>2a. CASE PromptStart \/ InjectStart \/ StreamStart \/ ResultStart \/ FailStart
  BY <1>2a DEF PromptStart, InjectStart, ResultStart, FailStart, EmitMessageStart,
       StreamStart, SettleOr, Goto
<1>2b. CASE PromptEnd \/ InjectEnd \/ ResultEnd \/ FailEnd \/ FailAgentEnd
  BY <1>2b DEF PromptEnd, InjectEnd, ResultEnd, FailEnd, EmitMessageEnd, FailAgentEnd,
       SettleOr
<1>3. CASE PollFirst
  BY <1>3 DEF PollFirst, Goto
<1>4. CASE StreamThrows
  BY <1>4 DEF StreamThrows
<1>5. ASSUME NEW stop \in {"stop", "length"} \union FailedStops, NEW n \in Nat,
     StreamEnd(stop, n) PROVE FlagType'
  BY <1>5 DEF StreamEnd, Settle, SettleOr
<1>6. CASE BatchDone
  BY <1>6 DEF BatchDone, Goto
<1>7. CASE TurnEnd
  BY <1>7 DEF TurnEnd, Settle, SettleOr, TurnFailed
<1>8. CASE AgentEnd
  BY <1>8 DEF AgentEnd, Settle, SettleOr
<1>9. CASE FailTurnEnd
  BY <1>9 DEF FailTurnEnd, SettleOr
<1>10. CASE Finish
  BY <1>10 DEF Finish, Goto
<1>11. ASSUME NEW call, ToolSettles(call) \/ EndListenersSettle(call) \/
     OrphanSettles(call) \/ OrphanListenersSettle(call) PROVE FlagType'
  BY <1>11 DEF ToolSettles, EndListenersSettle, Settle, SettleOr, OrphanSettles,
       OrphanListenersSettle
<1>12. CASE UNCHANGED vars
  BY <1>12 DEF vars
<1>. QED BY <1>1, <1>2, <1>2a, <1>2b, <1>3, <1>4, <1>5, <1>6, <1>7, <1>8, <1>9, <1>10,
     <1>11, <1>12
     DEF Next, Application, LoopStep, ToolStep

\* The strengthened type invariant is inductive.
THEOREM TypeNext == TypeInv /\ [Next]_vars => TypeInv'
BY RunStep, QueueStep, BatchStep, AuxStep, PcStep, FlagStep DEF TypeInv, TypeOK

\* The variables have their types, and the code never takes the first element of
\* an empty list, in every behaviour.
THEOREM TypeCorrect == Spec => []TypeOK
<1>1. TypeInv => TypeOK
  BY DEF TypeInv
<1>. QED
  BY TypeInit, TypeNext, <1>1, PTL DEF Spec

(***************************************************************************)
(* The loop's copy of the transcript                                       *)
(***************************************************************************)

\* Why each request carries the whole transcript: what separates the copy from
\* the transcript is, at every point of the run, what the loop has yet to emit
\* (outbox) or, in a batch, the results it will add when the batch is done.
CopyInv ==
    /\ pc \notin {"tools", "prepare", "nextTool", "exec", "result", "resultEnd",
                  "batchDone", "failed"} => started = <<>>
    /\ ~wasReset =>
        /\ pc \in {"start", "prompt", "promptEnd"} => ctx = messages \o outbox
        /\ pc \in {"pollFirst", "turnStart", "inject", "injectEnd", "stream", "streaming",
                   "turnEnd", "pollSteer", "pollFollowUp"} => ctx = messages
        /\ pc \in {"tools", "prepare", "nextTool", "exec"} /\ batchMode = "parallel" =>
               ctx = messages
        /\ pc \in {"tools", "prepare", "nextTool"} /\ batchMode # "parallel" =>
               messages = ctx \o Answers(started)
        /\ pc = "exec" /\ batchMode # "parallel" =>
               Append(messages, ResultMsg(started[Len(started)])) = ctx \o Answers(started)
        /\ pc \in {"result", "resultEnd"} => messages \o outbox = ctx \o Answers(started)
        /\ pc = "batchDone" => messages = ctx \o Answers(started)

\* Moving the head of one list to the end of another keeps their concatenation.
LEMMA MoveHead ==
    ASSUME NEW S, NEW s \in Seq(S), NEW t \in Seq(S), t # <<>>
    PROVE  /\ Append(s, Head(t)) \o Tail(t) = s \o t
           /\ Tail(t) = <<>> => Append(s, Head(t)) = s \o t
<1>1. /\ Head(t) = t[1] /\ Head(t) \in S /\ Tail(t) \in Seq(S) /\ Len(t) \in Nat \ {0}
      /\ Len(Tail(t)) = Len(t) - 1 /\ \A i \in 1..Len(Tail(t)) : Tail(t)[i] = t[i + 1]
  BY HeadTailProperties, EmptySeq
<1> DEFINE a == Append(s, Head(t))
<1>2. /\ a \in Seq(S) /\ Len(a) = Len(s) + 1 /\ Len(s) \in Nat
      /\ \A i \in 1..Len(s) : a[i] = s[i]
      /\ a[Len(s) + 1] = t[1]
  BY <1>1
<1> HIDE DEF a
<1>3. a \o Tail(t) = s \o t
  <2>1. /\ a \o Tail(t) \in Seq(S) /\ s \o t \in Seq(S)
        /\ Len(a \o Tail(t)) = Len(s) + Len(t) /\ Len(s \o t) = Len(s) + Len(t)
    <3>1. a \in Seq(S) /\ Tail(t) \in Seq(S)
      BY <1>1, <1>2
    <3>2. a \o Tail(t) \in Seq(S) /\ Len(a \o Tail(t)) = Len(a) + Len(Tail(t))
      BY <3>1, ConcatProperties
    <3>3. s \o t \in Seq(S) /\ Len(s \o t) = Len(s) + Len(t)
      BY ConcatProperties
    <3>. QED
      BY <1>1, <1>2, <3>2, <3>3
  <2>2. ASSUME NEW i \in 1..(Len(s) + Len(t)) PROVE (a \o Tail(t))[i] = (s \o t)[i]
    <3>1. (a \o Tail(t))[i] = IF i <= Len(s) + 1 THEN a[i] ELSE Tail(t)[i - Len(s) - 1]
      BY <1>1, <1>2, ConcatProperties
    <3>2. (s \o t)[i] = IF i <= Len(s) THEN s[i] ELSE t[i - Len(s)]
      BY ConcatProperties
    <3>. QED
      BY <1>1, <1>2, <3>1, <3>2
  <2>. QED
    BY <2>1, <2>2, SeqEqual
<1>4. Tail(t) = <<>> => a \o Tail(t) = a
  BY <1>2, ConcatEmptySeq
<1>. QED
  BY <1>3, <1>4 DEF a

\* The empty list is neutral for concatenation.
LEMMA EmptyConcat ==
    ASSUME NEW S, NEW s \in Seq(S)
    PROVE  s \o <<>> = s
OBVIOUS

\* Appending to the second of two lists appends to their concatenation.
LEMMA AppendConcat ==
    ASSUME NEW S, NEW s \in Seq(S), NEW t \in Seq(S), NEW x \in S
    PROVE  /\ s \o Append(t, x) = Append(s \o t, x)
           /\ s \o <<x>> = Append(s, x)
OBVIOUS

\* One more call in a batch means one more result at the end of its results.
LEMMA AnswersAppend ==
    ASSUME NEW calls \in Seq(Nat), NEW call \in Nat
    PROVE  /\ Answers(Append(calls, call)) = Append(Answers(calls), ResultMsg(call))
           /\ Answers(<<>>) = <<>>
<1> DEFINE longer == Append(calls, call)
<1>1. /\ longer \in Seq(Nat) /\ Len(longer) = Len(calls) + 1 /\ Len(calls) \in Nat
      /\ \A i \in 1..Len(calls) : longer[i] = calls[i]
      /\ longer[Len(calls) + 1] = call
  OBVIOUS
<1> HIDE DEF longer
<1>2. Answers(longer) = Append(Answers(calls), ResultMsg(call))
  <2> DEFINE a == Answers(longer)
             b == Append(Answers(calls), ResultMsg(call))
  <2>1. /\ a \in Seq(Message) /\ Len(a) = Len(calls) + 1
        /\ \A i \in 1..(Len(calls) + 1) : a[i] = ResultMsg(longer[i])
    BY <1>1, AnswerTypes
  <2>2. ResultMsg(call) \in Message
    BY MessageTypes
  <2>3. /\ b \in Seq(Message) /\ Len(b) = Len(calls) + 1
        /\ \A i \in 1..Len(calls) : b[i] = Answers(calls)[i]
        /\ b[Len(calls) + 1] = ResultMsg(call)
    BY <2>2, AnswerTypes
  <2>4. \A i \in 1..Len(calls) : b[i] = ResultMsg(calls[i])
    BY <2>3, AnswerTypes
  <2> HIDE DEF a, b
  <2>5. ASSUME NEW i \in 1..Len(a) PROVE a[i] = b[i]
    <3>1. a[i] = ResultMsg(longer[i]) /\ (i \in 1..Len(calls) \/ i = Len(calls) + 1)
      BY <1>1, <2>1
    <3>2. CASE i \in 1..Len(calls)
      BY <1>1, <2>4, <3>1, <3>2
    <3>3. CASE i = Len(calls) + 1
      BY <1>1, <2>3, <3>1, <3>3
    <3>. QED
      BY <3>1, <3>2, <3>3
  <2>6. a = b
    BY <2>1, <2>3, <2>5, SeqEqual
  <2>. QED
    BY <2>6 DEF a, b
<1>3. Answers(<<>>) = <<>>
  BY DEF Answers
<1>. QED
  BY <1>2, <1>3 DEF longer

\* A new agent has no run, and so no copy that could differ.
LEMMA CopyInit == Init => CopyInv
BY DEF Init, CopyInv

\* Every step of a run, and every call of the application during it, keeps the
\* relation between the transcript, the loop's copy and what is left to emit.
LEMMA CopyStep ==
    ASSUME TypeInv, CopyInv, [Next]_vars
    PROVE  CopyInv'
<1> /\ messages \in Seq(Message) /\ ctx \in Seq(Message) /\ outbox \in Seq(Message)
    /\ started \in Seq(Nat) /\ todo \in Seq(Nat) /\ NonEmpty /\ pc \in PCs
  BY DEF TypeInv, TypeOK, RunType, BatchType
<1> DEFINE Same == UNCHANGED <<messages, ctx, outbox, started, batchMode, wasReset>>
<1> USE DEF stateVars, queueVars, runVars, batchVars, auxVars
<1>1. CASE Prompt \/ ContinueTranscript \/ ContinueSteering \/ ContinueFollowUp
  <2>1. /\ pc = "idle" /\ pc' = "start" /\ messages' = messages /\ started' = started
        /\ ctx' = messages \o outbox'
    BY <1>1 DEF Prompt, ContinueTranscript, ContinueSteering, ContinueFollowUp, BeginRun
  <2>. QED
    BY <2>1 DEF CopyInv
<1>2. CASE Steer \/ FollowUp \/ ClearSteeringQueue \/ ClearFollowUpQueue
           \/ SetSteeringMode \/ SetFollowUpMode \/ Abort
  <2>1. Same /\ pc' = pc
    BY <1>2 DEF Steer, FollowUp, ClearSteeringQueue, ClearFollowUpQueue, SetSteeringMode,
                SetFollowUpMode, Abort
  <2>. QED
    BY <2>1 DEF CopyInv
<1>3. CASE Reset
  <2>1. pc' = pc /\ wasReset' = (pc # "idle") /\ started' = started
    BY <1>3 DEF Reset
  <2>. QED
    BY <2>1 DEF CopyInv
<1>4. CASE AgentStart
  <2>1. /\ Same /\ pc = "start" /\ messages \o <<>> = messages
        /\ pc' \in {"failed", IF outbox = <<>> THEN "pollFirst" ELSE "prompt"}
    BY <1>4, EmptyConcat DEF AgentStart, Settle, SettleOr
  <2>. QED
    BY <2>1 DEF CopyInv
<1>5. CASE PromptStart \/ InjectStart \/ ResultStart \/ StreamStart \/ TurnStart
           \/ ToolStart
  <2>1. /\ Same
        /\ <<pc, pc'>> \in {<<"prompt", "promptEnd">>, <<"inject", "injectEnd">>,
               <<"result", "resultEnd">>, <<"stream", "streaming">>,
               <<"turnStart", "stream">>, <<"turnStart", "inject">>, <<"tools", "prepare">>}
           \/ pc' = "failed"
    BY <1>5 DEF PromptStart, InjectStart, ResultStart, EmitMessageStart, StreamStart,
                TurnStart, ToolStart, Settle, SettleOr, Goto
  <2>. QED
    BY <2>1 DEF CopyInv
<1>6. CASE PromptEnd
  <2>1. /\ pc = "promptEnd" /\ messages' = Append(messages, Head(outbox))
        /\ outbox' = Tail(outbox) /\ UNCHANGED <<ctx, started, wasReset>>
        /\ pc' \in {"failed", IF Tail(outbox) = <<>> THEN "pollFirst" ELSE "prompt"}
    BY <1>6 DEF PromptEnd, EmitMessageEnd, SettleOr
  <2>2. outbox # <<>>
    BY <2>1 DEF NonEmpty
  <2>. QED
    BY <2>1, <2>2, MoveHead DEF CopyInv
<1>7. CASE InjectEnd
  <2>1. /\ pc = "injectEnd" /\ messages' = Append(messages, Head(outbox))
        /\ ctx' = Append(ctx, Head(outbox)) /\ UNCHANGED <<started, wasReset>>
        /\ pc' \in {"failed", "stream", "inject"}
    BY <1>7 DEF InjectEnd, EmitMessageEnd, SettleOr
  <2>. QED
    BY <2>1 DEF CopyInv
<1>8. CASE PollFirst \/ PollSteer \/ PollFollowUp
  <2>1. /\ pc \in {"pollFirst", "pollSteer", "pollFollowUp"}
        /\ pc' \in {"stream", "inject", "turnStart", "pollFollowUp", "agentEnd"}
        /\ UNCHANGED <<messages, ctx, started, wasReset>>
    BY <1>8 DEF PollFirst, PollSteer, PollFollowUp, Goto
  <2>. QED
    BY <2>1 DEF CopyInv
<1>9. CASE StreamThrows
  BY <1>9 DEF StreamThrows, CopyInv
<1>10. ASSUME NEW stop, NEW n \in Nat, StreamEnd(stop, n)
       PROVE  CopyInv'
  <2> DEFINE message == AssistantMsg(stop, [i \in 1..n |-> nextCall + i])
  <2>1. /\ pc \in {"stream", "streaming"} /\ pc' \in {"failed", "turnEnd", "tools"}
        /\ messages' = Append(messages, message) /\ ctx' = Append(ctx, message)
        /\ UNCHANGED <<started, wasReset>>
    BY <1>10 DEF StreamEnd, Settle, SettleOr
  <2>2. started = <<>> /\ (~wasReset => ctx = messages)
    BY <2>1 DEF CopyInv
  <2>3. ~wasReset => ctx' = messages' /\ ctx' \o Answers(started') = ctx'
    <3>1. ctx' \in Seq(Message)
      BY TypeNext DEF TypeInv, TypeOK, RunType
    <3>. QED
      BY <2>1, <2>2, <3>1, AnswersAppend, EmptyConcat
  <2>. QED
    BY <2>1, <2>2, <2>3 DEF CopyInv
<1>11. ASSUME ToolImmediate \/ ToolPrepared
       PROVE  CopyInv'
  <2> DEFINE call == Head(todo)
             result == ResultMsg(call)
  <2>1. /\ pc = "prepare" /\ started' = Append(started, call) /\ call \in Nat
        /\ UNCHANGED <<messages, ctx, batchMode, wasReset>>
    BY SMTT(20), <1>11 DEF ToolImmediate, ToolPrepared, Goto, NonEmpty
  <2>2. \/ pc' = "failed"
        \/ batchMode = "parallel" /\ pc' = "nextTool"
        \/ batchMode # "parallel" /\ pc' = "result" /\ outbox' = <<result>>
        \/ batchMode # "parallel" /\ pc' = "exec"
    BY <1>11 DEF ToolImmediate, ToolPrepared, Goto, Settle, SettleOr
  <2>3. /\ result \in Message /\ Answers(started) \in Seq(Message)
        /\ Answers(started') = Append(Answers(started), result)
        /\ ctx \o Answers(started') = Append(ctx \o Answers(started), result)
        /\ messages \o <<result>> = Append(messages, result)
        /\ started'[Len(started')] = call
    <3>1. result \in Message /\ Answers(started) \in Seq(Message)
      BY <2>1, MessageTypes, AnswerTypes
    <3>2. Answers(started') = Append(Answers(started), result)
      BY <2>1, AnswersAppend
    <3>3. started'[Len(started')] = call
      BY <2>1
    <3>. QED
      BY SMTT(20), <3>1, <3>2, <3>3, AppendConcat
  <2>. QED
    BY <2>1, <2>2, <2>3 DEF CopyInv
<1>12. CASE NextTool
  <2>1. /\ pc = "nextTool" /\ UNCHANGED <<messages, ctx, started, batchMode, wasReset>>
        /\ pc' \in {"tools", IF batchMode = "parallel" THEN "exec" ELSE "batchDone"}
    BY <1>12 DEF NextTool, Goto
  <2>. QED
    BY <2>1 DEF CopyInv
<1>13. CASE ExecDone
  <2> DEFINE last == ResultMsg(started[Len(started)])
  <2>1. /\ pc = "exec" /\ pc' = "result"
        /\ UNCHANGED <<messages, ctx, started, batchMode, wasReset>>
        /\ outbox' = IF batchMode = "parallel" THEN Answers(started) ELSE <<last>>
    BY <1>13 DEF ExecDone, Goto
  <2>2. messages \o <<last>> = Append(messages, last)
    <3>1. started[Len(started)] \in Nat
      BY <2>1 DEF NonEmpty
    <3>. QED
      BY <3>1, MessageTypes, AppendConcat
  <2>. QED
    BY <2>1, <2>2 DEF CopyInv
<1>14. CASE ResultEnd
  <2>1. /\ pc = "resultEnd" /\ messages' = Append(messages, Head(outbox))
        /\ outbox' = Tail(outbox) /\ UNCHANGED <<ctx, started, batchMode, wasReset>>
        /\ pc' \in {"failed", IF Tail(outbox) # <<>> THEN "result"
                              ELSE IF batchMode = "parallel" THEN "batchDone" ELSE "nextTool"}
    BY <1>14 DEF ResultEnd, EmitMessageEnd, SettleOr
  <2>2. outbox # <<>>
    BY <2>1 DEF NonEmpty
  <2>. QED
    BY <2>1, <2>2, MoveHead DEF CopyInv
<1>15. CASE BatchDone
  BY <1>15 DEF BatchDone, Goto, CopyInv
<1>16. CASE TurnEnd
  BY <1>16 DEF TurnEnd, Settle, SettleOr, CopyInv
<1>17. CASE AgentEnd \/ Failed \/ FailStart \/ FailEnd \/ FailTurnEnd \/ FailAgentEnd
            \/ Finish
  <2>1. /\ pc' \in {"failed", "fail", "failEnd", "failTurnEnd", "failAgentEnd", "finish", "idle"}
        /\ started' = started \/ started' = <<>>
        /\ pc = "failed" => started' = <<>>
        /\ pc \in {"agentEnd", "failed", "fail", "failEnd", "failTurnEnd", "failAgentEnd", "finish"}
    BY <1>17 DEF AgentEnd, Failed, FailStart, FailEnd, FailTurnEnd, FailAgentEnd, Finish,
                 EmitMessageStart, EmitMessageEnd, Settle, SettleOr, Goto
  <2>. QED
    BY <2>1 DEF CopyInv
<1>18. ASSUME NEW call, ToolSettles(call) \/ EndListenersSettle(call)
                        \/ OrphanSettles(call) \/ OrphanListenersSettle(call)
       PROVE  CopyInv'
  <2>1. /\ Same /\ pc' \in {pc, "failed"}
    BY <1>18 DEF ToolSettles, EndListenersSettle, OrphanSettles, OrphanListenersSettle,
                 Settle, SettleOr
  <2>. QED
    BY <2>1 DEF CopyInv
<1>19. CASE UNCHANGED vars
  BY <1>19 DEF vars, CopyInv
<1>. QED
  BY <1>1, <1>2, <1>3, <1>4, <1>5, <1>6, <1>7, <1>8, <1>9, <1>10, <1>11, <1>12, <1>13,
     <1>14, <1>15, <1>16, <1>17, <1>18, <1>19 DEF Next, Application, LoopStep, ToolStep

\* Every request the loop makes carries the whole transcript, however the run got
\* there, unless the agent was reset under it.
THEOREM ContextIsTranscriptHolds == Spec => []ContextIsTranscript
<1>1. Init => TypeInv /\ CopyInv
  BY TypeInit, CopyInit
<1>2. TypeInv /\ CopyInv /\ [Next]_vars => (TypeInv /\ CopyInv)'
  BY TypeNext, CopyStep
<1>3. CopyInv => ContextIsTranscript
  BY DEF CopyInv, ContextIsTranscript
<1>. QED
  BY <1>1, <1>2, <1>3, PTL DEF Spec

(***************************************************************************)
(* What a run reports                                                      *)
(***************************************************************************)

\* The list t ends with the list s.
EndsWith(t, s) == \E before \in Seq(Message) : t = before \o s

\* Why the report is the tail of the transcript: the loop's copy and the report
\* grow together from the prompts on, and a failing run replaces both by the
\* message that says so.
ReportInv ==
    /\ pc \notin {"idle", "failed", "fail", "failEnd", "failTurnEnd", "failAgentEnd", "finish"} =>
           EndsWith(ctx, newMessages)
    /\ pc = "agentEnd" /\ ~wasReset => ctx = messages
    /\ pc \in {"fail", "failEnd"} => newMessages = outbox /\ \E m \in Message : outbox = <<m>>
    /\ pc \in {"failTurnEnd", "failAgentEnd"} /\ ~wasReset => EndsWith(messages, newMessages)

\* A list that ends with another still does when both are continued alike, and
\* then the other is what it has after its beginning.
LEMMA EndsWithGrows ==
    ASSUME NEW t \in Seq(Message), NEW s \in Seq(Message), EndsWith(t, s)
    PROVE  /\ \A more \in Seq(Message) : EndsWith(t \o more, s \o more)
           /\ \A m \in Message : EndsWith(Append(t, m), Append(s, m))
           /\ Len(s) <= Len(t) /\ s = SubSeq(t, Len(t) - Len(s) + 1, Len(t))
<1>1. PICK before \in Seq(Message) : t = before \o s
  BY DEF EndsWith
<1>2. ASSUME NEW more \in Seq(Message)
      PROVE  EndsWith(t \o more, s \o more)
  <2>1. t \o more = before \o (s \o more)
    BY <1>1, ConcatAssociative
  <2>. QED
    BY <2>1 DEF EndsWith
<1>3. ASSUME NEW m \in Message
      PROVE  EndsWith(Append(t, m), Append(s, m))
  <2>1. before \o Append(s, m) = Append(before \o s, m)
    BY AppendConcat
  <2>2. Append(s, m) \in Seq(Message)
    BY AppendProperties
  <2>. QED
    BY <1>1, <2>1, <2>2 DEF EndsWith
<1>4. /\ Len(t) = Len(before) + Len(s) /\ Len(before) \in Nat /\ Len(s) \in Nat
      /\ \A i \in 1..Len(s) : t[Len(before) + i] = s[i] /\ t[Len(before) + i] \in Message
  BY <1>1
<1>5. s = SubSeq(t, Len(before) + 1, Len(before) + Len(s))
  <2> DEFINE u == SubSeq(t, Len(before) + 1, Len(before) + Len(s))
  <2>1. /\ u \in Seq(Message) /\ Len(u) = Len(s)
        /\ \A i \in 1..Len(s) : u[i] = t[Len(before) + i]
    <3>1. \A i \in (Len(before) + 1)..(Len(before) + Len(s)) : t[i] \in Message
      BY <1>4
    <3> DEFINE m == Len(before) + 1
               n == Len(before) + Len(s)
    <3>2. m \in Int /\ n \in Int /\ n - m + 1 = Len(s) /\ \A i \in 1..Len(s) : m + i - 1 = Len(before) + i
      BY <1>4
    <3>3. m <= n \/ Len(s) = 0
      BY <1>4
    <3>4. u = SubSeq(t, m, n)
      OBVIOUS
    <3> HIDE DEF m, n, u
    <3>5. /\ u \in Seq(Message) /\ Len(u) = IF m <= n THEN n - m + 1 ELSE 0
          /\ \A i \in 1..(n - m + 1) : u[i] = t[m + i - 1]
      BY <3>1, <3>2, <3>4, SubSeqProperties DEF m, n
    <3>6. Len(u) = Len(s)
      BY <3>2, <3>3, <3>5, <1>4 DEF m, n
    <3>. QED
      BY <3>2, <3>5, <3>6
  <2> HIDE DEF u
  <2>2. u = s
    BY <1>4, <2>1, SeqEqual
  <2>. QED
    BY <2>2 DEF u
<1>. QED
  BY <1>2, <1>3, <1>4, <1>5

\* Every step keeps the report what it is.
LEMMA ReportStep ==
    ASSUME TypeInv, CopyInv, ReportInv, [Next]_vars
    PROVE  ReportInv'
<1> /\ messages \in Seq(Message) /\ ctx \in Seq(Message) /\ outbox \in Seq(Message)
    /\ newMessages \in Seq(Message) /\ started \in Seq(Nat) /\ todo \in Seq(Nat)
    /\ NonEmpty /\ pc \in PCs
  BY DEF TypeInv, TypeOK, RunType, BatchType
<1> /\ messages' \in Seq(Message) /\ ctx' \in Seq(Message) /\ outbox' \in Seq(Message)
    /\ newMessages' \in Seq(Message)
  BY TypeNext DEF TypeInv, TypeOK, RunType
<1> DEFINE Ended == {"idle", "failed", "fail", "failEnd", "failTurnEnd", "failAgentEnd", "finish"}
<1> USE DEF stateVars, queueVars, runVars, batchVars, auxVars
<1>1. CASE Prompt \/ ContinueTranscript \/ ContinueSteering \/ ContinueFollowUp
  <2>1. pc' = "start" /\ ctx' = messages \o newMessages'
    BY <1>1 DEF Prompt, ContinueTranscript, ContinueSteering, ContinueFollowUp, BeginRun
  <2>. QED
    BY <2>1 DEF ReportInv, EndsWith
<1>2. CASE Steer \/ FollowUp \/ ClearSteeringQueue \/ ClearFollowUpQueue
           \/ SetSteeringMode \/ SetFollowUpMode \/ Abort \/ UNCHANGED vars
  <2>1. UNCHANGED <<pc, messages, ctx, newMessages, outbox, wasReset>>
    BY <1>2 DEF Steer, FollowUp, ClearSteeringQueue, ClearFollowUpQueue, SetSteeringMode,
                SetFollowUpMode, Abort, vars
  <2>. QED
    BY <2>1 DEF ReportInv, EndsWith
<1>3. CASE Reset
  <2>1. UNCHANGED <<pc, ctx, newMessages, outbox>> /\ wasReset' = (pc # "idle")
    BY <1>3 DEF Reset
  <2>. QED
    BY <2>1 DEF ReportInv, EndsWith
<1>4. ASSUME UNCHANGED <<ctx, newMessages>>, pc \notin Ended, pc' # "agentEnd",
             pc' \notin Ended \/ pc' = "failed"
      PROVE  ReportInv'
  BY <1>4 DEF ReportInv, EndsWith
<1>5. CASE AgentStart \/ PromptStart \/ PromptEnd \/ PollFirst \/ TurnStart \/ InjectStart
           \/ StreamStart \/ StreamThrows \/ ToolStart \/ ToolImmediate \/ ToolPrepared
           \/ NextTool \/ ExecDone \/ ResultStart \/ ResultEnd \/ PollSteer
  BY <1>5, <1>4 DEF AgentStart, PromptStart, PromptEnd, PollFirst, TurnStart, InjectStart,
     StreamStart, StreamThrows, ToolStart, ToolImmediate, ToolPrepared, NextTool, ExecDone,
     ResultStart, ResultEnd, PollSteer, EmitMessageStart, EmitMessageEnd, Settle, SettleOr, Goto
<1>6. ASSUME NEW m \in Message, ctx' = Append(ctx, m), newMessages' = Append(newMessages, m),
             pc \notin Ended, pc' # "agentEnd", pc' \notin Ended \/ pc' = "failed"
      PROVE  ReportInv'
  <2>1. EndsWith(ctx, newMessages)
    BY <1>6 DEF ReportInv
  <2>2. EndsWith(ctx', newMessages')
    BY <1>6, <2>1, EndsWithGrows
  <2>. QED
    BY <1>6, <2>2 DEF ReportInv, EndsWith
<1>7. CASE InjectEnd
  <2>1. /\ pc = "injectEnd" /\ pc' \in {"failed", "stream", "inject"}
        /\ ctx' = Append(ctx, Head(outbox)) /\ newMessages' = Append(newMessages, Head(outbox))
        /\ Head(outbox) \in Message
    BY <1>7 DEF InjectEnd, EmitMessageEnd, SettleOr, NonEmpty
  <2>. QED
    BY <2>1, <1>6
<1>8. ASSUME NEW stop \in {"stop", "length"} \union FailedStops, NEW n \in Nat, StreamEnd(stop, n)
      PROVE  ReportInv'
  <2> DEFINE message == AssistantMsg(stop, [i \in 1..n |-> nextCall + i])
  <2>1. /\ pc \in {"stream", "streaming"} /\ pc' \in {"failed", "turnEnd", "tools"}
        /\ ctx' = Append(ctx, message) /\ newMessages' = Append(newMessages, message)
    BY <1>8 DEF StreamEnd, Settle, SettleOr
  <2>2. message \in Message
    <3>1. nextCall \in Nat
      BY DEF TypeInv, TypeOK, AuxType
    <3>. QED
      BY <3>1, MessageTypes
  <2>. QED
    BY <2>1, <2>2, <1>6
<1>9. CASE BatchDone
  <2>1. /\ pc = "batchDone" /\ pc' = "turnEnd"
        /\ ctx' = ctx \o Answers(started) /\ newMessages' = newMessages \o Answers(started)
    BY <1>9 DEF BatchDone, Goto
  <2>2. EndsWith(ctx, newMessages)
    BY <2>1 DEF ReportInv
  <2>3. EndsWith(ctx', newMessages')
    BY <2>1, <2>2, AnswerTypes, EndsWithGrows
  <2>. QED
    BY <2>1, <2>3 DEF ReportInv
<1>10. CASE TurnEnd \/ PollFollowUp
  <2>1. /\ pc \in {"turnEnd", "pollFollowUp"} /\ UNCHANGED <<ctx, newMessages, messages, wasReset>>
        /\ pc' \in {"agentEnd", "pollSteer", "turnStart", "failed"}
    BY <1>10 DEF TurnEnd, PollFollowUp, Settle, SettleOr, Goto
  <2>. QED
    BY <2>1 DEF ReportInv, EndsWith, CopyInv
<1>11. CASE AgentEnd \/ FailAgentEnd \/ Finish
  <2>1. pc' \in {"failed", "finish", "idle"}
    BY <1>11 DEF AgentEnd, FailAgentEnd, Finish, Settle, SettleOr, Goto
  <2>. QED
    BY <2>1 DEF ReportInv
<1>12. CASE Failed
  <2>1. /\ pc' = "fail" /\ newMessages' = outbox'
        /\ outbox' = <<AssistantMsg(IF aborted THEN "aborted" ELSE "error", <<>>)>>
    BY <1>12 DEF Failed, Goto
  <2>2. \A m : outbox' = <<m>> => m \in Message
    OBVIOUS
  <2>. QED
    BY <2>1, <2>2 DEF ReportInv
<1>13. CASE FailStart
  <2>1. pc = "fail" /\ pc' \in {"failEnd", "finish"} /\ UNCHANGED <<outbox, newMessages>>
    BY <1>13 DEF FailStart, EmitMessageStart, SettleOr
  <2>. QED
    BY <2>1 DEF ReportInv
<1>14. CASE FailEnd
  <2>1. /\ pc = "failEnd" /\ messages' = Append(messages, Head(outbox)) /\ UNCHANGED newMessages
        /\ pc' \in {"finish", IF Tail(outbox) = <<>> THEN "failTurnEnd" ELSE "fail"}
    BY <1>14 DEF FailEnd, EmitMessageEnd, SettleOr
  <2>2. PICK m \in Message : outbox = <<m>> /\ newMessages = <<m>>
    BY <2>1 DEF ReportInv
  <2>3. Head(outbox) = m /\ Tail(outbox) = <<>>
    BY <2>2
  <2>4. messages' = messages \o newMessages'
    BY <2>1, <2>2, <2>3, AppendConcat
  <2>. QED
    BY <2>1, <2>3, <2>4 DEF ReportInv, EndsWith
<1>15. CASE FailTurnEnd
  <2>1. /\ pc = "failTurnEnd" /\ pc' \in {"failAgentEnd", "finish"}
        /\ UNCHANGED <<messages, newMessages, wasReset>>
    BY <1>15 DEF FailTurnEnd, SettleOr
  <2>. QED
    BY <2>1 DEF ReportInv, EndsWith
<1>16. ASSUME NEW call, ToolSettles(call) \/ EndListenersSettle(call)
                        \/ OrphanSettles(call) \/ OrphanListenersSettle(call)
       PROVE  ReportInv'
  <2>1. /\ UNCHANGED <<messages, ctx, newMessages, outbox, wasReset>>
        /\ pc' = pc \/ pc' = "failed"
    BY <1>16 DEF ToolSettles, EndListenersSettle, OrphanSettles, OrphanListenersSettle,
                 Settle, SettleOr
  <2>. QED
    BY <2>1 DEF ReportInv, EndsWith
<1>. QED
  BY <1>1, <1>2, <1>3, <1>5, <1>7, <1>8, <1>9, <1>10, <1>11, <1>12, <1>13,
     <1>14, <1>15, <1>16 DEF Next, Application, LoopStep, ToolStep

\* What agent_end reports is the tail of the transcript, also when the run fails.
THEOREM ReportIsTailHolds == Spec => []ReportIsTail
<1>1. Init => TypeInv /\ CopyInv /\ ReportInv
  BY TypeInit, CopyInit DEF Init, ReportInv
<1>2. TypeInv /\ CopyInv /\ ReportInv /\ [Next]_vars => (TypeInv /\ CopyInv /\ ReportInv)'
  BY TypeNext, CopyStep, ReportStep
<1>3. TypeInv /\ ReportInv => ReportIsTail
  <2>1. ASSUME TypeInv, ReportInv, pc \in {"agentEnd", "failAgentEnd"}, ~wasReset
        PROVE  EndsWith(messages, newMessages)
    BY <2>1 DEF ReportInv, EndsWith
  <2>. QED
    BY <2>1, EndsWithGrows DEF ReportIsTail, TypeInv, TypeOK, RunType
<1>. QED
  BY <1>1, <1>2, <1>3, PTL DEF Spec

BatchPcs == {"tools", "prepare", "nextTool", "exec", "result", "resultEnd", "batchDone"}
InBatch == Elems(started) \union Elems(todo)
Running == prepared \union executing \union ending

(***************************************************************************)
(* Lists of calls                                                          *)
(***************************************************************************)

\* The elements of the lists that the steps build.
LEMMA ElemsAppend ==
    ASSUME NEW S, NEW s \in Seq(S), NEW x \in S
    PROVE  Elems(Append(s, x)) = Elems(s) \union {x}
<1>1. /\ DOMAIN Append(s, x) = 1..(Len(s) + 1) /\ DOMAIN s = 1..Len(s) /\ Len(s) \in Nat
      /\ Append(s, x)[Len(s) + 1] = x /\ \A i \in 1..Len(s) : Append(s, x)[i] = s[i]
  OBVIOUS
<1>. QED
  BY <1>1 DEF Elems

LEMMA ElemsConcat ==
    ASSUME NEW S, NEW s \in Seq(S), NEW t \in Seq(S)
    PROVE  Elems(s \o t) = Elems(s) \union Elems(t)
<1>1. /\ Len(s) \in Nat /\ Len(t) \in Nat /\ DOMAIN s = 1..Len(s) /\ DOMAIN t = 1..Len(t)
      /\ DOMAIN (s \o t) = 1..(Len(s) + Len(t))
      /\ \A i \in 1..Len(s) : (s \o t)[i] = s[i]
      /\ \A i \in 1..Len(t) : (s \o t)[Len(s) + i] = t[i]
  OBVIOUS
<1>2. \A i \in 1..(Len(s) + Len(t)) : i \in 1..Len(s) \/ \E j \in 1..Len(t) : i = Len(s) + j
  <2>1. ASSUME NEW i \in 1..(Len(s) + Len(t)), i \notin 1..Len(s)
        PROVE  i - Len(s) \in 1..Len(t) /\ i = Len(s) + (i - Len(s))
    BY <1>1, <2>1
  <2>. QED
    BY <2>1
<1>3. \A i \in 1..Len(s) : i \in 1..(Len(s) + Len(t))
  BY <1>1
<1>4. \A i \in 1..Len(t) : Len(s) + i \in 1..(Len(s) + Len(t))
  BY <1>1
<1>5. Elems(s \o t) \subseteq Elems(s) \union Elems(t)
  <2>1. ASSUME NEW i \in 1..(Len(s) + Len(t))
        PROVE  (s \o t)[i] \in Elems(s) \union Elems(t)
    <3>1. CASE i \in 1..Len(s)
      BY <1>1, <3>1 DEF Elems
    <3>2. ASSUME NEW j \in 1..Len(t), i = Len(s) + j
          PROVE  (s \o t)[i] \in Elems(t)
      BY <1>1, <3>2 DEF Elems
    <3>. QED
      BY <1>2, <3>1, <3>2
  <2>. QED
    BY <1>1, <2>1 DEF Elems
<1>6. Elems(s) \subseteq Elems(s \o t) /\ Elems(t) \subseteq Elems(s \o t)
  BY <1>1, <1>3, <1>4 DEF Elems
<1>. QED
  BY <1>5, <1>6

LEMMA ElemsHead ==
    ASSUME NEW S, NEW t \in Seq(S), t # <<>>
    PROVE  /\ Head(t) \in S /\ Tail(t) \in Seq(S) /\ Head(t) \in Elems(t)
           /\ Elems(t) = {Head(t)} \union Elems(Tail(t))
<1>1. /\ Head(t) = t[1] /\ Len(t) \in Nat \ {0} /\ DOMAIN t = 1..Len(t)
      /\ Head(t) \in S /\ Tail(t) \in Seq(S) /\ Len(Tail(t)) = Len(t) - 1
      /\ DOMAIN Tail(t) = 1..(Len(t) - 1)
      /\ \A i \in 1..(Len(t) - 1) : Tail(t)[i] = t[i + 1]
  BY HeadTailProperties, EmptySeq
<1>2. 1 \in 1..Len(t) /\ \A i \in 1..(Len(t) - 1) : i + 1 \in 1..Len(t)
  BY <1>1
<1>3. ASSUME NEW i \in 1..Len(t), i # 1
      PROVE  i - 1 \in 1..(Len(t) - 1) /\ Tail(t)[i - 1] = t[i]
  <2>1. i - 1 \in 1..(Len(t) - 1) /\ (i - 1) + 1 = i
    BY <1>1, <1>3
  <2>. QED
    BY <1>1, <2>1
<1>4. ASSUME NEW y \in Elems(t), y # Head(t)
      PROVE  y \in Elems(Tail(t))
  <2>1. PICK i \in 1..Len(t) : y = t[i]
    BY <1>1 DEF Elems
  <2>2. i - 1 \in 1..(Len(t) - 1) /\ Tail(t)[i - 1] = y
    BY <1>1, <1>3, <1>4, <2>1
  <2>. QED
    BY <1>1, <2>2 DEF Elems
<1>5. Head(t) \in Elems(t) /\ Elems(Tail(t)) \subseteq Elems(t)
  BY <1>1, <1>2 DEF Elems
<1>. QED
  BY <1>1, <1>4, <1>5

LEMMA ElemsFew == Elems(<<>>) = {} /\ \A x : Elems(<<x>>) = {x}
BY DEF Elems

\* The calls of a batch are numbered in their order.
Increasing(s) == \A i, j \in 1..Len(s) : i < j => s[i] < s[j]

\* Of a list that is split in two, what is left of the first call in the second part
\* is smaller than it, and what is right of it is larger.
LEMMA IncreasingSplit ==
    ASSUME NEW s \in Seq(Nat), NEW t \in Seq(Nat), Increasing(s \o t)
    PROVE  /\ \A x \in Elems(s), y \in Elems(t) : x < y
           /\ Increasing(s) /\ Increasing(t) /\ Increasing(s \o <<>>)
           /\ t # <<>> => /\ Head(t) \notin Elems(s) /\ Head(t) \notin Elems(Tail(t))
                          /\ \A y \in Elems(Tail(t)) : Head(t) < y
                          /\ Increasing(Append(s, Head(t)) \o Tail(t))
<1>1. /\ Len(s) \in Nat /\ Len(t) \in Nat /\ DOMAIN s = 1..Len(s) /\ DOMAIN t = 1..Len(t)
      /\ Len(s \o t) = Len(s) + Len(t)
      /\ \A i \in 1..Len(s) : (s \o t)[i] = s[i] /\ i \in 1..Len(s \o t) /\ s[i] \in Nat
      /\ \A i \in 1..Len(t) : /\ (s \o t)[Len(s) + i] = t[i] /\ Len(s) + i \in 1..Len(s \o t)
                              /\ t[i] \in Nat
  OBVIOUS
<1>2. Increasing(s) /\ Increasing(t)
  <2>1. ASSUME NEW i \in 1..Len(s), NEW j \in 1..Len(s), i < j
        PROVE  s[i] < s[j]
    <3>1. (s \o t)[i] < (s \o t)[j]
      BY <1>1, <2>1 DEF Increasing
    <3>. QED
      BY <1>1, <3>1
  <2>2. ASSUME NEW i \in 1..Len(t), NEW j \in 1..Len(t), i < j
        PROVE  t[i] < t[j]
    <3>1. Len(s) + i < Len(s) + j
      BY <1>1, <2>2
    <3>2. (s \o t)[Len(s) + i] < (s \o t)[Len(s) + j]
      BY <1>1, <3>1 DEF Increasing
    <3>. QED
      BY <1>1, <3>2
  <2>. QED
    BY <2>1, <2>2 DEF Increasing
<1>3. \A x \in Elems(s), y \in Elems(t) : x < y
  <2>1. ASSUME NEW i \in 1..Len(s), NEW j \in 1..Len(t)
        PROVE  s[i] < t[j]
    <3>1. i < Len(s) + j
      BY <1>1
    <3>2. (s \o t)[i] < (s \o t)[Len(s) + j]
      BY <1>1, <3>1 DEF Increasing
    <3>. QED
      BY <1>1, <3>2
  <2>. QED
    BY <1>1, <2>1 DEF Elems
<1>4. Increasing(s \o <<>>)
  BY <1>2, EmptyConcat
<1>5. ASSUME t # <<>>
      PROVE  /\ Head(t) \notin Elems(s) /\ Head(t) \notin Elems(Tail(t))
             /\ \A y \in Elems(Tail(t)) : Head(t) < y
             /\ Increasing(Append(s, Head(t)) \o Tail(t))
  <2>1. Head(t) \in Elems(t) /\ Head(t) \in Nat /\ Tail(t) \in Seq(Nat)
    BY <1>5, ElemsHead
  <2>2. Head(t) \notin Elems(s)
    BY <1>3, <2>1
  <2>3. Increasing(Append(s, Head(t)) \o Tail(t))
    BY <1>5, MoveHead
  <2>4. \A y \in Elems(Tail(t)) : Head(t) < y
    <3>1. /\ Head(t) = t[1] /\ Len(Tail(t)) = Len(t) - 1 /\ DOMAIN Tail(t) = 1..(Len(t) - 1)
          /\ \A i \in 1..(Len(t) - 1) : Tail(t)[i] = t[i + 1] /\ i + 1 \in 1..Len(t) /\ 1 < i + 1
      BY <1>1, <1>5, HeadTailProperties, EmptySeq
    <3>2. \A i \in 1..(Len(t) - 1) : t[1] < t[i + 1]
      BY <1>1, <1>2, <3>1 DEF Increasing
    <3>. QED
      BY <3>1, <3>2 DEF Elems
  <2>5. Head(t) \notin Elems(Tail(t))
    BY <2>1, <2>4
  <2>. QED
    BY <2>2, <2>3, <2>4, <2>5
<1>. QED
  BY <1>2, <1>3, <1>4, <1>5

(***************************************************************************)
(* Which calls are executed, and which are reported as pending             *)
(***************************************************************************)

\* A call runs only after it was announced; calls that are still to come do not run,
\* and nobody runs any more when the results are reported.
RunningInv ==
    /\ pc \notin BatchPcs \union {"failed"} => started = <<>> /\ todo = <<>>
    /\ pc = "batchDone" \/ (pc \in {"exec", "result", "resultEnd"} /\ batchMode = "parallel")
       => todo = <<>>
    /\ Increasing(started \o todo)
    /\ InBatch \union Running \subseteq 1..nextCall
    /\ prepared \subseteq Elems(started)
    /\ prepared # {} => batchMode = "parallel" /\ pc \in {"tools", "prepare", "nextTool", "failed"}
    /\ Running \intersect Elems(todo) = {}
    /\ pc \notin {"exec", "failed"} => executing \intersect Elems(started) = {}

\* What is pending is announced, prepared or runs.
PendingInv ==
    /\ pc \in {"tools", "nextTool"} => pendingToolCalls \subseteq prepared
    /\ pc = "prepare" => pendingToolCalls \subseteq prepared \union {Head(todo)}
    /\ pc = "exec" => pendingToolCalls \subseteq executing \intersect Elems(started)
    /\ pc \notin {"tools", "nextTool", "prepare", "exec", "failed", "fail", "failEnd", "failTurnEnd",
                  "failAgentEnd", "finish"} => pendingToolCalls = {}

\* The calls of a message that was cut off, failed or was aborted do not run, and
\* are not to.
CutOff(m) == m.role = "assistant" /\ m.stop # "stop"
TruncatedInv ==
    \A m \in Elems(messages) \union Elems(outbox) :
        /\ m.role = "assistant" => Elems(m.calls) \subseteq 1..nextCall
        /\ CutOff(m) => Elems(m.calls) \intersect Running = {}
        /\ CutOff(m) /\ batchMode # "truncated" => Elems(m.calls) \intersect Elems(todo) = {}

ToolInv == RunningInv /\ PendingInv /\ TruncatedInv

\* A new agent runs nothing.
LEMMA ToolInit == Init => ToolInv
<1> SUFFICES ASSUME Init PROVE ToolInv
  OBVIOUS
<1>1. Elems(<<>>) = {}
  BY ElemsFew
<1>2. Increasing(<<>> \o <<>>)
  BY DEF Increasing
<1>. QED
  BY <1>1, <1>2 DEF Init, ToolInv, RunningInv, PendingInv, TruncatedInv, InBatch, Running, BatchPcs

\* A step that leaves the batch alone, at a place of the same kind.
LEMMA RunningKept ==
    ASSUME RunningInv, UNCHANGED <<todo, started, prepared, executing, batchMode, nextCall>>,
           ending' \subseteq ending \union executing,
           pc' \notin BatchPcs \union {"failed"} => pc \notin BatchPcs \union {"failed"},
           pc' \in {"exec", "result", "resultEnd", "batchDone"} =>
               todo = <<>> \/ (batchMode # "parallel" /\ pc' # "batchDone"),
           prepared # {} => pc' \in {"tools", "prepare", "nextTool", "failed"},
           pc' \notin {"exec", "failed"} => executing \intersect Elems(started) = {}
    PROVE  RunningInv'
<1>1. Running' \subseteq Running /\ InBatch' = InBatch
  BY DEF Running, InBatch
<1>. QED
  BY <1>1 DEF RunningInv

\* Every step keeps the books of the batch.
LEMMA RunningStep ==
    ASSUME TypeInv, RunningInv, [Next]_vars
    PROVE  RunningInv'
<1> /\ started \in Seq(Nat) /\ todo \in Seq(Nat) /\ NonEmpty /\ pc \in PCs /\ nextCall \in Nat
    /\ Elems(<<>>) = {}
  BY ElemsFew DEF TypeInv, TypeOK, BatchType, AuxType
<1> USE DEF stateVars, queueVars, runVars, batchVars, auxVars
<1>1. CASE Application \/ UNCHANGED vars
  <2>1. /\ UNCHANGED <<batchVars, nextCall>>
        /\ pc' = pc \/ (pc = "idle" /\ pc' = "start")
    BY <1>1 DEF Application, Prompt, ContinueTranscript, ContinueSteering, ContinueFollowUp,
       BeginRun, Steer, FollowUp, ClearSteeringQueue, ClearFollowUpQueue, SetSteeringMode,
       SetFollowUpMode, Abort, Reset, vars
  <2>. QED
    BY <2>1, RunningKept DEF RunningInv, BatchPcs
<1>2. CASE AgentStart \/ PromptStart \/ PromptEnd \/ PollFirst \/ TurnStart \/ InjectStart
           \/ InjectEnd \/ StreamStart \/ StreamThrows \/ TurnEnd \/ PollSteer \/ PollFollowUp
           \/ AgentEnd \/ FailStart \/ FailEnd \/ FailTurnEnd \/ FailAgentEnd \/ Finish
  <2>1. /\ UNCHANGED <<batchVars, nextCall>>
        /\ pc \notin BatchPcs \union {"failed"} /\ pc' \notin BatchPcs
    BY <1>2 DEF AgentStart, PromptStart, PromptEnd, PollFirst, TurnStart, InjectStart, InjectEnd,
       StreamStart, StreamThrows, TurnEnd, PollSteer, PollFollowUp, AgentEnd, FailStart, FailEnd,
       FailTurnEnd, FailAgentEnd, Finish, EmitMessageStart, EmitMessageEnd, Settle, SettleOr,
       Goto, BatchPcs
  <2>. QED
    BY <2>1, RunningKept DEF RunningInv, BatchPcs
<1>3. CASE ToolStart \/ ExecDone \/ ResultStart \/ ResultEnd
  <2>1. /\ UNCHANGED <<batchVars, nextCall>>
        /\ \/ pc = "tools" /\ pc' \in {"prepare", "failed"}
           \/ pc = "exec" /\ pc' = "result" /\ executing \intersect Elems(started) = {}
           \/ pc = "result" /\ pc' \in {"resultEnd", "failed"}
           \/ pc = "resultEnd" /\ pc' \in {"result", "failed", IF batchMode = "parallel"
                                           THEN "batchDone" ELSE "nextTool"}
    BY <1>3 DEF ToolStart, ExecDone, ResultStart, ResultEnd, EmitMessageStart, EmitMessageEnd,
       Settle, SettleOr, Goto
  <2>. QED
    BY <2>1, RunningKept DEF RunningInv, BatchPcs
<1>4. ASSUME NEW stop, NEW n \in Nat, StreamEnd(stop, n)
      PROVE  RunningInv'
  <2> DEFINE calls == [i \in 1..n |-> nextCall + i]
  <2>1. /\ pc \in {"stream", "streaming"}
        /\ todo' = IF n > 0 /\ stop \notin FailedStops THEN calls ELSE <<>>
        /\ pc' \in {"failed", IF n > 0 /\ stop \notin FailedStops THEN "tools" ELSE "turnEnd"}
        /\ nextCall' = nextCall + n
        /\ UNCHANGED <<started, prepared, executing, ending>>
    BY <1>4 DEF StreamEnd, Settle, SettleOr
  <2>2. started = <<>> /\ prepared = {}
    BY <2>1 DEF RunningInv, BatchPcs
  <2>3. /\ calls \in Seq(Nat) /\ Increasing(calls)
        /\ \A c \in Elems(calls) : c \in 1..(nextCall + n) /\ c \notin 1..nextCall
    <3>1. nextCall \in Nat
      OBVIOUS
    <3>2. Len(calls) = n /\ DOMAIN calls = 1..n /\ calls \in Seq(Nat) /\ \A i \in 1..n : calls[i] = nextCall + i
      BY <3>1
    <3>. HIDE DEF calls
    <3>3. Increasing(calls)
      BY <3>1, <3>2 DEF Increasing
    <3>4. \A c \in Elems(calls) : \E i \in 1..n : c = nextCall + i
      BY <3>2 DEF Elems
    <3>. QED
      BY <3>1, <3>2, <3>3, <3>4
  <2>6. Increasing(<<>>) /\ Elems(<<>>) = {}
    BY ElemsFew DEF Increasing
  <2> HIDE DEF calls
  <2>4. <<>> \o calls = calls /\ <<>> \o <<>> = <<>>
    BY <2>3, ConcatEmptySeq
  <2>5. 1..nextCall \subseteq 1..(nextCall + n)
    OBVIOUS
  <2>. QED
    BY <2>1, <2>2, <2>3, <2>4, <2>5, <2>6 DEF RunningInv, BatchPcs, InBatch, Running
<1>5. CASE ToolImmediate \/ ToolPrepared
  <2> DEFINE call == Head(todo)
  <2>1. /\ pc = "prepare" /\ started' = Append(started, call) /\ todo' = Tail(todo)
        /\ UNCHANGED <<ending, nextCall, batchMode>>
        /\ \/ UNCHANGED <<prepared, executing>> /\ pc' # "exec"
           \/ batchMode = "parallel" /\ prepared' = prepared \union {call} /\ UNCHANGED executing
              /\ pc' = "nextTool"
           \/ batchMode # "parallel" /\ executing' = executing \union {call} /\ UNCHANGED prepared
              /\ pc' = "exec"
        /\ pc' \in {"failed", IF batchMode = "parallel" THEN "nextTool" ELSE "result",
                    IF batchMode = "parallel" THEN "nextTool" ELSE "exec"}
    BY <1>5 DEF ToolImmediate, ToolPrepared, Goto, Settle, SettleOr
  <2>2. /\ call \in Nat /\ call \in Elems(todo) /\ Elems(todo) = {call} \union Elems(todo')
        /\ Elems(started') = Elems(started) \union {call}
        /\ call \notin Elems(todo') /\ Increasing(started' \o todo')
    BY SMTT(20), <2>1, ElemsHead, ElemsAppend, IncreasingSplit DEF NonEmpty, RunningInv
  <2> HIDE DEF call
  <2>. QED
    BY <2>1, <2>2 DEF RunningInv, BatchPcs, InBatch, Running
<1>6. CASE NextTool
  <2>1. CASE UNCHANGED <<todo, prepared, executing>>
    <3>1. pc = "nextTool" /\ UNCHANGED <<started, ending, batchMode, nextCall>>
          /\ (pc' = "tools" \/ (todo' = <<>> /\ executing' = executing \union prepared
                                /\ prepared' = {} /\ pc' \in {"exec", "batchDone"}
                                /\ (pc' = "exec" <=> batchMode = "parallel")))
      BY <1>6 DEF NextTool, Goto
    <3>2. Increasing(started \o <<>>)
      BY IncreasingSplit DEF RunningInv
    <3>. QED
      BY <2>1, <3>1, <3>2 DEF RunningInv, BatchPcs, InBatch, Running
  <2>2. CASE ~UNCHANGED <<todo, prepared, executing>>
    <3>1. /\ pc = "nextTool" /\ UNCHANGED <<started, ending, batchMode, nextCall>>
          /\ todo' = <<>> /\ executing' = executing \union prepared /\ prepared' = {}
          /\ pc' = IF batchMode = "parallel" THEN "exec" ELSE "batchDone"
      BY <1>6, <2>2 DEF NextTool, Goto
    <3>2. Increasing(started \o <<>>)
      BY IncreasingSplit DEF RunningInv
    <3>. QED
      BY <3>1, <3>2 DEF RunningInv, BatchPcs, InBatch, Running
  <2>. QED
    BY <2>1, <2>2
<1>7. CASE BatchDone \/ Failed
  <2>1. /\ started' = <<>> /\ todo' = <<>> /\ prepared' = {}
        /\ UNCHANGED <<executing, ending, nextCall>> /\ pc' \in {"turnEnd", "fail"}
    BY <1>7 DEF BatchDone, Failed, Goto, RunningInv
  <2>2. Increasing(<<>> \o <<>>)
    BY DEF Increasing
  <2>. QED
    BY <2>1, <2>2 DEF RunningInv, BatchPcs, InBatch, Running
<1>8. ASSUME NEW call, ToolSettles(call) \/ OrphanSettles(call)
      PROVE  RunningInv'
  <2>1. /\ UNCHANGED <<todo, started, prepared, batchMode, nextCall>>
        /\ executing' = executing \ {call} /\ ending' \subseteq ending \union {call}
        /\ call \in executing /\ pc' \in {pc, "failed"}
    BY <1>8 DEF ToolSettles, OrphanSettles
  <2>. QED
    BY <2>1 DEF RunningInv, BatchPcs, InBatch, Running
<1>9. ASSUME NEW call, EndListenersSettle(call) \/ OrphanListenersSettle(call)
      PROVE  RunningInv'
  <2>1. /\ UNCHANGED <<todo, started, prepared, executing, batchMode, nextCall>>
        /\ ending' \subseteq ending /\ pc' \in {pc, "failed"}
    BY <1>9 DEF EndListenersSettle, OrphanListenersSettle, Settle, SettleOr
  <2>. QED
    BY <2>1 DEF RunningInv, BatchPcs, InBatch, Running
<1>. QED
  BY <1>1, <1>2, <1>3, <1>4, <1>5, <1>6, <1>7, <1>8, <1>9 DEF Next, LoopStep, ToolStep

\* Every step keeps what is reported as pending in line with what runs.
LEMMA PendingStep ==
    ASSUME TypeInv, RunningInv, PendingInv, [Next]_vars
    PROVE  PendingInv'
<1> started \in Seq(Nat) /\ todo \in Seq(Nat) /\ NonEmpty /\ pc \in PCs
  BY DEF TypeInv, TypeOK, BatchType
<1> USE DEF stateVars, queueVars, runVars, batchVars, auxVars
<1>1. CASE Prompt \/ ContinueTranscript \/ ContinueSteering \/ ContinueFollowUp \/ Steer
           \/ FollowUp \/ ClearSteeringQueue \/ ClearFollowUpQueue \/ SetSteeringMode
           \/ SetFollowUpMode \/ Abort \/ UNCHANGED vars
  <2>1. /\ UNCHANGED <<batchVars, pendingToolCalls>>
        /\ pc' = pc \/ (pc = "idle" /\ pc' = "start")
    BY <1>1 DEF Prompt, ContinueTranscript, ContinueSteering, ContinueFollowUp, BeginRun, Steer,
       FollowUp, ClearSteeringQueue, ClearFollowUpQueue, SetSteeringMode, SetFollowUpMode,
       Abort, vars
  <2>. QED
    BY <2>1 DEF PendingInv
<1>2. CASE Reset \/ Finish
  <2>1. pendingToolCalls' = {}
    BY <1>2 DEF Reset, Finish
  <2>. QED
    BY <2>1 DEF PendingInv
<1>3. CASE AgentStart \/ PromptStart \/ PromptEnd \/ PollFirst \/ TurnStart \/ InjectStart
           \/ InjectEnd \/ StreamStart \/ StreamThrows \/ ResultStart \/ ResultEnd \/ BatchDone
           \/ TurnEnd \/ PollSteer \/ PollFollowUp
  <2>1. /\ UNCHANGED pendingToolCalls /\ pc' \notin {"prepare", "exec", "tools"}
        /\ pc \notin {"tools", "nextTool", "prepare", "exec", "failed", "fail", "failEnd",
                      "failTurnEnd", "failAgentEnd", "finish"}
    BY <1>3 DEF AgentStart, PromptStart, PromptEnd, PollFirst, TurnStart, InjectStart, InjectEnd,
       StreamStart, StreamThrows, ResultStart, ResultEnd, BatchDone, TurnEnd, PollSteer,
       PollFollowUp, EmitMessageStart, EmitMessageEnd, Settle, SettleOr, Goto
  <2>. QED
    BY <2>1 DEF PendingInv
<1>4. ASSUME NEW stop, NEW n, StreamEnd(stop, n)
      PROVE  PendingInv'
  BY <1>4 DEF StreamEnd, Settle, SettleOr, PendingInv
<1>5. CASE AgentEnd \/ Failed \/ FailStart \/ FailEnd \/ FailTurnEnd \/ FailAgentEnd
  <2>1. pc' \in {"failed", "fail", "failEnd", "failTurnEnd", "failAgentEnd", "finish"}
    BY <1>5 DEF AgentEnd, Failed, FailStart, FailEnd, FailTurnEnd, FailAgentEnd,
       EmitMessageStart, EmitMessageEnd, Settle, SettleOr, Goto
  <2>. QED
    BY <2>1 DEF PendingInv
<1>6. CASE ToolStart
  <2>1. /\ pc = "tools" /\ pc' \in {"prepare", "failed"} /\ UNCHANGED <<prepared, todo>>
        /\ pendingToolCalls' = pendingToolCalls \union {Head(todo)}
    BY <1>6 DEF ToolStart, Settle, SettleOr
  <2>. QED
    BY <2>1 DEF PendingInv
<1>7. CASE ToolImmediate
  <2>1. /\ pc = "prepare" /\ pendingToolCalls' = pendingToolCalls \ {Head(todo)}
        /\ pc' \in {"failed", IF batchMode = "parallel" THEN "nextTool" ELSE "result"}
        /\ UNCHANGED prepared
    BY <1>7 DEF ToolImmediate, Settle, SettleOr
  <2>. QED
    BY <2>1 DEF PendingInv, RunningInv
<1>8. CASE ToolPrepared
  <2> DEFINE call == Head(todo)
  <2>1. /\ pc = "prepare" /\ UNCHANGED pendingToolCalls /\ started' = Append(started, call)
        /\ \/ batchMode = "parallel" /\ pc' = "nextTool" /\ prepared' = prepared \union {call}
           \/ batchMode # "parallel" /\ pc' = "exec" /\ executing' = executing \union {call}
    BY <1>8 DEF ToolPrepared, Goto
  <2>2. Elems(started') = Elems(started) \union {call}
    BY <2>1, ElemsHead, ElemsAppend DEF NonEmpty
  <2>. QED
    BY <2>1, <2>2 DEF PendingInv, RunningInv
<1>9. CASE NextTool
  <2>1. /\ pc = "nextTool" /\ UNCHANGED <<pendingToolCalls, started>>
        /\ \/ pc' = "tools" /\ UNCHANGED prepared
           \/ executing' = executing \union prepared
              /\ pc' = IF batchMode = "parallel" THEN "exec" ELSE "batchDone"
    BY <1>9 DEF NextTool, Goto
  <2>. QED
    BY <2>1 DEF PendingInv, RunningInv
<1>10. CASE ExecDone
  <2>1. /\ pc = "exec" /\ pc' = "result" /\ UNCHANGED pendingToolCalls
        /\ executing \intersect Elems(started) = {}
    BY <1>10 DEF ExecDone, Goto
  <2>. QED
    BY <2>1 DEF PendingInv
<1>11. ASSUME NEW call, ToolSettles(call)
       PROVE  PendingInv'
  <2>1. /\ call \in executing \intersect Elems(started) /\ executing' = executing \ {call}
        /\ UNCHANGED <<started, todo, prepared>>
        /\ pc' = "failed" \/ (pc' = pc /\ pendingToolCalls' = pendingToolCalls \ {call})
    BY <1>11 DEF ToolSettles
  <2>. QED
    BY <2>1 DEF PendingInv
<1>12. ASSUME NEW call, OrphanSettles(call)
       PROVE  PendingInv'
  <2>1. /\ call \notin Elems(started) /\ executing' = executing \ {call}
        /\ UNCHANGED <<pc, started, todo, prepared>>
        /\ pendingToolCalls' = pendingToolCalls \ {call}
    BY <1>12 DEF OrphanSettles
  <2>. QED
    BY <2>1 DEF PendingInv
<1>13. ASSUME NEW call, EndListenersSettle(call) \/ OrphanListenersSettle(call)
       PROVE  PendingInv'
  <2>1. /\ UNCHANGED <<started, todo, prepared, executing, pendingToolCalls>>
        /\ pc' \in {pc, "failed"}
    BY <1>13 DEF EndListenersSettle, OrphanListenersSettle, Settle, SettleOr
  <2>. QED
    BY <2>1 DEF PendingInv
<1>. QED
  BY <1>1, <1>2, <1>3, <1>4, <1>5, <1>6, <1>7, <1>8, <1>9, <1>10, <1>11, <1>12, <1>13
     DEF Next, Application, LoopStep, ToolStep

\* A step that runs no call and announces none, and that brings no message with calls.
LEMMA TruncatedKept ==
    ASSUME TruncatedInv, nextCall' = nextCall, Running' \subseteq Running,
           Elems(todo') = {} \/ (Elems(todo') \subseteq Elems(todo) /\ batchMode' = batchMode),
           \A m \in Elems(messages') \union Elems(outbox') :
               \/ m \in Elems(messages) \union Elems(outbox)
               \/ m.role # "assistant" \/ Elems(m.calls) = {}
    PROVE  TruncatedInv'
BY DEF TruncatedInv, CutOff

\* A step that emits the first message of the outbox.
LEMMA EmitElems ==
    ASSUME TypeInv, outbox # <<>>, messages' = Append(messages, Head(outbox)), outbox' = Tail(outbox)
    PROVE  Elems(messages') \union Elems(outbox') = Elems(messages) \union Elems(outbox)
<1>1. messages \in Seq(Message) /\ outbox \in Seq(Message)
  BY DEF TypeInv, TypeOK, RunType
<1>2. Elems(outbox) = {Head(outbox)} \union Elems(Tail(outbox)) /\ Head(outbox) \in Message
  BY <1>1, ElemsHead
<1>3. Elems(messages') = Elems(messages) \union {Head(outbox)}
  BY <1>1, <1>2, ElemsAppend
<1>. QED
  BY <1>2, <1>3

\* Every step keeps the calls of messages that were cut off from running.
LEMMA TruncatedStep ==
    ASSUME TypeInv, RunningInv, TruncatedInv, [Next]_vars
    PROVE  TruncatedInv'
<1> /\ started \in Seq(Nat) /\ todo \in Seq(Nat) /\ NonEmpty /\ pc \in PCs /\ nextCall \in Nat
    /\ messages \in Seq(Message) /\ outbox \in Seq(Message)
    /\ steeringQueue \in Seq(UserMessages) /\ followUpQueue \in Seq(UserMessages)
    /\ Elems(<<>>) = {}
  BY ElemsFew DEF TypeInv, TypeOK, BatchType, AuxType, RunType, QueueType
<1> USE DEF stateVars, queueVars, runVars, batchVars, auxVars
<1>0. /\ \A m \in UserMessages : m.role # "assistant"
      /\ \A c : ResultMsg(c).role # "assistant"
  BY DEF UserMessages, ResultMsg
<1>1. ASSUME UNCHANGED <<batchVars, nextCall, messages>>,
             \A m \in Elems(outbox') : m \in Elems(outbox) \/ m.role # "assistant"
      PROVE  TruncatedInv'
  BY <1>1, TruncatedKept DEF Running
<1>2. CASE UNCHANGED vars \/ ContinueTranscript
  <2>1. UNCHANGED <<batchVars, nextCall, messages>> /\ (outbox' = outbox \/ outbox' = <<>>)
    BY <1>2 DEF ContinueTranscript, BeginRun, vars
  <2>. QED
    BY <1>1, <2>1
<1>3. CASE Prompt
  <2>1. /\ UNCHANGED <<batchVars, nextCall, messages>>
        /\ outbox' = <<UserMsg(nextUser + 1, "prompt")>>
    BY <1>3 DEF Prompt, BeginRun
  <2>2. UserMsg(nextUser + 1, "prompt").role # "assistant"
    BY DEF UserMsg
  <2> DEFINE prompt == UserMsg(nextUser + 1, "prompt")
  <2> HIDE DEF prompt
  <2>3. Elems(<<prompt>>) = {prompt}
    BY ElemsFew
  <2>4. \A m \in Elems(outbox') : m.role # "assistant"
    BY <2>1, <2>2, <2>3 DEF prompt
  <2>. QED
    BY <1>1, <2>1, <2>4
<1>4. CASE ContinueSteering \/ ContinueFollowUp \/ PollFirst \/ PollSteer \/ PollFollowUp
  <2>1. /\ UNCHANGED <<batchVars, nextCall, messages>>
        /\ \/ outbox' = <<>>
           \/ outbox' = Drained(steeringQueue, steeringMode)
           \/ outbox' = Drained(followUpQueue, followUpMode)
    BY <1>4 DEF ContinueSteering, ContinueFollowUp, BeginRun, PollFirst, PollSteer, PollFollowUp, Goto
  <2>2. Elems(outbox') \subseteq UserMessages
    <3>1. \A s \in Seq(UserMessages) : Elems(s) \subseteq UserMessages
      BY ElemTypes
    <3>. QED
      BY <2>1, <3>1, DrainTypes
  <2>. QED
    BY <1>0, <1>1, <2>1, <2>2
<1>5. CASE Steer \/ FollowUp \/ ClearSteeringQueue \/ ClearFollowUpQueue \/ SetSteeringMode
           \/ SetFollowUpMode \/ Abort \/ AgentStart \/ PromptStart \/ TurnStart \/ InjectStart
           \/ StreamStart \/ StreamThrows \/ ToolStart \/ ResultStart \/ TurnEnd \/ AgentEnd
           \/ FailStart \/ FailTurnEnd \/ FailAgentEnd
  <2>1. UNCHANGED <<batchVars, nextCall, messages, outbox>>
    BY <1>5 DEF Steer, FollowUp, ClearSteeringQueue, ClearFollowUpQueue, SetSteeringMode,
       SetFollowUpMode, Abort, AgentStart, PromptStart, TurnStart, InjectStart, StreamStart,
       StreamThrows, ToolStart, ResultStart, TurnEnd, AgentEnd, FailStart, FailTurnEnd,
       FailAgentEnd, EmitMessageStart, Settle, SettleOr, Goto
  <2>. QED
    BY <1>1, <2>1
<1>6. CASE Reset \/ Finish
  <2>1. /\ UNCHANGED <<batchVars, nextCall>> /\ (messages' = messages \/ messages' = <<>>)
        /\ outbox' = outbox \/ outbox' = <<>>
    BY <1>6 DEF Reset, Finish
  <2>. QED
    BY <2>1, TruncatedKept DEF Running
<1>7. CASE PromptEnd \/ InjectEnd \/ ResultEnd \/ FailEnd
  <2>1. /\ messages' = Append(messages, Head(outbox)) /\ outbox' = Tail(outbox)
        /\ UNCHANGED <<batchVars, nextCall>> /\ outbox # <<>>
    BY <1>7 DEF PromptEnd, InjectEnd, ResultEnd, FailEnd, EmitMessageEnd, NonEmpty
  <2>2. Elems(messages') \union Elems(outbox') = Elems(messages) \union Elems(outbox)
    BY <2>1, EmitElems
  <2>. QED
    BY <2>1, <2>2, TruncatedKept DEF Running
<1>8. ASSUME NEW stop \in {"stop", "length"} \union FailedStops, NEW n \in Nat, StreamEnd(stop, n)
      PROVE  TruncatedInv'
  <2> DEFINE calls == [i \in 1..n |-> nextCall + i]
             message == AssistantMsg(stop, calls)
  <2>1. /\ pc \in {"stream", "streaming"} /\ nextCall' = nextCall + n
        /\ todo' = IF n > 0 /\ stop \notin FailedStops THEN calls ELSE <<>>
        /\ messages' = Append(messages, message)
        /\ UNCHANGED <<outbox, prepared, executing, ending>>
        /\ stop # "stop" => todo' = <<>> \/ batchMode' = "truncated"
    BY <1>8 DEF StreamEnd, Settle, SettleOr
  <2>2. /\ message \in Message /\ message.calls = calls
        /\ message.stop = stop /\ message.role = "assistant"
    <3>1. calls \in Seq(Nat)
      OBVIOUS
    <3>. HIDE DEF calls
    <3>2. message \in Message
      BY <3>1, MessageTypes
    <3>. QED
      BY <3>2 DEF AssistantMsg
  <2>3. /\ Elems(<<>>) = {} /\ 1..nextCall \subseteq 1..(nextCall + n)
        /\ \A c \in Elems(calls) : c \in 1..(nextCall + n) /\ c \notin 1..nextCall
    BY DEF Elems
  <2> HIDE DEF message, calls
  <2>4. Elems(messages') = Elems(messages) \union {message}
    BY <2>1, <2>2, ElemsAppend
  <2>5. Running' = Running /\ Running \subseteq 1..nextCall
    BY <2>1 DEF Running, RunningInv
  <2>6. ASSUME NEW m \in Elems(messages) \union Elems(outbox), m.role = "assistant"
        PROVE  /\ Elems(m.calls) \subseteq 1..nextCall'
               /\ CutOff(m) => Elems(m.calls) \intersect Running' = {}
               /\ Elems(m.calls) \intersect Elems(todo') = {}
    BY <2>1, <2>3, <2>5, <2>6 DEF TruncatedInv
  <2>7. /\ Elems(message.calls) \subseteq 1..nextCall'
        /\ Elems(message.calls) \intersect Running' = {}
        /\ CutOff(message) => Elems(todo') = {} \/ batchMode' = "truncated"
    BY <2>1, <2>2, <2>3, <2>5 DEF CutOff
  <2>. QED
    BY <2>1, <2>2, <2>3, <2>4, <2>6, <2>7 DEF TruncatedInv, CutOff
<1>9. CASE ToolImmediate \/ ToolPrepared
  <2> DEFINE call == Head(todo)
  <2>1. /\ todo' = Tail(todo) /\ UNCHANGED <<nextCall, messages, batchMode, ending>> /\ todo # <<>>
        /\ \/ outbox' = outbox \/ outbox' = <<ResultMsg(call)>>
        /\ \/ UNCHANGED <<prepared, executing>>
           \/ prepared' = prepared \union {call} /\ executing' = executing /\ batchMode # "truncated"
           \/ executing' = executing \union {call} /\ prepared' = prepared /\ batchMode # "truncated"
    BY <1>9 DEF ToolImmediate, ToolPrepared, Goto, NonEmpty
  <2>2. Elems(todo) = {call} \union Elems(todo')
    BY <2>1, ElemsHead
  <2>3. \A m \in Elems(outbox') : m \in Elems(outbox) \/ m.role # "assistant"
    BY <1>0, <2>1, ElemsFew
  <2>4. Running' \subseteq Running \union (IF batchMode # "truncated" THEN {call} ELSE {})
    BY <2>1 DEF Running
  <2>. QED
    BY <2>1, <2>2, <2>3, <2>4 DEF TruncatedInv, CutOff
<1>10. CASE NextTool
  <2>1. /\ UNCHANGED <<nextCall, messages, outbox, batchMode, ending>>
        /\ todo' = todo \/ todo' = <<>>
        /\ prepared' \subseteq prepared /\ executing' \subseteq executing \union prepared
    BY <1>10 DEF NextTool, Goto
  <2>. QED
    BY <2>1, TruncatedKept DEF Running
<1>11. CASE ExecDone
  <2>1. /\ UNCHANGED <<batchVars, nextCall, messages>> /\ started # <<>>
        /\ outbox' = Answers(started) \/ outbox' = <<ResultMsg(started[Len(started)])>>
    BY <1>11 DEF ExecDone, Goto, NonEmpty
  <2>2. \A m \in Elems(outbox') : \E c : m = ResultMsg(c)
    <3>1. \A m \in Elems(Answers(started)) : \E c : m = ResultMsg(c)
      BY DEF Elems, Answers
    <3>. QED
      BY <2>1, <3>1, ElemsFew
  <2>. QED
    BY <1>0, <1>1, <2>1, <2>2
<1>12. CASE BatchDone \/ Failed
  <2>1. /\ UNCHANGED <<nextCall, messages, executing, ending>> /\ prepared' \subseteq prepared
        /\ todo' = <<>>
        /\ \/ outbox' = outbox
           \/ outbox' = <<AssistantMsg(IF aborted THEN "aborted" ELSE "error", <<>>)>>
    BY <1>12 DEF BatchDone, Failed, Goto, RunningInv
  <2>2. \A m \in Elems(outbox') : m \in Elems(outbox) \/ Elems(m.calls) = {}
    BY <2>1, ElemsFew DEF AssistantMsg
  <2>. QED
    BY <2>1, <2>2, TruncatedKept DEF Running
<1>13. ASSUME NEW call, ToolSettles(call) \/ EndListenersSettle(call)
                        \/ OrphanSettles(call) \/ OrphanListenersSettle(call)
       PROVE  TruncatedInv'
  <2>1. /\ UNCHANGED <<nextCall, messages, outbox, todo, prepared, batchMode>>
        /\ Running' \subseteq Running
    BY <1>13 DEF ToolSettles, EndListenersSettle, OrphanSettles, OrphanListenersSettle, Running
  <2>. QED
    BY <2>1, TruncatedKept
<1>. QED
  BY <1>2, <1>3, <1>4, <1>5, <1>6, <1>7, <1>8, <1>9, <1>10, <1>11, <1>12, <1>13
     DEF Next, Application, LoopStep, ToolStep

\* The tools of a turn are done with when it ends, and no call of a message that
\* was cut off, failed or was aborted is ever executed.
THEOREM ToolsAccountedForHolds == Spec => []ToolsAccountedFor
<1>1. Init => TypeInv /\ ToolInv
  BY TypeInit, ToolInit
<1>2. TypeInv /\ ToolInv /\ [Next]_vars => (TypeInv /\ ToolInv)'
  BY TypeNext, RunningStep, PendingStep, TruncatedStep DEF ToolInv
<1>3. ToolInv => ToolsAccountedFor
  BY DEF ToolInv, PendingInv, TruncatedInv, CutOff, Running, ToolsAccountedFor, NoPendingAtTurnEnd,
     TruncatedNeverRun
<1>. QED
  BY <1>1, <1>2, <1>3, PTL DEF Spec

(***************************************************************************)
(* Lists whose messages of one origin are in the order of their numbers    *)
(***************************************************************************)

\* Where a message comes from: a channel of the application, or a tool call.
From(m, via) == IF via = "toolResult" THEN m.role = "toolResult" ELSE m.role = "user" /\ m.via = via

Number(m) == IF m.role = "toolResult" THEN m.call ELSE m.id

Ordered(s, via) ==
    \A i, j \in 1..Len(s) : i < j /\ From(s[i], via) /\ From(s[j], via) => Number(s[i]) < Number(s[j])

Before(s, t, via) ==
    \A m \in Elems(s), n \in Elems(t) : From(m, via) /\ From(n, via) => Number(m) < Number(n)

\* Three lists that, one after the other, are in order.
InLine(s, t, queue, via) ==
    /\ Ordered(s, via) /\ Ordered(t, via) /\ Ordered(queue, via)
    /\ Before(s, t, via) /\ Before(s, queue, via) /\ Before(t, queue, via)

\* Two lists in order, the first before the second, make one in order.
LEMMA OrderedConcat ==
    ASSUME NEW s \in Seq(Message), NEW t \in Seq(Message), NEW via,
           Ordered(s, via), Ordered(t, via), Before(s, t, via)
    PROVE  Ordered(s \o t, via)
<1> DEFINE both == s \o t
<1>1. /\ Len(s) \in Nat /\ Len(t) \in Nat /\ Len(both) = Len(s) + Len(t)
      /\ \A i \in 1..Len(s) : both[i] = s[i] /\ s[i] \in Elems(s)
      /\ \A i \in 1..Len(t) : both[Len(s) + i] = t[i] /\ t[i] \in Elems(t)
  BY DEF Elems
<1>2. \A i \in 1..Len(both) : i \notin 1..Len(s) =>
          /\ i - Len(s) \in 1..Len(t) /\ both[i] = t[i - Len(s)]
  <2>1. ASSUME NEW i \in 1..Len(both), i \notin 1..Len(s)
        PROVE  i - Len(s) \in 1..Len(t) /\ i = Len(s) + (i - Len(s))
    BY <1>1, <2>1
  <2>. QED
    BY <1>1, <2>1
<1> HIDE DEF both
<1>3. ASSUME NEW i \in 1..Len(both), NEW j \in 1..Len(both), i < j,
             From(both[i], via), From(both[j], via)
      PROVE  Number(both[i]) < Number(both[j])
  <2>1. CASE j \in 1..Len(s)
    <3>1. i \in 1..Len(s)
      BY <1>1, <1>3, <2>1
    <3>. QED
      BY <1>1, <1>3, <2>1, <3>1 DEF Ordered
  <2>2. CASE i \in 1..Len(s) /\ j \notin 1..Len(s)
    BY <1>1, <1>2, <1>3, <2>2 DEF Before
  <2>3. CASE i \notin 1..Len(s)
    <3>1. /\ j \notin 1..Len(s) /\ i - Len(s) < j - Len(s)
          /\ i - Len(s) \in 1..Len(t) /\ j - Len(s) \in 1..Len(t)
      BY <1>1, <1>2, <1>3, <2>3
    <3>. QED
      BY <1>2, <1>3, <2>3, <3>1 DEF Ordered
  <2>. QED
    BY <2>1, <2>2, <2>3
<1>. QED
  BY <1>3 DEF Ordered, both

\* Lists without a message of the origin, and lists of one, are in order.
LEMMA OrderedFew ==
    ASSUME NEW via
    PROVE  /\ Ordered(<<>>, via)
           /\ \A m : Ordered(<<m>>, via)
           /\ \A s \in Seq(Message) : (\A m \in Elems(s) : ~From(m, via)) => Ordered(s, via)
<1>1. Ordered(<<>>, via)
  BY DEF Ordered
<1>2. ASSUME NEW m
      PROVE  Ordered(<<m>>, via)
  BY DEF Ordered
<1>3. ASSUME NEW s \in Seq(Message), \A m \in Elems(s) : ~From(m, via)
      PROVE  Ordered(s, via)
  <2>1. \A i \in 1..Len(s) : s[i] \in Elems(s)
    BY DEF Elems
  <2>. QED
    BY <1>3, <2>1 DEF Ordered
<1>. QED
  BY <1>1, <1>2, <1>3

\* The head of a list in order is before its tail, which is in order.
LEMMA OrderedTail ==
    ASSUME NEW s \in Seq(Message), NEW via, Ordered(s, via), s # <<>>
    PROVE  Ordered(Tail(s), via) /\ Before(<<Head(s)>>, Tail(s), via)
<1>1. /\ Len(s) \in Nat \ {0} /\ Len(Tail(s)) = Len(s) - 1 /\ Head(s) = s[1]
      /\ DOMAIN Tail(s) = 1..(Len(s) - 1)
      /\ \A i \in 1..(Len(s) - 1) : Tail(s)[i] = s[i + 1] /\ i + 1 \in 1..Len(s) /\ 1 < i + 1
  BY HeadTailProperties, EmptySeq
<1>2. Elems(<<Head(s)>>) = {s[1]} /\ Elems(Tail(s)) = {s[i + 1] : i \in 1..(Len(s) - 1)}
  BY <1>1, ElemsFew DEF Elems
<1>3. Before(<<Head(s)>>, Tail(s), via)
  BY <1>1, <1>2 DEF Before, Ordered
<1>4. ASSUME NEW i \in 1..(Len(s) - 1), NEW j \in 1..(Len(s) - 1), i < j,
             From(Tail(s)[i], via), From(Tail(s)[j], via)
      PROVE  Number(Tail(s)[i]) < Number(Tail(s)[j])
  <2>1. i + 1 < j + 1
    BY <1>4
  <2>. QED
    BY <1>1, <1>4, <2>1 DEF Ordered
<1>. QED
  BY <1>1, <1>3, <1>4 DEF Ordered

\* One message after the others of its origin.
LEMMA OrderedAppend ==
    ASSUME NEW s \in Seq(Message), NEW m \in Message, NEW via, Ordered(s, via),
           Before(s, <<m>>, via)
    PROVE  Ordered(Append(s, m), via)
<1>1. Append(s, m) = s \o <<m>> /\ <<m>> \in Seq(Message)
  OBVIOUS
<1>. QED
  BY <1>1, OrderedConcat, OrderedFew

\* Lists in line make one list in order.
LEMMA InLineConcat ==
    ASSUME NEW s \in Seq(Message), NEW t \in Seq(Message), NEW queue \in Seq(Message), NEW via,
           InLine(s, t, queue, via)
    PROVE  Ordered(s \o t \o queue, via)
<1>1. Ordered(s \o t, via) /\ s \o t \in Seq(Message)
  BY OrderedConcat DEF InLine
<1>2. Elems(s \o t) = Elems(s) \union Elems(t)
  BY ElemsConcat
<1>3. Before(s \o t, queue, via)
  BY <1>2 DEF InLine, Before
<1>. QED
  BY <1>1, <1>3, OrderedConcat DEF InLine

\* Emitting the next message keeps the line.
LEMMA InLineEmit ==
    ASSUME NEW s \in Seq(Message), NEW t \in Seq(Message), NEW queue \in Seq(Message), NEW via,
           InLine(s, t, queue, via), t # <<>>
    PROVE  InLine(Append(s, Head(t)), Tail(t), queue, via)
<1>1. /\ Head(t) \in Message /\ Tail(t) \in Seq(Message)
      /\ Elems(t) = {Head(t)} \union Elems(Tail(t))
  BY ElemsHead
<1>2. /\ Elems(Append(s, Head(t))) = Elems(s) \union {Head(t)}
      /\ Elems(<<Head(t)>>) = {Head(t)}
  BY <1>1, ElemsAppend, ElemsFew
<1>3. Ordered(Tail(t), via) /\ Before(<<Head(t)>>, Tail(t), via)
  BY OrderedTail DEF InLine
<1>4. Before(s, <<Head(t)>>, via)
  BY <1>1, <1>2 DEF InLine, Before
<1>5. Ordered(Append(s, Head(t)), via)
  BY <1>1, <1>4, OrderedAppend DEF InLine
<1>6. /\ Before(Append(s, Head(t)), Tail(t), via) /\ Before(Append(s, Head(t)), queue, via)
      /\ Before(Tail(t), queue, via)
  BY <1>1, <1>2, <1>3 DEF InLine, Before
<1>. QED
  BY <1>3, <1>5, <1>6 DEF InLine

\* What is pending may be exchanged for what is of another origin.
LEMMA InLinePending ==
    ASSUME NEW s \in Seq(Message), NEW t \in Seq(Message), NEW queue \in Seq(Message), NEW via,
           NEW other \in Seq(Message), InLine(s, t, queue, via),
           \A m \in Elems(other) : ~From(m, via)
    PROVE  InLine(s, other, queue, via)
<1>1. Ordered(other, via)
  BY OrderedFew
<1>. QED
  BY <1>1 DEF InLine, Before

(***************************************************************************)
(* How each call is answered in the transcript                             *)
(***************************************************************************)

\* The calls of the batch whose results do not yet wait to be emitted.
Upcoming ==
    IF pc \notin BatchPcs THEN {}
    ELSE IF batchMode = "parallel" /\ pc \in {"tools", "prepare", "nextTool", "exec"} THEN InBatch
    ELSE IF pc = "exec" THEN {started[Len(started)]} \union Elems(todo)
    ELSE Elems(todo)

\* The calls of the batch that will be answered, or given up with the run.
Owed ==
    IF pc = "failed" THEN InBatch
    ELSE Upcoming \union {c \in InBatch : ResultMsg(c) \in Elems(outbox)}

\* What waits to be emitted: results of the batch, or nothing that calls or answers.
WaitingInv ==
    /\ pc \in {"result", "resultEnd"} =>
           \A m \in Elems(outbox) : m.role = "toolResult" /\ m.call \in Elems(started)
    /\ pc \notin {"result", "resultEnd", "failed"} =>
           \A m \in Elems(outbox) : /\ m.role # "toolResult"
                                    /\ m.role = "assistant" => m.calls = <<>>

\* The results are in the order of the calls, and before those that are still to come.
ResultInv ==
    /\ InLine(messages, outbox, <<>>, "toolResult")
    /\ \A m \in Elems(messages) \union Elems(outbox) : m.role = "toolResult" =>
           m.call \in 1..nextCall /\ \A c \in Upcoming : m.call < c

\* What is known of a call c of the message at place i: while its batch goes on only
\* results follow the message, and nothing but results is between it and c's result.
Settled(i, c) ==
    /\ Unanswered(messages[i], c) => ResultMsg(c) \notin Elems(messages) /\ c \notin InBatch
    /\ Unanswered(messages[i], c) \/ ResultMsg(c) \in Elems(messages) \/ c \in Owed
    /\ c \in InBatch => \A j \in (i + 1)..Len(messages) : messages[j].role = "toolResult"
    /\ \A k \in 1..Len(messages) : messages[k] = ResultMsg(c) =>
           i < k /\ \A j \in (i + 1)..k : messages[j].role = "toolResult"

AnswerInv ==
    /\ dropped \subseteq 1..nextCall
    /\ \A i \in 1..Len(messages) : messages[i].role = "assistant" =>
           \A c \in Elems(messages[i].calls) : Settled(i, c)

\* A result is known by its call.
LEMMA ResultIs ==
    /\ \A m \in Message : m.role = "toolResult" => m = ResultMsg(m.call)
    /\ \A c : ResultMsg(c).role = "toolResult" /\ ResultMsg(c).call = c
BY DEF Message, UserMessages, AssistantMessages, ResultMessages, ResultMsg

\* The results to come are those of the batch.
LEMMA UpcomingIsBatch ==
    ASSUME TypeInv
    PROVE  Upcoming \subseteq InBatch /\ Owed \subseteq InBatch
<1>1. pc = "exec" => started[Len(started)] \in Elems(started)
  BY EmptySeq DEF TypeInv, TypeOK, NonEmpty, BatchType, Elems
<1>. QED
  BY <1>1 DEF Upcoming, Owed, InBatch

\* Outside a batch there is nothing to come.
LEMMA NoBatch ==
    ASSUME RunningInv, pc \notin BatchPcs \union {"failed"}
    PROVE  InBatch = {}
BY ElemsFew DEF RunningInv, InBatch

\* The transcript is left alone, and calls of the batch are given up at most.
LEMMA AnswerKept ==
    ASSUME TypeInv, AnswerInv, messages' = messages, nextCall' = nextCall,
           InBatch' \subseteq InBatch, dropped \subseteq dropped', dropped' \subseteq 1..nextCall,
           \A c \in dropped' \ dropped : c \notin InBatch' /\ ResultMsg(c) \notin Elems(messages),
           \A c \in Owed : c \in Owed' \/ c \in dropped' \/ ResultMsg(c) \in Elems(messages)
    PROVE  AnswerInv'
<1>1. ASSUME NEW i \in 1..Len(messages), NEW c, Settled(i, c)
      PROVE  Settled(i, c)'
  <2>1. Unanswered(messages[i], c)' => ResultMsg(c) \notin Elems(messages) /\ c \notin InBatch'
    BY <1>1 DEF Settled, Unanswered
  <2>2. Unanswered(messages[i], c)' \/ ResultMsg(c) \in Elems(messages) \/ c \in Owed'
    BY <1>1 DEF Settled, Unanswered
  <2>. QED
    BY <1>1, <2>1, <2>2 DEF Settled, Unanswered
<1>. QED
  BY <1>1 DEF AnswerInv

\* What waits is left alone or is no result, and no result is added to those to come.
LEMMA ResultsKept ==
    ASSUME TypeInv, TypeInv', ResultInv, messages' = messages, nextCall' = nextCall,
           Upcoming' \subseteq Upcoming,
           outbox' = outbox \/ \A m \in Elems(outbox') : m.role # "toolResult"
    PROVE  ResultInv'
<1>1. /\ messages \in Seq(Message) /\ outbox \in Seq(Message) /\ outbox' \in Seq(Message)
      /\ <<>> \in Seq(Message)
  BY DEF TypeInv, TypeOK, RunType
<1>2. InLine(messages', outbox', <<>>, "toolResult")
  BY <1>1, InLinePending DEF ResultInv, From
<1>. QED
  BY <1>2 DEF ResultInv

\* A result of the batch is emitted.
LEMMA AnswerEmitted ==
    ASSUME TypeInv, AnswerInv, NEW call \in InBatch, messages' = Append(messages, ResultMsg(call)),
           UNCHANGED <<InBatch, dropped, nextCall>>, Owed \subseteq Owed' \union {call}, call \in Nat
    PROVE  AnswerInv'
<1> DEFINE result == ResultMsg(call)
<1>1. /\ messages \in Seq(Message) /\ result \in Message
  BY MessageTypes DEF TypeInv, TypeOK, RunType
<1>2. result.role = "toolResult" /\ \A c : ResultMsg(c) = result <=> c = call
  BY ResultIs
<1> HIDE DEF result
<1>3. /\ Len(messages') = Len(messages) + 1 /\ Len(messages) \in Nat
      /\ \A i \in 1..Len(messages) : messages'[i] = messages[i] /\ i \in 1..(Len(messages) + 1)
      /\ messages'[Len(messages) + 1] = result
      /\ Elems(messages') = Elems(messages) \union {result}
  BY <1>1, ElemsAppend DEF result
<1>4. ASSUME NEW i \in 1..Len(messages'), messages'[i].role = "assistant"
      PROVE  i \in 1..Len(messages) /\ messages[i] = messages'[i]
  BY <1>2, <1>3, <1>4
<1>5. ASSUME NEW i \in 1..Len(messages), NEW c, Settled(i, c)
      PROVE  Settled(i, c)'
  <2>1. c = call => c \in InBatch /\ ~Unanswered(messages[i], c)
    BY <1>5 DEF Settled
  <2>2. /\ Unanswered(messages[i], c) => ResultMsg(c) \notin Elems(messages') /\ c \notin InBatch'
        /\ Unanswered(messages[i], c) \/ ResultMsg(c) \in Elems(messages') \/ c \in Owed'
    BY <1>2, <1>3, <1>5, <2>1 DEF Settled
  <2>5. Unanswered(messages[i], c)' <=> Unanswered(messages[i], c)
    BY <1>3 DEF Unanswered
  <2>3. c \in InBatch => \A j \in (i + 1)..Len(messages') : messages'[j].role = "toolResult"
    BY <1>2, <1>3, <1>5 DEF Settled, Unanswered
  <2>4. ASSUME NEW k \in 1..Len(messages'), messages'[k] = ResultMsg(c)
        PROVE  i < k /\ \A j \in (i + 1)..k : messages'[j].role = "toolResult"
    <3>1. CASE k \in 1..Len(messages)
      BY <1>3, <1>5, <2>4, <3>1 DEF Settled, Unanswered
    <3>2. CASE k = Len(messages) + 1
      BY <1>2, <1>3, <2>1, <2>3, <2>4, <3>2
    <3>. QED
      BY <1>3, <3>1, <3>2
  <2>. QED
    BY <2>2, <2>3, <2>4, <2>5 DEF Settled
<1>. QED
  BY <1>4, <1>5 DEF AnswerInv

\* A message is emitted outside a batch; the calls it makes, if any, are new.
LEMMA OtherEmitted ==
    ASSUME TypeInv, TruncatedInv, ResultInv, AnswerInv, NEW m \in Message,
           messages' = Append(messages, m), m.role # "toolResult", InBatch = {},
           dropped' = dropped, 1..nextCall \subseteq 1..nextCall', InBatch' \intersect 1..nextCall = {},
           m.role = "assistant" => \A c \in Elems(m.calls) :
               /\ c \notin 1..nextCall
               /\ IF m.stop \in FailedStops THEN c \notin InBatch' ELSE c \in Owed'
    PROVE  AnswerInv'
<1>1. /\ messages \in Seq(Message)
  BY DEF TypeInv, TypeOK, RunType
<1>2. /\ Len(messages') = Len(messages) + 1 /\ Len(messages) \in Nat
      /\ \A i \in 1..Len(messages) : /\ messages'[i] = messages[i] /\ messages[i] \in Elems(messages)
                                     /\ i \in 1..(Len(messages) + 1)
      /\ messages'[Len(messages) + 1] = m
      /\ Elems(messages') = Elems(messages) \union {m}
  BY <1>1, ElemsAppend DEF Elems
<1>3. \A c : ResultMsg(c) # m /\ ResultMsg(c).role = "toolResult" /\ ResultMsg(c).call = c
  BY ResultIs
<1>4. \A k \in 1..Len(messages') : \A c : messages'[k] = ResultMsg(c) => k \in 1..Len(messages)
  BY <1>2, <1>3
<1>5. ASSUME NEW i \in 1..Len(messages), messages[i].role = "assistant",
             NEW c \in Elems(messages[i].calls)
      PROVE  Settled(i, c)'
  <2>1. Settled(i, c) /\ c \in 1..nextCall
    BY <1>2, <1>5 DEF AnswerInv, TruncatedInv
  <2>2. c \notin InBatch' /\ c \notin Owed
    BY <2>1, UpcomingIsBatch
  <2>3. \A k \in 1..Len(messages') : messages'[k] = ResultMsg(c) =>
            i < k /\ \A j \in (i + 1)..k : messages'[j].role = "toolResult"
    <3>1. ASSUME NEW k \in 1..Len(messages'), messages'[k] = ResultMsg(c)
          PROVE  i < k /\ \A j \in (i + 1)..k : messages[j].role = "toolResult" /\ j \in 1..Len(messages)
      BY <1>2, <1>4, <2>1, <3>1 DEF Settled, Unanswered
    <3>. QED
      BY <1>2, <3>1
  <2>. QED
    BY <1>2, <1>3, <2>1, <2>2, <2>3 DEF Settled, Unanswered
<1>6. ASSUME m.role = "assistant", NEW c \in Elems(m.calls), NEW i, i = Len(messages) + 1
      PROVE  Settled(i, c)'
  <2>1. /\ c \notin 1..nextCall /\ c \notin dropped
        /\ IF m.stop \in FailedStops THEN c \notin InBatch' ELSE c \in Owed'
    BY <1>6 DEF AnswerInv
  <2>2. ResultMsg(c) \notin Elems(messages)
    BY <1>3, <2>1 DEF ResultInv
  <2>3. \A k \in 1..Len(messages') : messages'[k] # ResultMsg(c)
    BY <1>2, <1>4, <2>2
  <2>4. \A j \in (i + 1)..Len(messages') : FALSE
    BY <1>2, <1>6
  <2>5. Unanswered(messages[i], c)' <=> m.stop \in FailedStops
    BY <1>2, <1>6, <2>1 DEF Unanswered
  <2>6. ResultMsg(c) \notin Elems(messages')
    BY <1>2, <1>3, <2>2
  <2>. QED
    BY <2>1, <2>3, <2>4, <2>5, <2>6 DEF Settled
<1>7. \A i \in 1..Len(messages') : i \in 1..Len(messages) \/ i = Len(messages) + 1
  BY <1>2
<1>8. ASSUME NEW i \in 1..Len(messages'), messages'[i].role = "assistant",
             NEW c \in Elems(messages'[i].calls)
      PROVE  Settled(i, c)'
  <2>1. CASE i \in 1..Len(messages)
    BY <1>2, <1>5, <1>8, <2>1
  <2>2. CASE i = Len(messages) + 1
    BY <1>2, <1>6, <1>8, <2>2
  <2>. QED
    BY <1>7, <2>1, <2>2
<1>9. dropped' \subseteq 1..nextCall'
  BY DEF AnswerInv
<1>. QED
  BY <1>8, <1>9 DEF AnswerInv

\* Every step leaves waiting what WaitingInv says.
LEMMA WaitingStep ==
    ASSUME TypeInv, WaitingInv, [Next]_vars
    PROVE  WaitingInv'
<1> /\ started \in Seq(Nat) /\ todo \in Seq(Nat) /\ NonEmpty /\ pc \in PCs
    /\ messages \in Seq(Message) /\ outbox \in Seq(Message) /\ Elems(<<>>) = {}
    /\ steeringQueue \in Seq(UserMessages) /\ followUpQueue \in Seq(UserMessages)
    /\ nextUser + 1 \in Nat
  BY ElemsFew DEF TypeInv, TypeOK, BatchType, RunType, QueueType, AuxType
<1> USE DEF stateVars, queueVars, runVars, batchVars, auxVars
<1> DEFINE Answering == {"result", "resultEnd"}
<1>1. ASSUME Elems(outbox') \subseteq Elems(outbox),
             pc' \in Answering => pc \in Answering /\ started' = started,
             pc' \notin Answering \union {"failed"} => pc \notin Answering \union {"failed"}
      PROVE  WaitingInv'
  BY <1>1 DEF WaitingInv
<1>2. ASSUME outbox' = <<>>
      PROVE  WaitingInv'
  BY <1>2 DEF WaitingInv
<1>3. ASSUME outbox' \in Seq(UserMessages), pc' \notin Answering
      PROVE  WaitingInv'
  <2>1. \A m \in Elems(outbox') : m.role = "user"
    BY <1>3, ElemTypes DEF UserMessages
  <2>. QED
    BY <1>3, <2>1 DEF WaitingInv
<1>4. CASE ContinueTranscript \/ Finish
  BY <1>2, <1>4 DEF ContinueTranscript, BeginRun, Finish
<1>5. CASE Prompt \/ ContinueSteering \/ ContinueFollowUp \/ PollFirst \/ PollSteer \/ PollFollowUp
  <2>1. /\ \/ outbox' = <<>>
           \/ outbox' = <<UserMsg(nextUser + 1, "prompt")>>
           \/ outbox' = Drained(steeringQueue, steeringMode)
           \/ outbox' = Drained(followUpQueue, followUpMode)
        /\ pc' \notin Answering
    BY <1>5 DEF Prompt, ContinueSteering, ContinueFollowUp, BeginRun, PollFirst, PollSteer,
       PollFollowUp, Goto
  <2>2. <<UserMsg(nextUser + 1, "prompt")>> \in Seq(UserMessages)
    <3>1. UserMsg(nextUser + 1, "prompt") \in UserMessages
      BY MessageTypes DEF Channels
    <3>. QED
      BY <3>1
  <2>3. /\ Drained(steeringQueue, steeringMode) \in Seq(UserMessages)
        /\ Drained(followUpQueue, followUpMode) \in Seq(UserMessages)
    BY DrainTypes
  <2>. QED
    BY <1>2, <1>3, <2>1, <2>2, <2>3
<1>6. CASE Steer \/ FollowUp \/ ClearSteeringQueue \/ ClearFollowUpQueue \/ SetSteeringMode
           \/ SetFollowUpMode \/ Abort \/ Reset \/ ToolStep \/ UNCHANGED vars
  <2>1. outbox' = outbox /\ started' = started /\ (pc' = pc \/ pc' = "failed")
    BY <1>6 DEF Steer, FollowUp, ClearSteeringQueue, ClearFollowUpQueue, SetSteeringMode,
       SetFollowUpMode, Abort, Reset, vars, ToolStep, ToolSettles, OrphanSettles,
       EndListenersSettle, OrphanListenersSettle, Settle, SettleOr
  <2>. QED
    BY <1>1, <2>1
<1>7. CASE AgentStart \/ PromptStart \/ TurnStart \/ InjectStart \/ StreamStart \/ StreamThrows
           \/ ToolStart \/ ToolPrepared \/ NextTool \/ BatchDone \/ TurnEnd \/ AgentEnd \/ FailStart
           \/ FailTurnEnd \/ FailAgentEnd
  <2>1. outbox' = outbox /\ pc \notin Answering \union {"failed"} /\ pc' \notin Answering
    BY <1>7 DEF AgentStart, PromptStart, TurnStart, InjectStart, StreamStart, StreamThrows,
       ToolStart, ToolPrepared, NextTool, BatchDone, TurnEnd, AgentEnd, FailStart, FailTurnEnd,
       FailAgentEnd, EmitMessageStart, Settle, SettleOr, Goto
  <2>. QED
    BY <1>1, <2>1
<1>8. CASE \E stop \in {"stop", "length"} \union FailedStops, n \in 0..MaxPerMessage :
              StreamEnd(stop, n)
  <2>1. outbox' = outbox /\ pc \notin Answering \union {"failed"} /\ pc' \notin Answering
    BY <1>8 DEF StreamEnd, Settle, SettleOr
  <2>. QED
    BY <1>1, <2>1
<1>9. CASE PromptEnd \/ InjectEnd \/ FailEnd
  <2>1. /\ outbox' = Tail(outbox) /\ outbox # <<>>
        /\ pc \notin Answering \union {"failed"} /\ pc' \notin Answering
    BY <1>9 DEF PromptEnd, InjectEnd, FailEnd, EmitMessageEnd, Settle, SettleOr, NonEmpty
  <2>2. Elems(outbox') \subseteq Elems(outbox)
    BY <2>1, ElemsHead
  <2>. QED
    BY <1>1, <2>1, <2>2
<1>10. CASE ResultStart
  <2>1. /\ outbox' = outbox /\ started' = started
        /\ pc \in Answering /\ pc' \in Answering \union {"failed"}
    BY <1>10 DEF ResultStart, EmitMessageStart, Settle, SettleOr
  <2>. QED
    BY <1>1, <2>1
<1>11. CASE ResultEnd
  <2>1. /\ outbox' = Tail(outbox) /\ outbox # <<>> /\ started' = started /\ pc \in Answering
        /\ outbox' = <<>> \/ pc' \in Answering \union {"failed"}
    BY <1>11 DEF ResultEnd, EmitMessageEnd, Settle, SettleOr, NonEmpty
  <2>2. Elems(outbox') \subseteq Elems(outbox)
    BY <2>1, ElemsHead
  <2>. QED
    BY <1>1, <1>2, <2>1, <2>2
<1>12. CASE ToolImmediate
  <2>1. /\ pc = "prepare" /\ started' = Append(started, Head(todo)) /\ todo # <<>>
        /\ \/ outbox' = outbox /\ pc' \in {"nextTool", "failed"}
           \/ outbox' = <<ResultMsg(Head(todo))>> /\ pc' \in {"result", "failed"}
    BY <1>12 DEF ToolImmediate, Settle, SettleOr, NonEmpty
  <2>2. Head(todo) \in Elems(started')
    BY <2>1, ElemsHead, ElemsAppend
  <2>3. \A m \in Elems(<<ResultMsg(Head(todo))>>) : m.role = "toolResult" /\ m.call = Head(todo)
    BY ElemsFew, ResultIs
  <2>4. CASE outbox' = outbox /\ pc' \in {"nextTool", "failed"}
    BY <1>1, <2>1, <2>4
  <2>5. CASE outbox' = <<ResultMsg(Head(todo))>> /\ pc' \in {"result", "failed"}
    BY <2>2, <2>3, <2>5 DEF WaitingInv
  <2>. QED
    BY <2>1, <2>4, <2>5
<1>13. CASE ExecDone
  <2>1. /\ pc' = "result" /\ pc = "exec" /\ started' = started
        /\ outbox' = Answers(started) \/ outbox' = <<ResultMsg(started[Len(started)])>>
    BY <1>13 DEF ExecDone, Goto
  <2>2. started[Len(started)] \in Elems(started)
    BY <2>1, EmptySeq DEF NonEmpty, Elems
  <2>3. \A m \in Elems(<<ResultMsg(started[Len(started)])>>) :
            m.role = "toolResult" /\ m.call = started[Len(started)]
    BY ElemsFew, ResultIs
  <2>4. \A m \in Elems(Answers(started)) : m.role = "toolResult" /\ m.call \in Elems(started)
    BY DEF Answers, Elems, ResultMsg
  <2>. QED
    BY <2>1, <2>2, <2>3, <2>4 DEF WaitingInv
<1>14. CASE Failed
  <2> DEFINE message == AssistantMsg(IF aborted THEN "aborted" ELSE "error", <<>>)
  <2>1. outbox' = <<message>> /\ pc' = "fail"
    BY <1>14 DEF Failed, Goto
  <2>2. message.role = "assistant" /\ message.calls = <<>>
    BY DEF AssistantMsg
  <2> HIDE DEF message
  <2>3. Elems(outbox') = {message}
    BY <2>1, ElemsFew
  <2>. QED
    BY <2>1, <2>2, <2>3 DEF WaitingInv
<1>. QED
  BY <1>4, <1>5, <1>6, <1>7, <1>8, <1>9, <1>10, <1>11, <1>12, <1>13, <1>14
  DEF Next, Application, LoopStep

\* Every step answers the calls of the transcript in their order, once.
LEMMA AnswerStep ==
    ASSUME TypeInv, RunningInv, TruncatedInv, WaitingInv, ResultInv, AnswerInv, [Next]_vars
    PROVE  ResultInv' /\ AnswerInv'
<1> /\ started \in Seq(Nat) /\ todo \in Seq(Nat) /\ NonEmpty /\ pc \in PCs /\ nextCall \in Nat
    /\ messages \in Seq(Message) /\ outbox \in Seq(Message) /\ <<>> \in Seq(Message)
    /\ Elems(<<>>) = {}
  BY ElemsFew DEF TypeInv, TypeOK, BatchType, AuxType, RunType
<1> /\ TypeInv' /\ RunningInv' /\ WaitingInv' /\ outbox' \in Seq(Message)
    /\ messages' \in Seq(Message)
  <2>1. TypeInv' /\ RunningInv' /\ WaitingInv'
    BY TypeNext, RunningStep, WaitingStep
  <2>. QED
    BY <2>1 DEF TypeInv, TypeOK, RunType
<1> Owed \subseteq InBatch /\ Upcoming \subseteq InBatch /\ dropped \subseteq 1..nextCall
  BY UpcomingIsBatch DEF AnswerInv
<1> USE DEF stateVars, queueVars, runVars, batchVars, auxVars
<1>1. ASSUME UNCHANGED <<messages, nextCall, dropped>>, InBatch' \subseteq InBatch,
             Upcoming' \subseteq Upcoming, Owed \subseteq Owed',
             outbox' = outbox \/ \A m \in Elems(outbox') : m.role # "toolResult"
      PROVE  ResultInv' /\ AnswerInv'
  BY <1>1, AnswerKept, ResultsKept
<1>2. CASE Prompt \/ ContinueTranscript \/ ContinueSteering \/ ContinueFollowUp \/ AgentStart
           \/ PromptStart \/ PollFirst \/ TurnStart \/ InjectStart \/ StreamStart \/ StreamThrows
           \/ TurnEnd \/ PollSteer \/ PollFollowUp \/ AgentEnd \/ FailStart \/ FailTurnEnd
           \/ FailAgentEnd \/ Finish
  <2>1. /\ UNCHANGED <<messages, nextCall, dropped, started, todo>>
        /\ pc \notin BatchPcs \union {"failed"} /\ pc' \notin BatchPcs
        /\ pc' = "failed" => outbox' = outbox
    BY <1>2 DEF Prompt, ContinueTranscript, ContinueSteering, ContinueFollowUp, BeginRun,
       AgentStart, PromptStart, PollFirst, TurnStart, InjectStart, StreamStart, StreamThrows,
       TurnEnd, PollSteer, PollFollowUp, AgentEnd, FailStart, FailTurnEnd, FailAgentEnd, Finish,
       EmitMessageStart, Settle, SettleOr, Goto, BatchPcs
  <2>2. InBatch = {} /\ InBatch' = {} /\ Upcoming' = {}
    BY <2>1, NoBatch DEF InBatch, Upcoming
  <2>3. outbox' = outbox \/ \A m \in Elems(outbox') : m.role # "toolResult"
    BY <2>1 DEF WaitingInv, BatchPcs
  <2>. QED
    BY <1>1, <2>1, <2>2, <2>3
<1>3. ASSUME UNCHANGED <<messages, outbox, nextCall, dropped, started, todo, batchMode>>,
             \/ pc' \in {pc, "failed"}
             \/ pc = "tools" /\ pc' = "prepare"
             \/ pc = "result" /\ pc' = "resultEnd"
             \/ pc = "nextTool" /\ pc' = "tools"
      PROVE  ResultInv' /\ AnswerInv'
  <2>1. InBatch' = InBatch /\ Elems(outbox') = Elems(outbox)
    BY <1>3 DEF InBatch
  <2>2. pc' = "failed" => Upcoming' = {} /\ Owed' = InBatch
    BY <2>1 DEF Upcoming, Owed, BatchPcs
  <2>3. pc' # "failed" => Upcoming' = Upcoming
    BY <1>3, <2>1 DEF Upcoming, BatchPcs
  <2>4. pc' # "failed" => Owed' = Owed
    BY <1>3, <2>1, <2>3 DEF Owed
  <2>. QED
    BY <1>1, <1>3, <2>1, <2>2, <2>3, <2>4
<1>4. CASE Steer \/ FollowUp \/ ClearSteeringQueue \/ ClearFollowUpQueue \/ SetSteeringMode
           \/ SetFollowUpMode \/ Abort \/ UNCHANGED vars \/ ToolStep \/ ToolStart \/ ResultStart
  <2>1. UNCHANGED <<messages, outbox, nextCall, dropped, started, todo, batchMode>>
    BY <1>4 DEF Steer, FollowUp, ClearSteeringQueue, ClearFollowUpQueue, SetSteeringMode,
       SetFollowUpMode, Abort, vars, ToolStep, ToolSettles, OrphanSettles, EndListenersSettle,
       OrphanListenersSettle, ToolStart, ResultStart, EmitMessageStart
  <2>2. \/ pc' \in {pc, "failed"}
        \/ pc = "tools" /\ pc' = "prepare"
        \/ pc = "result" /\ pc' = "resultEnd"
    BY <1>4 DEF Steer, FollowUp, ClearSteeringQueue, ClearFollowUpQueue, SetSteeringMode,
       SetFollowUpMode, Abort, vars, ToolStep, ToolSettles, OrphanSettles, EndListenersSettle,
       OrphanListenersSettle, ToolStart, ResultStart, EmitMessageStart, Settle, SettleOr
  <2>. QED
    BY <1>3, <2>1, <2>2
<1>5. CASE Reset
  <2>1. messages' = <<>> /\ UNCHANGED <<outbox, started, todo, batchMode, pc, nextCall, dropped>>
    BY <1>5 DEF Reset
  <2>2. Upcoming' = Upcoming
    BY <2>1 DEF Upcoming, InBatch
  <2>3. InLine(<<>>, outbox, <<>>, "toolResult")
    BY OrderedFew DEF ResultInv, InLine, Before
  <2>. QED
    BY <2>1, <2>2, <2>3 DEF ResultInv, AnswerInv
<1>6. CASE PromptEnd \/ InjectEnd \/ FailEnd
  <2> DEFINE message == Head(outbox)
  <2>1. /\ messages' = Append(messages, message) /\ outbox' = Tail(outbox) /\ outbox # <<>>
        /\ UNCHANGED <<nextCall, dropped, started, todo>>
        /\ pc \in {"promptEnd", "injectEnd", "failEnd"} /\ pc' \notin BatchPcs
    BY <1>6 DEF PromptEnd, InjectEnd, FailEnd, EmitMessageEnd, NonEmpty, Settle, SettleOr, BatchPcs
  <2>2. InBatch = {} /\ InBatch' = {} /\ Upcoming' = {}
    BY <2>1, NoBatch DEF InBatch, Upcoming, BatchPcs
  <2>3. message \in Message /\ message \in Elems(outbox)
    BY <2>1, ElemsHead
  <2>4. message.role # "toolResult" /\ (message.role = "assistant" => message.calls = <<>>)
    BY <2>1, <2>3 DEF WaitingInv
  <2> HIDE DEF message
  <2>5. message.role = "assistant" => Elems(message.calls) = {}
    BY <2>4
  <2>6. AnswerInv'
    BY <2>1, <2>2, <2>3, <2>4, <2>5, OtherEmitted
  <2>7. Elems(messages') \union Elems(outbox') = Elems(messages) \union Elems(outbox)
    BY <2>1, EmitElems DEF message
  <2>8. InLine(messages', outbox', <<>>, "toolResult")
    BY <2>1, InLineEmit DEF ResultInv, message
  <2>. QED
    BY <2>1, <2>2, <2>6, <2>7, <2>8 DEF ResultInv
<1>7. CASE ResultEnd
  <2>1. /\ messages' = Append(messages, Head(outbox)) /\ outbox' = Tail(outbox) /\ outbox # <<>>
        /\ UNCHANGED <<nextCall, dropped, started, todo, batchMode>> /\ pc = "resultEnd"
        /\ \/ pc' \in {"result", "failed"}
           \/ pc' = IF batchMode = "parallel" THEN "batchDone" ELSE "nextTool"
    BY <1>7 DEF ResultEnd, EmitMessageEnd, NonEmpty, Settle, SettleOr
  <2>2. /\ Head(outbox) \in Message /\ Head(outbox) \in Elems(outbox)
        /\ Elems(outbox) = {Head(outbox)} \union Elems(Tail(outbox))
    BY <2>1, ElemsHead
  <2>3. PICK call \in InBatch : Head(outbox) = ResultMsg(call)
    BY <2>1, <2>2, ResultIs DEF WaitingInv, InBatch
  <2>4. call \in Nat /\ InBatch' = InBatch
    BY <2>1 DEF RunningInv, InBatch
  <2>5. Upcoming' = IF pc' = "failed" THEN {} ELSE Upcoming
    BY <2>1, <2>4 DEF Upcoming, BatchPcs
  <2>6. Owed \subseteq Owed' \union {call}
    <3>1. ASSUME NEW c, ResultMsg(c) \in Elems(outbox)
          PROVE  c = call \/ ResultMsg(c) \in Elems(outbox')
      <4>1. ResultMsg(c).call = c /\ ResultMsg(call).call = call
        BY ResultIs
      <4>2. Elems(outbox') = Elems(Tail(outbox))
        BY <2>1
      <4>3. Elems(outbox) = {ResultMsg(call)} \union Elems(outbox')
        BY <2>2, <2>3, <4>2
      <4>. QED
        BY <3>1, <4>1, <4>3
    <3>. QED
      BY <2>1, <2>4, <2>5, <3>1 DEF Owed
  <2>7. AnswerInv'
    BY <2>1, <2>3, <2>4, <2>6, AnswerEmitted
  <2>8. Elems(messages') \union Elems(outbox') = Elems(messages) \union Elems(outbox)
    BY <2>1, EmitElems
  <2>9. InLine(messages', outbox', <<>>, "toolResult")
    BY <2>1, InLineEmit DEF ResultInv
  <2>. QED
    BY <2>1, <2>5, <2>7, <2>8, <2>9 DEF ResultInv
<1>8. ASSUME NEW stop \in {"stop", "length"} \union FailedStops, NEW n \in Nat, StreamEnd(stop, n)
      PROVE  ResultInv' /\ AnswerInv'
  <2> DEFINE calls == [i \in 1..n |-> nextCall + i]
             message == AssistantMsg(stop, calls)
  <2>1. /\ messages' = Append(messages, message) /\ pc \in {"stream", "streaming"}
        /\ UNCHANGED <<outbox, dropped, started>> /\ nextCall' = nextCall + n
        /\ todo' = IF n > 0 /\ stop \notin FailedStops THEN calls ELSE <<>>
        /\ pc' = "failed" \/ pc' = IF n > 0 /\ stop \notin FailedStops THEN "tools" ELSE "turnEnd"
    BY <1>8 DEF StreamEnd, Settle, SettleOr
  <2>2. /\ message \in Message /\ message.role = "assistant" /\ message.calls = calls
        /\ message.stop = stop
    <3>1. calls \in Seq(Nat)
      OBVIOUS
    <3>. HIDE DEF calls
    <3>2. message \in Message
      BY <3>1, MessageTypes
    <3>. QED
      BY <3>2 DEF AssistantMsg
  <2>3. /\ n = 0 => Elems(calls) = {}
        /\ Elems(<<>>) = {}
        /\ \A c \in Elems(calls) : c \notin 1..nextCall /\ c \in Nat /\ nextCall < c
        /\ 1..nextCall \subseteq 1..(nextCall + n)
    BY DEF Elems
  <2> HIDE DEF message, calls
  <2>4. /\ InBatch = {}
        /\ InBatch' = IF n > 0 /\ stop \notin FailedStops THEN Elems(calls) ELSE {}
    BY <2>1, <2>3, NoBatch DEF InBatch, BatchPcs
  <2>5. Upcoming' \subseteq Elems(calls)
    BY <2>1, <2>3, <2>4 DEF Upcoming
  <2>6. IF stop \in FailedStops THEN InBatch' = {} ELSE Elems(calls) \subseteq Owed'
    BY <2>1, <2>3, <2>4 DEF Owed, Upcoming, BatchPcs
  <2>7. AnswerInv'
    BY <2>1, <2>2, <2>3, <2>4, <2>6, OtherEmitted
  <2>8. /\ Elems(messages') = Elems(messages) \union {message} /\ Elems(<<message>>) = {message}
        /\ ~From(message, "toolResult")
    BY <2>1, <2>2, ElemsAppend, ElemsFew DEF From
  <2>9. InLine(messages', outbox', <<>>, "toolResult")
    <3>1. Ordered(messages', "toolResult")
      BY <2>1, <2>2, <2>8, OrderedAppend DEF ResultInv, InLine, Before
    <3>. QED
      BY <2>1, <2>8, <3>1 DEF ResultInv, InLine, Before
  <2>10. ASSUME NEW m \in Elems(messages') \union Elems(outbox'), m.role = "toolResult"
         PROVE  m.call \in 1..nextCall' /\ \A c \in Upcoming' : m.call < c
    <3>1. m \in Elems(messages) \union Elems(outbox)
      BY <2>1, <2>2, <2>8, <2>10
    <3>2. m.call \in 1..nextCall
      BY <2>10, <3>1 DEF ResultInv
    <3>. QED
      BY <2>1, <2>3, <2>5, <3>2
  <2>. QED
    BY <2>7, <2>9, <2>10 DEF ResultInv
<1>9. CASE ToolImmediate \/ ToolPrepared
  <2> DEFINE call == Head(todo)
  <2>1. /\ pc = "prepare" /\ started' = Append(started, call) /\ todo' = Tail(todo) /\ todo # <<>>
        /\ UNCHANGED <<messages, nextCall, dropped, batchMode>>
        /\ \/ batchMode = "parallel" /\ outbox' = outbox /\ pc' \in {"nextTool", "failed"}
           \/ batchMode # "parallel" /\ outbox' = <<ResultMsg(call)>> /\ pc' \in {"result", "failed"}
           \/ batchMode # "parallel" /\ outbox' = outbox /\ pc' = "exec"
    BY <1>9 DEF ToolImmediate, ToolPrepared, Settle, SettleOr, Goto, NonEmpty
  <2>2. /\ call \in Nat /\ Tail(todo) \in Seq(Nat) /\ call \in Elems(todo)
        /\ Elems(todo) = {call} \union Elems(todo')
    BY <2>1, ElemsHead
  <2>3. Elems(started') = Elems(started) \union {call} /\ started'[Len(started')] = call
    BY <2>1, <2>2, ElemsAppend
  <2>4. \A c \in Elems(todo') : call < c
    BY <2>1, IncreasingSplit DEF RunningInv
  <2> HIDE DEF call
  <2>5. InBatch' = InBatch /\ call \in InBatch
    BY <2>2, <2>3 DEF InBatch
  <2>6. Upcoming = IF batchMode = "parallel" THEN InBatch ELSE Elems(todo)
    BY <2>1 DEF Upcoming, BatchPcs
  <2>7. CASE /\ outbox' = outbox
             /\ pc' = IF batchMode = "parallel" THEN "nextTool" ELSE "exec"
    <3>1. Upcoming' = Upcoming
      <4>1. CASE batchMode = "parallel"
        BY <2>1, <2>5, <2>6, <2>7, <4>1 DEF Upcoming, BatchPcs
      <4>2. CASE batchMode # "parallel"
        BY <2>1, <2>2, <2>3, <2>6, <2>7, <4>2 DEF Upcoming, BatchPcs
      <4>. QED
        BY <4>1, <4>2
    <3>2. Owed' = Owed
      BY <2>1, <2>5, <2>7, <3>1 DEF Owed
    <3>. QED
      BY <1>1, <2>1, <2>5, <2>7, <3>1, <3>2
  <2>8. CASE outbox' = outbox /\ pc' = "failed"
    <3>1. Upcoming' = {} /\ Owed' = InBatch
      BY <2>5, <2>8 DEF Upcoming, Owed, BatchPcs
    <3>. QED
      BY <1>1, <2>1, <2>5, <2>8, <3>1
  <2>9. CASE batchMode # "parallel" /\ outbox' = <<ResultMsg(call)>> /\ pc' \in {"result", "failed"}
    <3> DEFINE result == ResultMsg(call)
    <3>1. /\ result.role = "toolResult" /\ result.call = call /\ result \in Message
          /\ Elems(outbox') = {result}
      BY <2>2, <2>9, ResultIs, MessageTypes, ElemsFew
    <3>2. Upcoming' \subseteq Elems(todo')
      BY <2>1, <2>9 DEF Upcoming, BatchPcs
    <3>3. \A m \in Elems(messages) : m.role = "toolResult" => m.call < call
      BY <2>2, <2>6, <2>9 DEF ResultInv
    <3>4. Owed \subseteq Owed'
      <4>1. Owed = Elems(todo)
        BY <2>1, <2>6, <2>9, ResultIs DEF Owed, WaitingInv
      <4>2. pc' = "result" => Upcoming' = Elems(todo')
        BY <2>1, <2>9 DEF Upcoming, BatchPcs
      <4>. QED
        BY <2>2, <2>5, <2>9, <3>1, <4>1, <4>2 DEF Owed, InBatch
    <3>5. AnswerInv'
      BY <2>1, <2>5, <3>4, AnswerKept
    <3> HIDE DEF result
    <3>6. InLine(messages', outbox', <<>>, "toolResult")
      <4>1. Ordered(outbox', "toolResult")
        BY <2>9, OrderedFew
      <4>2. Before(messages', outbox', "toolResult")
        BY <2>1, <3>1, <3>3 DEF Before, From, Number
      <4>. QED
        BY <2>1, <4>1, <4>2 DEF ResultInv, InLine, Before
    <3>7. call \in 1..nextCall
      BY <2>2 DEF RunningInv, InBatch
    <3>8. ASSUME NEW m \in Elems(messages), m.role = "toolResult"
          PROVE  m.call \in 1..nextCall /\ \A c \in Elems(todo') : m.call < c
      BY <2>2, <2>6, <2>9, <3>8 DEF ResultInv
    <3>. QED
      BY <2>1, <2>4, <3>1, <3>2, <3>5, <3>6, <3>7, <3>8 DEF ResultInv
  <2>. QED
    BY <2>1, <2>7, <2>8, <2>9
<1>10. CASE NextTool
  <2>1. CASE pc' = "tools"
    <3>1. /\ UNCHANGED <<messages, outbox, nextCall, dropped, started, todo, batchMode>>
          /\ pc = "nextTool"
      BY <1>10, <2>1 DEF NextTool, Goto
    <3>. QED
      BY <1>3, <2>1, <3>1
  <2>2. CASE pc' # "tools"
    <3>1. /\ UNCHANGED <<messages, outbox, nextCall, started, batchMode>>
          /\ pc = "nextTool" /\ pc' = (IF batchMode = "parallel" THEN "exec" ELSE "batchDone")
          /\ dropped' = dropped \union Elems(todo) /\ todo' = <<>>
      BY <1>10, <2>2 DEF NextTool, Goto
    <3>2. InBatch' = Elems(started) /\ Elems(todo) \subseteq Upcoming
      BY <3>1 DEF InBatch, Upcoming, BatchPcs
    <3>3. \A c \in Elems(todo) : c \notin Elems(started)
      <4>1. \A x \in Elems(started), y \in Elems(todo) : x < y
        BY IncreasingSplit DEF RunningInv
      <4>2. Elems(todo) \subseteq Nat
        BY ElemTypes
      <4>3. \A c \in Nat : ~(c < c)
        OBVIOUS
      <4>. QED
        BY <4>1, <4>2, <4>3
    <3>4. \A c \in Elems(todo) : ResultMsg(c) \notin Elems(messages)
      <4>1. ASSUME NEW c \in Elems(todo), ResultMsg(c) \in Elems(messages)
            PROVE  FALSE
        <5>1. c \in Nat /\ c \in Upcoming
          BY <3>2, <4>1, ElemTypes
        <5>2. ResultMsg(c).role = "toolResult" /\ ResultMsg(c).call = c
          BY ResultIs
        <5>3. c < c
          BY <4>1, <5>1, <5>2 DEF ResultInv
        <5>. QED
          BY <5>1, <5>3
      <4>. QED
        BY <4>1
    <3>5. Upcoming' \subseteq Upcoming /\ Upcoming \subseteq Upcoming' \union Elems(todo)
      BY <3>1, <3>2 DEF Upcoming, InBatch, BatchPcs
    <3>6. Owed = Upcoming /\ Upcoming' \subseteq Owed'
      <4>1. \A c : ResultMsg(c) \notin Elems(outbox)
        BY <3>1, ResultIs DEF WaitingInv
      <4>. QED
        BY <3>1, <4>1 DEF Owed
    <3>7. dropped' \subseteq 1..nextCall
      BY <3>1 DEF RunningInv, InBatch
    <3>8. AnswerInv'
      BY <3>1, <3>2, <3>3, <3>4, <3>5, <3>6, <3>7, AnswerKept DEF InBatch
    <3>9. ResultInv'
      BY <3>1, <3>5, ResultsKept
    <3>. QED
      BY <3>8, <3>9
  <2>. QED
    BY <2>1, <2>2
<1>11. CASE ExecDone
  <2> DEFINE last == started[Len(started)]
  <2>1. /\ UNCHANGED <<messages, nextCall, dropped, started, todo, batchMode>>
        /\ pc = "exec" /\ pc' = "result"
        /\ outbox' = IF batchMode = "parallel" THEN Answers(started) ELSE <<ResultMsg(last)>>
        /\ started # <<>>
    BY <1>11 DEF ExecDone, Goto, NonEmpty
  <2>2. InBatch' = InBatch /\ Upcoming' = Elems(todo)
    BY <2>1 DEF InBatch, Upcoming, BatchPcs
  <2>3. last \in Elems(started)
    BY <2>1, EmptySeq DEF Elems
  <2> HIDE DEF last
  <2>4. Upcoming = IF batchMode = "parallel" THEN InBatch ELSE {last} \union Elems(todo)
    BY <2>1 DEF Upcoming, BatchPcs, last
  <2>5. Ordered(outbox', "toolResult")
    <3>1. CASE batchMode # "parallel"
      BY <2>1, <3>1, OrderedFew
    <3>2. CASE batchMode = "parallel"
      <4>1. /\ Len(outbox') = Len(started)
            /\ \A i \in 1..Len(started) : outbox'[i] = ResultMsg(started[i])
        BY <2>1, <3>2, AnswerTypes
      <4>2. Increasing(started)
        BY IncreasingSplit DEF RunningInv
      <4>. QED
        BY <4>1, <4>2, ResultIs DEF Ordered, Increasing, Number
    <3>. QED
      BY <3>1, <3>2
  <2>6. /\ \A m \in Elems(outbox') : /\ m.role = "toolResult" /\ m.call \in Elems(started)
                                     /\ m.call \in Upcoming
        /\ \A c \in Upcoming \ Elems(todo) : ResultMsg(c) \in Elems(outbox')
    <3>1. CASE batchMode # "parallel"
      BY <2>1, <2>3, <2>4, <3>1, ElemsFew, ResultIs
    <3>2. CASE batchMode = "parallel"
      <4>1. Elems(outbox') = {ResultMsg(c) : c \in Elems(started)}
        <5>1. /\ DOMAIN outbox' = 1..Len(started) /\ DOMAIN started = 1..Len(started)
              /\ \A i \in 1..Len(started) : outbox'[i] = ResultMsg(started[i])
          BY <2>1, <3>2 DEF Answers
        <5>. QED
          BY <5>1 DEF Elems
      <4>. QED
        BY <2>4, <3>2, <4>1, ResultIs DEF InBatch
    <3>. QED
      BY <3>1, <3>2
  <2>7. Before(messages', outbox', "toolResult")
    BY <2>1, <2>6 DEF ResultInv, Before, From, Number
  <2>8. InLine(messages', outbox', <<>>, "toolResult")
    BY <2>1, <2>5, <2>7 DEF ResultInv, InLine, Before
  <2>9. \A x \in Elems(started), y \in Elems(todo) : x < y
    BY IncreasingSplit DEF RunningInv
  <2>10. ASSUME NEW m \in Elems(messages') \union Elems(outbox'), m.role = "toolResult"
         PROVE  m.call \in 1..nextCall' /\ \A c \in Upcoming' : m.call < c
    <3>1. CASE m \in Elems(messages)
      BY <2>1, <2>2, <2>4, <2>10, <3>1 DEF ResultInv, InBatch
    <3>2. CASE m \in Elems(outbox')
      BY <2>1, <2>2, <2>6, <2>9, <2>10, <3>2 DEF RunningInv, InBatch
    <3>. QED
      BY <2>1, <2>10, <3>1, <3>2
  <2>11. Owed \subseteq Owed'
    <3>1. Owed = Upcoming
      <4>1. \A c : ResultMsg(c) \notin Elems(outbox)
        BY <2>1, ResultIs DEF WaitingInv
      <4>. QED
        BY <2>1, <4>1 DEF Owed
    <3>. QED
      BY <2>1, <2>2, <2>6, <3>1 DEF Owed
  <2>12. AnswerInv'
    BY <2>1, <2>2, <2>11, AnswerKept
  <2>. QED
    BY <2>8, <2>10, <2>12 DEF ResultInv
<1>12. CASE BatchDone
  <2>1. /\ UNCHANGED <<messages, outbox, nextCall, dropped, todo>>
        /\ pc = "batchDone" /\ pc' = "turnEnd" /\ started' = <<>> /\ todo = <<>>
    BY <1>12 DEF BatchDone, Goto, RunningInv
  <2>2. InBatch' = {} /\ Upcoming' = {}
    BY <2>1 DEF InBatch, Upcoming, BatchPcs
  <2>3. Owed = {}
    <3>1. \A c : ResultMsg(c) \notin Elems(outbox)
      BY <2>1, ResultIs DEF WaitingInv
    <3>. QED
      BY <2>1, <3>1 DEF Owed, Upcoming
  <2>. QED
    BY <1>1, <2>1, <2>2, <2>3
<1>13. CASE Failed
  <2>1. /\ UNCHANGED <<messages, nextCall>> /\ started' = <<>> /\ todo' = <<>>
        /\ pc = "failed" /\ pc' = "fail"
        /\ dropped' = dropped \union
              {c \in Elems(started \o todo) : ResultMsg(c) \notin Elems(messages)}
    BY <1>13 DEF Failed, Goto
  <2>2. Elems(started \o todo) = InBatch /\ InBatch' = {} /\ Upcoming' = {}
    BY <2>1, ElemsConcat DEF InBatch, Upcoming, BatchPcs
  <2>3. dropped' \subseteq 1..nextCall
    BY <2>1, <2>2 DEF RunningInv
  <2>4. AnswerInv'
    BY <2>1, <2>2, <2>3, AnswerKept
  <2>5. \A m \in Elems(outbox') : m.role # "toolResult"
    BY <2>1 DEF WaitingInv
  <2>6. ResultInv'
    BY <2>1, <2>2, <2>5, ResultsKept
  <2>. QED
    BY <2>4, <2>6
<1>14. 0..MaxPerMessage \subseteq Nat
  BY AgentAssumption
<1>. QED
  BY <1>2, <1>4, <1>5, <1>6, <1>7, <1>8, <1>9, <1>10, <1>11, <1>12, <1>13, <1>14
  DEF Next, Application, LoopStep

\* Each call that the transcript has passed by is answered exactly once, right after
\* its message, unless its reply failed or was aborted, or an abort or a failing run
\* gave it up: those are never answered; and the results are in the order of the
\* calls: for every choice of batches, however their tools settle, are refused,
\* aborted or fail.
THEOREM AnsweredInOrderHolds == Spec => []AnsweredInOrder
<1> DEFINE Inv == TypeInv /\ ToolInv /\ WaitingInv /\ ResultInv /\ AnswerInv
<1>1. Init => Inv
  <2> SUFFICES ASSUME Init PROVE Inv
    OBVIOUS
  <2>1. TypeInv /\ ToolInv /\ Elems(<<>>) = {} /\ \A via : Ordered(<<>>, via)
    BY TypeInit, ToolInit, ElemsFew, OrderedFew
  <2>2. WaitingInv /\ AnswerInv
    BY <2>1 DEF Init, WaitingInv, AnswerInv
  <2>3. ResultInv
    BY <2>1 DEF Init, ResultInv, InLine, Before
  <2>. QED
    BY <2>1, <2>2, <2>3
<1>2. Inv /\ [Next]_vars => Inv'
  BY TypeNext, RunningStep, PendingStep, TruncatedStep, WaitingStep, AnswerStep DEF ToolInv
<1>3. Inv => AnsweredInOrder
  <2> SUFFICES ASSUME Inv PROVE AnsweredInOrder
    OBVIOUS
  <2>1. /\ messages \in Seq(Message) /\ DOMAIN messages = 1..Len(messages) /\ Len(messages) \in Nat
        /\ \A i \in 1..Len(messages) : messages[i] \in Elems(messages)
    BY DEF TypeInv, TypeOK, RunType, Elems
  <2>2. ResultsInOrder
    BY <2>1 DEF ResultsInOrder, ResultInv, InLine, Ordered, From, Number
  <2>3. ASSUME NEW i \in 1..Len(messages), NEW j \in 1..Len(messages), i < j,
               messages[i].role = "assistant", messages[j].role # "toolResult",
               NEW c \in Elems(messages[i].calls)
        PROVE  /\ Cardinality(Results(c)) = IF Unanswered(messages[i], c) THEN 0 ELSE 1
               /\ \A k \in Results(c) : i < k /\ k < j
    <3>1. Settled(i, c) /\ j \in (i + 1)..Len(messages)
      BY <2>1, <2>3 DEF AnswerInv
    <3>2. c \notin InBatch
      BY <2>3, <3>1 DEF Settled
    <3>3. Unanswered(messages[i], c) \/ ResultMsg(c) \in Elems(messages)
      BY <3>1, <3>2, UpcomingIsBatch DEF Settled
    <3>4. ASSUME NEW k \in Results(c)
          PROVE  i < k /\ k < j
      <4>1. k \in 1..Len(messages) /\ messages[k] = ResultMsg(c)
        BY <2>1 DEF Results
      <4>2. i < k /\ \A l \in (i + 1)..k : messages[l].role = "toolResult"
        BY <3>1, <4>1 DEF Settled
      <4>3. j \notin (i + 1)..k
        BY <2>3, <4>2
      <4>. QED
        BY <2>1, <3>1, <4>1, <4>2, <4>3
    <3>5. CASE Unanswered(messages[i], c)
      <4>1. Results(c) = {}
        BY <2>1, <3>1, <3>5 DEF Settled, Results
      <4>. QED
        BY <3>4, <3>5, <4>1, FS_EmptySet
    <3>6. CASE ~Unanswered(messages[i], c)
      <4>1. PICK k \in 1..Len(messages) : messages[k] = ResultMsg(c)
        BY <2>1, <3>3, <3>6 DEF Elems
      <4>2. ASSUME NEW l \in Results(c)
            PROVE  l = k
        <5>1. l \in 1..Len(messages) /\ messages[l] = ResultMsg(c)
          BY <2>1 DEF Results
        <5>2. ~(l < k) /\ ~(k < l)
          <6>1. ResultMsg(c).role = "toolResult" /\ ResultMsg(c).call \in Nat
            BY <2>1, <4>1, ResultIs DEF ResultInv
          <6>. QED
            BY <2>1, <2>2, <4>1, <5>1, <6>1 DEF ResultsInOrder
        <5>. QED
          BY <5>1, <5>2
      <4>3. Results(c) = {k}
        BY <2>1, <4>1, <4>2 DEF Results
      <4>. QED
        BY <3>4, <3>6, <4>3, FS_Singleton
    <3>. QED
      BY <3>5, <3>6
  <2>4. AnsweredOnce
    BY <2>1, <2>3 DEF AnsweredOnce
  <2>. QED
    BY <2>2, <2>4 DEF AnsweredInOrder
<1>. QED
  BY <1>1, <1>2, <1>3, PTL DEF Spec


(***************************************************************************)
(* Drains                                                                  *)
(***************************************************************************)

\* A drain splits the queue where it takes it apart.
LEMMA DrainElems ==
    ASSUME NEW S, NEW queue \in Seq(S), NEW mode
    PROVE  Elems(queue) = Elems(Drained(queue, mode)) \union Elems(Left(queue, mode))
<1>1. CASE mode = "all" \/ queue = <<>>
  BY <1>1, ElemsFew DEF Drained, Left
<1>2. CASE ~(mode = "all" \/ queue = <<>>)
  <2>1. Elems(queue) = {Head(queue)} \union Elems(Tail(queue))
    BY <1>2, ElemsHead
  <2>. QED
    BY <1>2, <2>1, ElemsFew DEF Drained, Left
<1>. QED
  BY <1>1, <1>2

\* A drain keeps the line of its queue.
LEMMA InLineDrain ==
    ASSUME NEW s \in Seq(Message), NEW queue \in Seq(Message), NEW via, NEW mode,
           InLine(s, <<>>, queue, via)
    PROVE  InLine(s, Drained(queue, mode), Left(queue, mode), via)
<1>1. Elems(queue) = Elems(Drained(queue, mode)) \union Elems(Left(queue, mode))
  BY DrainElems
<1>2. /\ Ordered(Drained(queue, mode), via) /\ Ordered(Left(queue, mode), via)
      /\ Before(Drained(queue, mode), Left(queue, mode), via)
  <2>1. CASE mode = "all" \/ queue = <<>>
    BY <2>1, OrderedFew, ElemsFew DEF Drained, Left, InLine, Before
  <2>2. CASE ~(mode = "all" \/ queue = <<>>)
    BY <2>2, OrderedFew, OrderedTail DEF Drained, Left, InLine
  <2>. QED
    BY <2>1, <2>2
<1>3. Before(s, Drained(queue, mode), via) /\ Before(s, Left(queue, mode), via)
  BY <1>1 DEF InLine, Before
<1>. QED
  BY <1>2, <1>3 DEF InLine

(***************************************************************************)
(* The invariant                                                           *)
(***************************************************************************)

\* Only the steps that emit leave messages pending, and only those that emit what
\* the application sent leave messages of a user pending.
OutboxInv ==
    /\ pc \notin {"start", "prompt", "promptEnd", "turnStart", "inject", "injectEnd", "result",
                  "resultEnd", "failed", "fail", "failEnd", "finish"} => outbox = <<>>
    /\ pc \in {"result", "resultEnd", "fail", "failEnd", "finish"} =>
           \A m \in Elems(outbox) : m.role # "user"

\* The messages of users that are in the transcript, pending or queued.
Everywhere == Elems(messages) \union Elems(outbox)
                  \union Elems(steeringQueue) \union Elems(followUpQueue)
Held == {m \in Everywhere : m.role = "user"}

\* A message's place in its channel is that of its id.
LineInv ==
    /\ InLine(messages, outbox, steeringQueue, "steer")
    /\ InLine(messages, outbox, followUpQueue, "followUp")
    /\ \A m \in Elems(steeringQueue) : m.via = "steer"
    /\ \A m \in Elems(followUpQueue) : m.via = "followUp"

\* The application's messages are numbered, and no number is missing.
BooksInv ==
    /\ \A m \in Held : m.id \in 1..nextUser
    /\ 1..nextUser \subseteq discarded \union {m.id : m \in Held}

DeliverInv == OutboxInv /\ LineInv /\ BooksInv

LEMMA DeliverInit == Init => DeliverInv
<1> SUFFICES ASSUME Init PROVE DeliverInv
  OBVIOUS
<1>1. Elems(<<>>) = {} /\ \A via : Ordered(<<>>, via)
  BY ElemsFew, OrderedFew
<1>2. OutboxInv /\ BooksInv
  BY <1>1 DEF Init, OutboxInv, BooksInv, Held, Everywhere
<1>3. LineInv
  BY <1>1 DEF Init, LineInv, InLine, Before
<1>. QED
  BY <1>2, <1>3 DEF DeliverInv

\* Every step leaves pending what OutboxInv says.
LEMMA OutboxStep ==
    ASSUME TypeInv, OutboxInv, [Next]_vars
    PROVE  OutboxInv'
<1> /\ started \in Seq(Nat) /\ todo \in Seq(Nat) /\ NonEmpty /\ pc \in PCs
    /\ messages \in Seq(Message) /\ outbox \in Seq(Message) /\ Elems(<<>>) = {}
  BY ElemsFew DEF TypeInv, TypeOK, BatchType, RunType
<1> USE DEF stateVars, queueVars, runVars, batchVars, auxVars
<1> DEFINE Full == {"start", "prompt", "promptEnd", "turnStart", "inject", "injectEnd", "failed"}
           Plain == {"result", "resultEnd", "fail", "failEnd", "finish"}
<1>1. ASSUME outbox' = outbox, pc' = pc \/ pc' = "failed" \/ (pc \notin Full \union Plain)
      PROVE  OutboxInv'
  BY <1>1 DEF OutboxInv
<1>2. ASSUME outbox' = <<>>
      PROVE  OutboxInv'
  BY <1>2 DEF OutboxInv
<1>3. ASSUME pc' \in Full
      PROVE  OutboxInv'
  BY <1>3 DEF OutboxInv
<1>4. CASE Application \/ UNCHANGED vars
  <2>1. (outbox' = outbox /\ pc' = pc) \/ pc' = "start"
    BY <1>4 DEF Application, Prompt, ContinueTranscript, ContinueSteering, ContinueFollowUp,
       BeginRun, Steer, FollowUp, ClearSteeringQueue, ClearFollowUpQueue, SetSteeringMode,
       SetFollowUpMode, Abort, Reset, vars
  <2>. QED
    BY <1>1, <1>3, <2>1
<1>5. CASE AgentStart \/ PromptStart \/ TurnStart \/ InjectStart
  <2>1. outbox' = outbox /\ (pc' \in Full \/ outbox = <<>>)
    BY <1>5 DEF AgentStart, PromptStart, TurnStart, InjectStart, EmitMessageStart, Settle, SettleOr
  <2>. QED
    BY <1>2, <1>3, <2>1
<1>6. CASE PromptEnd \/ InjectEnd
  <2>1. pc' \in Full \/ outbox' = <<>>
    BY <1>6 DEF PromptEnd, InjectEnd, EmitMessageEnd, Settle, SettleOr
  <2>. QED
    BY <1>2, <1>3, <2>1
<1>7. CASE PollFirst \/ PollSteer \/ PollFollowUp
  <2>1. pc' \in Full \/ outbox' = <<>>
    BY <1>7 DEF PollFirst, PollSteer, PollFollowUp, Goto
  <2>. QED
    BY <1>2, <1>3, <2>1
<1>8. CASE StreamStart \/ StreamThrows \/ ToolStart \/ ToolPrepared \/ NextTool \/ BatchDone
           \/ TurnEnd \/ AgentEnd \/ FailTurnEnd \/ FailAgentEnd
  <2>1. outbox' = outbox /\ pc \notin Full \union Plain
    BY <1>8 DEF StreamStart, StreamThrows, ToolStart, ToolPrepared, NextTool, BatchDone, TurnEnd,
       AgentEnd, FailTurnEnd, FailAgentEnd, Settle, SettleOr, Goto
  <2>. QED
    BY <1>1, <2>1
<1>9. CASE \E stop \in {"stop", "length"} \union FailedStops, n \in 0..MaxPerMessage :
              StreamEnd(stop, n)
  <2>1. outbox' = outbox /\ pc \notin Full \union Plain
    BY <1>9 DEF StreamEnd
  <2>. QED
    BY <1>1, <2>1
<1>10. CASE ToolImmediate
  <2>1. pc = "prepare" /\ (outbox' = outbox \/ outbox' = <<ResultMsg(Head(todo))>>)
    BY <1>10 DEF ToolImmediate
  <2>2. pc' \in {"nextTool", "result", "failed"} /\ (pc' = "nextTool" => outbox' = outbox)
    BY <1>10 DEF ToolImmediate, Settle, SettleOr
  <2>3. \A m \in Elems(<<ResultMsg(Head(todo))>>) : m.role # "user"
    BY ElemsFew DEF ResultMsg
  <2>. QED
    BY <2>1, <2>2, <2>3 DEF OutboxInv
<1>11. CASE ExecDone
  <2>1. pc' = "result" /\ (outbox' = Answers(started) \/ outbox' = <<ResultMsg(started[Len(started)])>>)
    BY <1>11 DEF ExecDone, Goto
  <2>2. \A m \in Elems(<<ResultMsg(started[Len(started)])>>) : m.role # "user"
    BY ElemsFew DEF ResultMsg
  <2>3. \A m \in Elems(Answers(started)) : m.role # "user"
    BY DEF Answers, Elems, ResultMsg
  <2>. QED
    BY <2>1, <2>2, <2>3 DEF OutboxInv
<1>12. CASE ResultStart \/ FailStart
  <2>1. outbox' = outbox /\ pc \in Plain /\ pc' \in Plain \union {"failed"}
    BY <1>12 DEF ResultStart, FailStart, EmitMessageStart, Settle, SettleOr
  <2>. QED
    BY <2>1 DEF OutboxInv
<1>13. CASE ResultEnd \/ FailEnd
  <2>1. /\ pc \in Plain /\ outbox' = Tail(outbox)
        /\ pc' \in Plain \union {"failed"} \/ outbox' = <<>>
    BY <1>13 DEF ResultEnd, FailEnd, EmitMessageEnd, Settle, SettleOr
  <2>2. outbox # <<>>
    BY <1>13 DEF ResultEnd, FailEnd, EmitMessageEnd, NonEmpty
  <2>3. Elems(outbox') \subseteq Elems(outbox)
    BY <2>1, <2>2, ElemsHead
  <2>. QED
    BY <1>2, <2>1, <2>3 DEF OutboxInv
<1>14. CASE Failed
  <2>1. PICK m : outbox' = <<m>> /\ m.role = "assistant" /\ pc' = "fail"
    BY <1>14 DEF Failed, Goto, AssistantMsg
  <2>2. Elems(outbox') = {m}
    BY <2>1, ElemsFew
  <2>. QED
    BY <2>1, <2>2 DEF OutboxInv
<1>15. CASE Finish
  BY <1>2, <1>15 DEF Finish
<1>16. CASE ToolStep
  <2>1. outbox' = outbox /\ (pc' = pc \/ pc' = "failed")
    BY <1>16 DEF ToolStep, ToolSettles, OrphanSettles, EndListenersSettle, OrphanListenersSettle,
       Settle, SettleOr
  <2>. QED
    BY <1>1, <2>1
<1>. QED
  BY <1>4, <1>5, <1>6, <1>7, <1>8, <1>9, <1>10, <1>11, <1>12, <1>13, <1>14, <1>15, <1>16
  DEF Next, LoopStep

\* No book is disturbed by a step that keeps every message of a user, or gives it up.
LEMMA BooksKept ==
    ASSUME BooksInv, nextUser' = nextUser, discarded \subseteq discarded', Held' \subseteq Held,
           \A m \in Held : m \in Held' \/ m.id \in discarded'
    PROVE  BooksInv'
BY DEF BooksInv

\* Every step keeps the messages of each channel in line, and none gets lost.
LEMMA DeliverStep ==
    ASSUME TypeInv, DeliverInv, [Next]_vars
    PROVE  LineInv' /\ BooksInv'
<1> /\ started \in Seq(Nat) /\ todo \in Seq(Nat) /\ NonEmpty /\ pc \in PCs
    /\ messages \in Seq(Message) /\ outbox \in Seq(Message) /\ nextUser \in Nat
    /\ steeringQueue \in Seq(UserMessages) /\ followUpQueue \in Seq(UserMessages)
    /\ steeringQueue \in Seq(Message) /\ followUpQueue \in Seq(Message)
    /\ Elems(<<>>) = {}
    /\ OutboxInv /\ LineInv /\ BooksInv /\ nextCall \in Nat
  BY UserMessageSeq, ElemsFew
  DEF TypeInv, TypeOK, BatchType, RunType, QueueType, AuxType, DeliverInv
<1> /\ messages' \in Seq(Message) /\ outbox' \in Seq(Message)
    /\ steeringQueue' \in Seq(Message) /\ followUpQueue' \in Seq(Message)
  BY TypeNext, UserMessageSeq DEF TypeInv, TypeOK, RunType, QueueType
<1> USE DEF stateVars, queueVars, runVars, batchVars, auxVars
<1>1. ASSUME UNCHANGED <<messages, outbox, steeringQueue, followUpQueue, nextUser, discarded>>
      PROVE  LineInv' /\ BooksInv'
  BY <1>1 DEF LineInv, BooksInv, Held, Everywhere
<1>2. CASE UNCHANGED vars \/ ContinueTranscript \/ SetSteeringMode \/ SetFollowUpMode \/ Abort
           \/ AgentStart \/ PromptStart \/ TurnStart \/ InjectStart \/ StreamStart \/ StreamThrows
           \/ ToolStart \/ ToolPrepared \/ NextTool \/ ResultStart \/ BatchDone \/ TurnEnd
           \/ AgentEnd \/ FailStart \/ FailTurnEnd \/ FailAgentEnd \/ ToolStep
  <2>1. CASE ContinueTranscript
    <3>1. outbox = <<>>
      BY <2>1 DEF ContinueTranscript, OutboxInv
    <3>. QED
      BY <1>1, <2>1, <3>1 DEF ContinueTranscript, BeginRun
  <2>2. CASE ToolStep
    BY <1>1, <2>2 DEF ToolStep, ToolSettles, OrphanSettles, EndListenersSettle,
       OrphanListenersSettle
  <2>. QED
    BY <1>1, <1>2, <2>1, <2>2
    DEF vars, SetSteeringMode, SetFollowUpMode, Abort, AgentStart, PromptStart, TurnStart,
        InjectStart, StreamStart, StreamThrows, ToolStart, ToolPrepared, NextTool, ResultStart,
        BatchDone, TurnEnd, AgentEnd, FailStart, FailTurnEnd, FailAgentEnd, EmitMessageStart
<1>3. ASSUME UNCHANGED <<messages, steeringQueue, followUpQueue, nextUser>>,
             discarded \subseteq discarded',
             \A m \in Elems(outbox') : m.role # "user",
             \A m \in Elems(outbox) : m.role = "user" => m.id \in discarded'
      PROVE  LineInv' /\ BooksInv'
  <2>1. Held' \subseteq Held /\ \A m \in Held : m \in Held' \/ m.id \in discarded'
    BY <1>3 DEF Held, Everywhere
  <2>2. \A m \in Elems(outbox') : ~From(m, "steer") /\ ~From(m, "followUp")
    BY <1>3 DEF From
  <2>3. LineInv'
    BY <1>3, <2>2, InLinePending DEF LineInv
  <2>. QED
    BY <1>3, <2>1, <2>3, BooksKept
<1>4. CASE ToolImmediate \/ ExecDone
  <2>1. outbox = <<>>
    BY <1>4 DEF ToolImmediate, ExecDone, Goto, OutboxInv
  <2>2. /\ UNCHANGED <<messages, steeringQueue, followUpQueue, nextUser, discarded>>
        /\ \/ outbox' = outbox
           \/ \E c : outbox' = <<ResultMsg(c)>>
           \/ outbox' = Answers(started)
    BY <1>4 DEF ToolImmediate, ExecDone
  <2>3. \A c : \A m \in Elems(<<ResultMsg(c)>>) : m.role # "user"
    BY ElemsFew DEF ResultMsg
  <2>4. \A m \in Elems(Answers(started)) : m.role # "user"
    BY DEF Answers, Elems, ResultMsg
  <2>5. \A m \in Elems(outbox') : m.role # "user"
    BY <2>1, <2>2, <2>3, <2>4
  <2>. QED
    BY <1>3, <2>1, <2>2, <2>5
<1>5. CASE Failed
  <2>1. PICK m : outbox' = <<m>> /\ m.role = "assistant"
    BY <1>5 DEF Failed, AssistantMsg
  <2>2. Elems(outbox') = {m}
    BY <2>1, ElemsFew
  <2>3. /\ UNCHANGED <<messages, steeringQueue, followUpQueue, nextUser>>
        /\ discarded' = discarded \union UserIds(outbox)
    BY <1>5 DEF Failed
  <2>. QED
    BY <1>3, <2>1, <2>2, <2>3 DEF UserIds
<1>6. CASE Finish
  <2>1. /\ UNCHANGED <<messages, steeringQueue, followUpQueue, nextUser, discarded>>
        /\ outbox' = <<>> /\ pc = "finish"
    BY <1>6 DEF Finish, Goto
  <2>. QED
    BY <1>3, <2>1 DEF OutboxInv
<1>7. CASE Prompt
  <2> DEFINE prompt == UserMsg(nextUser + 1, "prompt")
  <2>1. /\ UNCHANGED <<messages, steeringQueue, followUpQueue, discarded>> /\ pc = "idle"
        /\ outbox' = <<prompt>> /\ nextUser' = nextUser + 1
    BY <1>7 DEF Prompt, BeginRun
  <2>2. prompt.role = "user" /\ prompt.id = nextUser + 1 /\ prompt.via = "prompt"
    BY DEF UserMsg
  <2> HIDE DEF prompt
  <2>3. Elems(outbox') = {prompt} /\ outbox = <<>>
    BY <2>1, ElemsFew DEF OutboxInv
  <2>4. ~From(prompt, "steer") /\ ~From(prompt, "followUp")
    BY <2>2 DEF From
  <2>5. LineInv'
    BY <2>1, <2>3, <2>4, InLinePending DEF LineInv
  <2>6. Held' = Held \union {prompt}
    BY <2>1, <2>2, <2>3 DEF Held, Everywhere
  <2>7. 1..nextUser' = 1..nextUser \union {prompt.id}
    BY <2>1, <2>2
  <2>. QED
    BY <2>1, <2>5, <2>6, <2>7 DEF BooksInv
<1>8. CASE Steer
  <2> DEFINE next == UserMsg(nextUser + 1, "steer")
  <2>1. /\ UNCHANGED <<messages, outbox, followUpQueue, discarded>>
        /\ steeringQueue' = Append(steeringQueue, next) /\ nextUser' = nextUser + 1
    BY <1>8 DEF Steer
  <2>2. /\ next.role = "user" /\ next.id = nextUser + 1 /\ next.via = "steer"
        /\ next \in Message
    <3>1. nextUser + 1 \in Nat /\ "steer" \in Channels
      BY DEF Channels
    <3>2. next \in Message
      BY <3>1, MessageTypes
    <3>. QED
      BY <3>2 DEF UserMsg
  <2> HIDE DEF next
  <2>3. /\ Elems(steeringQueue') = Elems(steeringQueue) \union {next}
        /\ Elems(<<next>>) = {next}
    BY <2>1, <2>2, ElemsAppend, ElemsFew
  <2>4. \A m \in Elems(messages) \union Elems(outbox) \union Elems(steeringQueue) :
            m.role = "user" => m.id < next.id
    BY <2>2 DEF BooksInv, Held, Everywhere
  <2>5. Before(steeringQueue, <<next>>, "steer")
    BY <2>3, <2>4 DEF Before, From, Number
  <2>6. Ordered(steeringQueue', "steer")
    BY <2>1, <2>2, <2>5, OrderedAppend DEF LineInv, InLine
  <2>7. InLine(messages, outbox, steeringQueue', "steer")
    BY <2>3, <2>4, <2>6 DEF LineInv, InLine, Before, From, Number
  <2>8. LineInv'
    BY <2>1, <2>2, <2>3, <2>7 DEF LineInv
  <2>9. Held' = Held \union {next}
    BY <2>1, <2>2, <2>3 DEF Held, Everywhere
  <2>10. 1..nextUser' = 1..nextUser \union {next.id}
    <3>1. 1..(nextUser + 1) = 1..nextUser \union {nextUser + 1}
      OBVIOUS
    <3>. QED
      BY <2>1, <2>2, <3>1
  <2>. QED
    BY <2>1, <2>8, <2>9, <2>10 DEF BooksInv
<1>9. CASE FollowUp
  <2> DEFINE next == UserMsg(nextUser + 1, "followUp")
  <2>1. /\ UNCHANGED <<messages, outbox, steeringQueue, discarded>>
        /\ followUpQueue' = Append(followUpQueue, next) /\ nextUser' = nextUser + 1
    BY <1>9 DEF FollowUp
  <2>2. /\ next.role = "user" /\ next.id = nextUser + 1 /\ next.via = "followUp"
        /\ next \in Message
    <3>1. nextUser + 1 \in Nat /\ "followUp" \in Channels
      BY DEF Channels
    <3>2. next \in Message
      BY <3>1, MessageTypes
    <3>. QED
      BY <3>2 DEF UserMsg
  <2> HIDE DEF next
  <2>3. /\ Elems(followUpQueue') = Elems(followUpQueue) \union {next}
        /\ Elems(<<next>>) = {next}
    BY <2>1, <2>2, ElemsAppend, ElemsFew
  <2>4. \A m \in Elems(messages) \union Elems(outbox) \union Elems(followUpQueue) :
            m.role = "user" => m.id < next.id
    BY <2>2 DEF BooksInv, Held, Everywhere
  <2>5. Before(followUpQueue, <<next>>, "followUp")
    BY <2>3, <2>4 DEF Before, From, Number
  <2>6. Ordered(followUpQueue', "followUp")
    BY <2>1, <2>2, <2>5, OrderedAppend DEF LineInv, InLine
  <2>7. InLine(messages, outbox, followUpQueue', "followUp")
    BY <2>3, <2>4, <2>6 DEF LineInv, InLine, Before, From, Number
  <2>8. LineInv'
    BY <2>1, <2>2, <2>3, <2>7 DEF LineInv
  <2>9. Held' = Held \union {next}
    BY <2>1, <2>2, <2>3 DEF Held, Everywhere
  <2>10. 1..nextUser' = 1..nextUser \union {next.id}
    <3>1. 1..(nextUser + 1) = 1..nextUser \union {nextUser + 1}
      OBVIOUS
    <3>. QED
      BY <2>1, <2>2, <3>1
  <2>. QED
    BY <2>1, <2>8, <2>9, <2>10 DEF BooksInv
<1>10. CASE ClearSteeringQueue \/ ClearFollowUpQueue
  <2>1. /\ UNCHANGED <<messages, outbox, nextUser>> /\ discarded \subseteq discarded'
        /\ \/ steeringQueue' = <<>> /\ UserIds(steeringQueue) \subseteq discarded'
           \/ steeringQueue' = steeringQueue
        /\ \/ followUpQueue' = <<>> /\ UserIds(followUpQueue) \subseteq discarded'
           \/ followUpQueue' = followUpQueue
    BY <1>10 DEF ClearSteeringQueue, ClearFollowUpQueue
  <2>2. Held' \subseteq Held /\ \A m \in Held : m \in Held' \/ m.id \in discarded'
    BY <2>1 DEF Held, Everywhere, UserIds
  <2>3. \A via : Ordered(<<>>, via)
    BY OrderedFew
  <2>4. LineInv'
    BY <2>1, <2>3 DEF LineInv, InLine, Before
  <2>. QED
    BY <2>1, <2>2, <2>4, BooksKept
<1>11. CASE Reset
  <2>1. /\ messages' = <<>> /\ steeringQueue' = <<>> /\ followUpQueue' = <<>>
        /\ UNCHANGED <<outbox, nextUser>>
        /\ discarded' = discarded \union UserIds(messages \o steeringQueue \o followUpQueue)
    BY <1>11 DEF Reset
  <2>2. Elems(messages \o steeringQueue \o followUpQueue)
            = Elems(messages) \union Elems(steeringQueue) \union Elems(followUpQueue)
    <3> DEFINE both == messages \o steeringQueue
    <3>1. both \in Seq(Message) /\ Elems(both) = Elems(messages) \union Elems(steeringQueue)
      BY ElemsConcat
    <3> HIDE DEF both
    <3>2. Elems(both \o followUpQueue) = Elems(both) \union Elems(followUpQueue)
      BY <3>1, ElemsConcat
    <3>. QED
      BY <3>1, <3>2 DEF both
  <2>3. Held' \subseteq Held /\ \A m \in Held : m \in Held' \/ m.id \in discarded'
    BY <2>1, <2>2 DEF Held, Everywhere, UserIds
  <2>4. \A via : Ordered(<<>>, via)
    BY OrderedFew
  <2>5. LineInv'
    BY <2>1, <2>4 DEF LineInv, InLine, Before
  <2>. QED
    BY <2>1, <2>3, <2>5, BooksKept
<1>12. CASE ContinueSteering \/ PollFirst \/ PollSteer
  <2>1. /\ UNCHANGED <<messages, followUpQueue, nextUser, discarded>> /\ outbox = <<>>
        /\ \/ outbox' = <<>> /\ steeringQueue' = steeringQueue
           \/ /\ outbox' = Drained(steeringQueue, steeringMode)
              /\ steeringQueue' = Left(steeringQueue, steeringMode)
    BY <1>12 DEF ContinueSteering, BeginRun, PollFirst, PollSteer, Goto, OutboxInv
  <2>2. CASE outbox' = <<>> /\ steeringQueue' = steeringQueue
    BY <1>1, <2>1, <2>2
  <2>3. CASE /\ outbox' = Drained(steeringQueue, steeringMode)
             /\ steeringQueue' = Left(steeringQueue, steeringMode)
    <3>1. Elems(steeringQueue) = Elems(outbox') \union Elems(steeringQueue')
      BY <2>3, DrainElems
    <3>2. Everywhere' = Everywhere
      BY <2>1, <3>1 DEF Everywhere
    <3>3. BooksInv'
      BY <2>1, <3>2 DEF BooksInv, Held
    <3>4. InLine(messages, outbox', steeringQueue', "steer")
      BY <2>1, <2>3, InLineDrain DEF LineInv
    <3>5. \A m \in Elems(outbox') : ~From(m, "followUp")
      BY <3>1 DEF LineInv, From
    <3>6. InLine(messages, outbox', followUpQueue, "followUp")
      BY <3>5, InLinePending DEF LineInv
    <3>. QED
      BY <2>1, <3>1, <3>3, <3>4, <3>6 DEF LineInv
  <2>. QED
    BY <2>1, <2>2, <2>3
<1>13. CASE ContinueFollowUp \/ PollFollowUp
  <2>1. /\ UNCHANGED <<messages, steeringQueue, nextUser, discarded>> /\ outbox = <<>>
        /\ \/ outbox' = <<>> /\ followUpQueue' = followUpQueue
           \/ /\ outbox' = Drained(followUpQueue, followUpMode)
              /\ followUpQueue' = Left(followUpQueue, followUpMode)
    BY <1>13 DEF ContinueFollowUp, BeginRun, PollFollowUp, Goto, OutboxInv
  <2>2. CASE outbox' = <<>> /\ followUpQueue' = followUpQueue
    BY <1>1, <2>1, <2>2
  <2>3. CASE /\ outbox' = Drained(followUpQueue, followUpMode)
             /\ followUpQueue' = Left(followUpQueue, followUpMode)
    <3>1. Elems(followUpQueue) = Elems(outbox') \union Elems(followUpQueue')
      BY <2>3, DrainElems
    <3>2. Everywhere' = Everywhere
      BY <2>1, <3>1 DEF Everywhere
    <3>3. BooksInv'
      BY <2>1, <3>2 DEF BooksInv, Held
    <3>4. InLine(messages, outbox', followUpQueue', "followUp")
      BY <2>1, <2>3, InLineDrain DEF LineInv
    <3>5. \A m \in Elems(outbox') : ~From(m, "steer")
      BY <3>1 DEF LineInv, From
    <3>6. InLine(messages, outbox', steeringQueue, "steer")
      BY <3>5, InLinePending DEF LineInv
    <3>. QED
      BY <2>1, <3>1, <3>3, <3>4, <3>6 DEF LineInv
  <2>. QED
    BY <2>1, <2>2, <2>3
<1>14. CASE PromptEnd \/ InjectEnd \/ ResultEnd \/ FailEnd
  <2>1. /\ messages' = Append(messages, Head(outbox)) /\ outbox' = Tail(outbox)
        /\ UNCHANGED <<steeringQueue, followUpQueue, nextUser, discarded>> /\ outbox # <<>>
    BY <1>14 DEF PromptEnd, InjectEnd, ResultEnd, FailEnd, EmitMessageEnd, NonEmpty
  <2>2. Elems(messages') \union Elems(outbox') = Elems(messages) \union Elems(outbox)
    BY <2>1, EmitElems
  <2>3. Everywhere' = Everywhere
    BY <2>1, <2>2 DEF Everywhere
  <2>4. BooksInv'
    BY <2>1, <2>3 DEF BooksInv, Held
  <2>5. LineInv'
    BY <2>1, InLineEmit DEF LineInv
  <2>. QED
    BY <2>4, <2>5
<1>15. ASSUME NEW stop \in {"stop", "length"} \union FailedStops, NEW n \in Nat, StreamEnd(stop, n)
       PROVE  LineInv' /\ BooksInv'
  <2> DEFINE calls == [i \in 1..n |-> nextCall + i]
             message == AssistantMsg(stop, calls)
  <2>1. /\ messages' = Append(messages, message) /\ pc \in {"stream", "streaming"}
        /\ UNCHANGED <<outbox, steeringQueue, followUpQueue, nextUser, discarded>>
    BY <1>15 DEF StreamEnd
  <2>2. message \in Message /\ message.role = "assistant"
    <3>1. calls \in Seq(Nat)
      OBVIOUS
    <3>. HIDE DEF calls
    <3>2. message \in Message
      BY <3>1, MessageTypes
    <3>. QED
      BY <3>2 DEF AssistantMsg
  <2> HIDE DEF message, calls
  <2>3. /\ Elems(messages') = Elems(messages) \union {message} /\ outbox = <<>>
        /\ Elems(<<message>>) = {message}
    BY <2>1, <2>2, ElemsAppend, ElemsFew DEF OutboxInv
  <2>4. \A via : ~From(message, via)
    BY <2>2 DEF From
  <2>5. \A via : Ordered(messages, via) => Ordered(messages', via)
    <3>1. \A via : Before(messages, <<message>>, via)
      BY <2>3, <2>4 DEF Before
    <3>. QED
      BY <2>1, <2>2, <3>1, OrderedAppend
  <2>6. LineInv'
    BY <2>1, <2>3, <2>4, <2>5 DEF LineInv, InLine, Before
  <2>7. Held' = Held
    BY <2>1, <2>2, <2>3 DEF Held, Everywhere
  <2>. QED
    BY <2>1, <2>6, <2>7 DEF BooksInv
<1>16. 0..MaxPerMessage \subseteq Nat
  BY AgentAssumption
<1>. QED
  BY <1>2, <1>4, <1>5, <1>6, <1>7, <1>8, <1>9, <1>10, <1>11, <1>12, <1>13, <1>14, <1>15, <1>16
  DEF Next, Application, LoopStep

\* Every message that the application queued is delivered in the order of its queue,
\* at most once, and none gets lost: it is queued, pending or in the transcript, unless
\* it was cleared, reset or given up with its run, for every choice of queue modes, of
\* batches, of throwing listeners and of calls between two steps of the loop.
THEOREM QueuedDeliveredHolds == Spec => []QueuedDelivered
<1>1. Init => TypeInv /\ DeliverInv
  BY TypeInit, DeliverInit
<1>2. TypeInv /\ DeliverInv /\ [Next]_vars => (TypeInv /\ DeliverInv)'
  BY TypeNext, OutboxStep, DeliverStep DEF DeliverInv
<1>3. TypeInv /\ DeliverInv => QueuedDelivered
  <2> SUFFICES ASSUME TypeInv, DeliverInv PROVE QueuedDelivered
    OBVIOUS
  <2>1. /\ messages \in Seq(Message) /\ outbox \in Seq(Message)
        /\ steeringQueue \in Seq(Message) /\ followUpQueue \in Seq(Message)
    BY UserMessageSeq DEF TypeInv, TypeOK, RunType, QueueType
  <2>2. ASSUME NEW queue \in Seq(Message), NEW via \in Channels,
               InLine(messages, outbox, queue, via)
        PROVE  InQueueOrder(queue, via)
    <3>1. Ordered(messages \o outbox \o queue, via)
      BY <2>1, <2>2, InLineConcat
    <3>2. via # "toolResult"
      BY <2>2 DEF Channels
    <3>3. DOMAIN (messages \o outbox \o queue) = 1..Len(messages \o outbox \o queue)
      BY <2>1
    <3>. QED
      BY <3>1, <3>2, <3>3 DEF InQueueOrder, Ordered, From, Number
  <2>3. FirstInFirstOut
    BY <2>1, <2>2 DEF FirstInFirstOut, DeliverInv, LineInv, Channels
  <2>4. Elems(messages \o outbox \o steeringQueue \o followUpQueue) = Everywhere
    <3> DEFINE emitted == messages \o outbox
               sent == emitted \o steeringQueue
    <3>1. emitted \in Seq(Message) /\ Elems(emitted) = Elems(messages) \union Elems(outbox)
      BY <2>1, ElemsConcat
    <3> HIDE DEF emitted
    <3>2. sent \in Seq(Message) /\ Elems(sent) = Elems(emitted) \union Elems(steeringQueue)
      BY <2>1, <3>1, ElemsConcat
    <3> HIDE DEF sent
    <3>3. Elems(sent \o followUpQueue) = Elems(sent) \union Elems(followUpQueue)
      BY <2>1, <3>2, ElemsConcat
    <3>. QED
      BY <3>1, <3>2, <3>3 DEF Everywhere, emitted, sent
  <2>5. NothingLost
    BY <2>4 DEF NothingLost, UserIds, DeliverInv, BooksInv, Held
  <2>. QED
    BY <2>3, <2>5 DEF QueuedDelivered
<1>. QED
  BY <1>1, <1>2, <1>3, PTL DEF Spec

(***************************************************************************)
(* One steering message per request                                        *)
(***************************************************************************)

\* A run that still may poll before its first turn was not started with steering
\* messages; and after a turn the model has answered those that the run took.
SteersAnswered(s) ==
    \A i \in 1..Len(s) : From(s[i], "steer") => \E k \in i..Len(s) : s[k].role = "assistant"
SteerInv ==
    /\ pc \in {"start", "prompt", "promptEnd", "pollFirst"} /\ ~skipPoll =>
           \A m \in Elems(newMessages) : ~From(m, "steer")
    /\ pc \in BatchPcs \union {"turnEnd", "pollSteer"} => SteersAnswered(newMessages)

\* What the model has answered stays answered, whatever is added to it.
LEMMA AnsweredGrows ==
    ASSUME NEW s \in Seq(Message), NEW t \in Seq(Message), SteersAnswered(s),
           \A m \in Elems(t) : ~From(m, "steer")
    PROVE  SteersAnswered(s \o t)
<1> DEFINE both == s \o t
<1>1. /\ Len(s) \in Nat /\ Len(t) \in Nat /\ Len(both) = Len(s) + Len(t)
      /\ \A i \in 1..Len(s) : both[i] = s[i]
      /\ \A i \in 1..Len(t) : both[Len(s) + i] = t[i] /\ t[i] \in Elems(t)
  BY DEF Elems
<1> HIDE DEF both
<1>2. ASSUME NEW i \in 1..Len(both), From(both[i], "steer")
      PROVE  \E k \in i..Len(both) : both[k].role = "assistant"
  <2>1. i \in 1..Len(s)
    <3>1. ASSUME i \notin 1..Len(s)
          PROVE  FALSE
      <4>1. i - Len(s) \in 1..Len(t) /\ i = Len(s) + (i - Len(s))
        BY <1>1, <3>1
      <4>. QED
        BY <1>1, <1>2, <4>1
    <3>. QED
      BY <3>1
  <2>2. PICK k \in i..Len(s) : s[k].role = "assistant"
    BY <1>1, <1>2, <2>1 DEF SteersAnswered
  <2>3. k \in 1..Len(s) /\ k \in i..Len(both)
    BY <1>1, <2>1
  <2>. QED
    BY <1>1, <2>2, <2>3
<1>. QED
  BY <1>2 DEF SteersAnswered, both

\* Every step keeps what is known of the steering messages of the run.
LEMMA SteerStep ==
    ASSUME TypeInv, DeliverInv, SteerInv, [Next]_vars
    PROVE  SteerInv'
<1> /\ started \in Seq(Nat) /\ pc \in PCs /\ newMessages \in Seq(Message)
    /\ newMessages' \in Seq(Message) /\ followUpQueue \in Seq(UserMessages)
    /\ LineInv /\ Elems(<<>>) = {} /\ skipPoll \in BOOLEAN
  <2>1. TypeInv'
    BY TypeNext
  <2>. QED
    BY <2>1, ElemsFew DEF TypeInv, TypeOK, BatchType, RunType, QueueType, FlagType, DeliverInv
<1> USE DEF stateVars, queueVars, runVars, batchVars, auxVars
<1> DEFINE Early == {"start", "prompt", "promptEnd", "pollFirst"}
           Late == BatchPcs \union {"turnEnd", "pollSteer"}
<1>1. ASSUME UNCHANGED <<newMessages, skipPoll>>, pc' \in Early => pc \in Early,
             pc' \in Late => pc \in Late
      PROVE  SteerInv'
  BY <1>1 DEF SteerInv
<1>2. ASSUME pc' \notin Early \union Late
      PROVE  SteerInv'
  BY <1>2 DEF SteerInv
<1>3. CASE Prompt \/ ContinueTranscript \/ ContinueSteering \/ ContinueFollowUp
  <2> DEFINE prompt == UserMsg(nextUser + 1, "prompt")
  <2>1. /\ pc' = "start"
        /\ \/ skipPoll' = TRUE
           \/ newMessages' = <<prompt>>
           \/ newMessages' = <<>>
           \/ newMessages' = Drained(followUpQueue, followUpMode)
    BY <1>3 DEF Prompt, ContinueTranscript, ContinueSteering, ContinueFollowUp, BeginRun
  <2>2. \A m \in Elems(<<prompt>>) : ~From(m, "steer")
    BY ElemsFew DEF From, UserMsg
  <2>3. \A m \in Elems(Drained(followUpQueue, followUpMode)) : ~From(m, "steer")
    BY DrainElems DEF LineInv, From
  <2>. QED
    BY <2>1, <2>2, <2>3 DEF SteerInv, BatchPcs
<1>4. CASE Steer \/ FollowUp \/ ClearSteeringQueue \/ ClearFollowUpQueue \/ SetSteeringMode
           \/ SetFollowUpMode \/ Abort \/ Reset \/ ToolStep \/ UNCHANGED vars
  <2>1. UNCHANGED <<newMessages, skipPoll>> /\ (pc' = pc \/ pc' = "failed")
    BY <1>4 DEF Steer, FollowUp, ClearSteeringQueue, ClearFollowUpQueue, SetSteeringMode,
       SetFollowUpMode, Abort, Reset, vars, ToolStep, ToolSettles, OrphanSettles,
       EndListenersSettle, OrphanListenersSettle, Settle, SettleOr
  <2>. QED
    BY <1>1, <1>2, <2>1 DEF BatchPcs
<1>5. CASE AgentStart \/ PromptStart \/ PromptEnd
  <2>1. UNCHANGED <<newMessages, skipPoll>> /\ pc \in Early /\ pc' \in Early \union {"failed"}
    BY <1>5 DEF AgentStart, PromptStart, PromptEnd, EmitMessageStart, EmitMessageEnd, Settle, SettleOr
  <2>. QED
    BY <1>1, <1>2, <2>1 DEF BatchPcs
<1>6. CASE PollFirst \/ TurnStart \/ InjectStart \/ InjectEnd \/ StreamStart \/ StreamThrows
           \/ PollSteer \/ PollFollowUp \/ AgentEnd \/ Failed \/ FailStart \/ FailEnd
           \/ FailTurnEnd \/ FailAgentEnd \/ Finish
  <2>1. pc' \notin Early \union Late
    BY <1>6 DEF PollFirst, TurnStart, InjectStart, InjectEnd, StreamStart, StreamThrows, PollSteer,
       PollFollowUp, AgentEnd, Failed, FailStart, FailEnd, FailTurnEnd, FailAgentEnd, Finish,
       EmitMessageStart, EmitMessageEnd, Settle, SettleOr, Goto, BatchPcs
  <2>. QED
    BY <1>2, <2>1
<1>7. CASE ToolStart \/ ToolImmediate \/ ToolPrepared \/ NextTool \/ ExecDone \/ ResultStart
           \/ ResultEnd \/ TurnEnd
  <2>1. UNCHANGED <<newMessages, skipPoll>> /\ pc \in Late /\ pc' \notin Early
    BY <1>7 DEF ToolStart, ToolImmediate, ToolPrepared, NextTool, ExecDone, ResultStart, ResultEnd,
       TurnEnd, EmitMessageStart, EmitMessageEnd, Settle, SettleOr, Goto, BatchPcs
  <2>. QED
    BY <1>1, <2>1
<1>8. ASSUME NEW stop \in {"stop", "length"} \union FailedStops, NEW n \in Nat, StreamEnd(stop, n)
      PROVE  SteerInv'
  <2> DEFINE message == AssistantMsg(stop, [i \in 1..n |-> nextCall + i])
  <2>1. newMessages' = Append(newMessages, message) /\ pc' \notin Early
    BY <1>8 DEF StreamEnd, Settle, SettleOr
  <2>2. message.role = "assistant"
    BY DEF AssistantMsg
  <2> HIDE DEF message
  <2>3. /\ Len(newMessages') = Len(newMessages) + 1 /\ Len(newMessages) \in Nat
        /\ newMessages'[Len(newMessages) + 1] = message
    BY <2>1
  <2>4. SteersAnswered(newMessages')
    <3>1. \A i \in 1..Len(newMessages') : Len(newMessages) + 1 \in i..Len(newMessages')
      BY <2>3
    <3>. QED
      BY <2>2, <2>3, <3>1 DEF SteersAnswered
  <2>. QED
    BY <2>1, <2>4 DEF SteerInv
<1>9. CASE BatchDone
  <2>1. newMessages' = newMessages \o Answers(started) /\ pc = "batchDone" /\ pc' = "turnEnd"
    BY <1>9 DEF BatchDone, Goto
  <2>2. /\ Answers(started) \in Seq(Message)
        /\ \A m \in Elems(Answers(started)) : ~From(m, "steer")
    <3>1. \A m \in Elems(Answers(started)) : m.role = "toolResult"
      BY DEF Answers, Elems, ResultMsg
    <3>. QED
      BY <3>1, AnswerTypes DEF From
  <2>3. SteersAnswered(newMessages')
    BY <2>1, <2>2, AnsweredGrows DEF SteerInv, BatchPcs
  <2>. QED
    BY <2>1, <2>3 DEF SteerInv
<1>10. 0..MaxPerMessage \subseteq Nat
  BY AgentAssumption
<1>. QED
  BY <1>3, <1>4, <1>5, <1>6, <1>7, <1>8, <1>9, <1>10 DEF Next, Application, LoopStep

\* What a run takes from the steering queue, it takes in its polls, or gives up.
LEMMA TakenInPolls ==
    ASSUME TypeInv, [Next]_vars, pc # "idle", Taken # {}
    PROVE  /\ (pc = "pollFirst" /\ ~skipPoll) \/ pc = "pollSteer"
           /\ UNCHANGED newMessages
           /\ steeringQueue' = Left(steeringQueue, steeringMode)
<1> /\ steeringQueue \in Seq(UserMessages) /\ nextUser + 1 \in Nat
  BY DEF TypeInv, TypeOK, QueueType, AuxType
<1> USE DEF stateVars, queueVars, runVars, batchVars, auxVars
<1>1. CASE PollFirst \/ PollSteer
  <2>1. CASE steeringQueue' = steeringQueue
    BY <2>1 DEF Taken
  <2>2. CASE steeringQueue' # steeringQueue
    BY <1>1, <2>2 DEF PollFirst, PollSteer, Goto
  <2>. QED
    BY <1>1, <2>1, <2>2 DEF PollFirst, PollSteer, Goto
<1>2. CASE Steer
  <2> DEFINE next == UserMsg(nextUser + 1, "steer")
  <2>1. steeringQueue' = Append(steeringQueue, next)
    BY <1>2 DEF Steer
  <2>2. next \in UserMessages
    BY MessageTypes DEF Channels
  <2> HIDE DEF next
  <2>3. Elems(steeringQueue) \subseteq Elems(steeringQueue')
    BY <2>1, <2>2, ElemsAppend
  <2>. QED
    BY <2>3 DEF Taken, UserIds
<1>3. CASE ClearSteeringQueue
  BY <1>3 DEF ClearSteeringQueue, Taken
<1>4. CASE Reset
  <2>1. /\ messages \in Seq(Message) /\ steeringQueue \in Seq(Message)
        /\ followUpQueue \in Seq(Message)
    BY UserMessageSeq DEF TypeInv, TypeOK, RunType, QueueType
  <2> DEFINE both == messages \o steeringQueue
  <2>2. both \in Seq(Message) /\ Elems(both) = Elems(messages) \union Elems(steeringQueue)
    BY <2>1, ElemsConcat
  <2> HIDE DEF both
  <2>3. Elems(both \o followUpQueue) = Elems(both) \union Elems(followUpQueue)
    BY <2>1, <2>2, ElemsConcat
  <2>4. discarded' = discarded \union UserIds(both \o followUpQueue)
    BY <1>4 DEF Reset, both
  <2>. QED
    BY <2>2, <2>3, <2>4 DEF Taken, UserIds
<1>5. CASE ~(PollFirst \/ PollSteer \/ Steer \/ ClearSteeringQueue \/ Reset)
  <2>1. steeringQueue' = steeringQueue
    BY <1>5 DEF Next, Application, LoopStep, ToolStep, Prompt, ContinueTranscript,
       ContinueSteering, ContinueFollowUp, BeginRun, FollowUp, ClearFollowUpQueue, SetSteeringMode,
       SetFollowUpMode, Abort, vars, AgentStart, PromptStart, PromptEnd, TurnStart, InjectStart,
       InjectEnd, StreamStart, StreamThrows, StreamEnd, ToolStart, ToolImmediate, ToolPrepared,
       NextTool, ExecDone, ResultStart, ResultEnd, BatchDone, TurnEnd, PollFollowUp, AgentEnd,
       Failed, FailStart, FailEnd, FailTurnEnd, FailAgentEnd, Finish, EmitMessageStart,
       EmitMessageEnd, ToolSettles, OrphanSettles, EndListenersSettle, OrphanListenersSettle
  <2>. QED
    BY <2>1 DEF Taken
<1>. QED
  BY <1>1, <1>2, <1>3, <1>4, <1>5

\* In one-at-a-time mode a run takes one steering message at a time, and the next one
\* only when the model has answered those it took before.
THEOREM OneSteerPerRequestHolds == Spec => OneSteerPerRequest
<1> DEFINE Inv == TypeInv /\ DeliverInv /\ SteerInv
           OneSteer == pc # "idle" /\ steeringMode = "one-at-a-time" /\ Taken # {} =>
               /\ Cardinality(Taken) = 1
               /\ \A i \in DOMAIN newMessages :
                     newMessages[i].role = "user" /\ newMessages[i].via = "steer" =>
                         \E k \in i..Len(newMessages) : newMessages[k].role = "assistant"
<1>1. Init => Inv
  BY TypeInit, DeliverInit DEF Init, SteerInv, BatchPcs
<1>2. Inv /\ [Next]_vars => Inv'
  BY TypeNext, OutboxStep, DeliverStep, SteerStep DEF DeliverInv
<1>3. Inv /\ [Next]_vars => [OneSteer]_vars
  <2> SUFFICES ASSUME Inv, [Next]_vars, pc # "idle", steeringMode = "one-at-a-time", Taken # {}
               PROVE  /\ Cardinality(Taken) = 1
                      /\ \A i \in DOMAIN newMessages :
                            newMessages[i].role = "user" /\ newMessages[i].via = "steer" =>
                                \E k \in i..Len(newMessages) : newMessages[k].role = "assistant"
    OBVIOUS
  <2>1. /\ newMessages \in Seq(Message) /\ steeringQueue \in Seq(UserMessages)
        /\ DOMAIN newMessages = 1..Len(newMessages)
    BY DEF TypeInv, TypeOK, RunType, QueueType
  <2>2. /\ (pc = "pollFirst" /\ ~skipPoll) \/ pc = "pollSteer"
        /\ steeringQueue' = Left(steeringQueue, steeringMode)
    BY TakenInPolls
  <2>3. SteersAnswered(newMessages)
    <3>1. CASE pc = "pollSteer"
      BY <3>1 DEF SteerInv
    <3>2. CASE pc = "pollFirst" /\ ~skipPoll
      <4>1. \A i \in 1..Len(newMessages) : newMessages[i] \in Elems(newMessages)
        BY <2>1 DEF Elems
      <4>. QED
        BY <3>2, <4>1 DEF SteerInv, SteersAnswered
    <3>. QED
      BY <2>2, <3>1, <3>2
  <2>4. steeringQueue # <<>>
    BY ElemsFew DEF Taken, UserIds
  <2>5. Elems(steeringQueue) = {Head(steeringQueue)} \union Elems(steeringQueue')
    BY <2>1, <2>2, <2>4, ElemsHead DEF Left
  <2>6. Taken \subseteq {Head(steeringQueue).id}
    BY <2>5 DEF Taken, UserIds
  <2>7. Taken = {Head(steeringQueue).id}
    BY <2>6
  <2>8. Cardinality(Taken) = 1
    BY <2>7, FS_Singleton
  <2>. QED
    BY <2>1, <2>3, <2>8 DEF SteersAnswered, From
<1>. QED
  BY <1>1, <1>2, <1>3, PTL DEF Spec, OneSteerPerRequest
=============================================================================
