---------------------------- MODULE AgentSession ----------------------------
(***************************************************************************)
(* AgentSession (coding-agent, core/agent-session.ts): prompts, retries,   *)
(* compactions and continuations around the runs of an agent, and the      *)
(* session that the agent's messages are saved to.                         *)
(*                                                                         *)
(* The agent's loop, which module Agent models event by event, is reduced  *)
(* to what a session can tell apart: the messages it emits, the queues it  *)
(* drains (one at a time, the default), and when it ends.  A step is what  *)
(* runs between two awaits that something outside may delay: an extension, *)
(* a provider, a tool, a timer.  A message is in the agent's transcript    *)
(* one step before it is in the session: the extensions are told between.  *)
(*                                                                         *)
(* The session is the current branch as a list.  Tokens are abstracted     *)
(* into the kinds of replies; the kept part of a compaction starts at any  *)
(* valid cut point.                                                        *)
(***************************************************************************)
EXTENDS Integers, Sequences, FiniteSets, FiniteSetsExt, SequencesExt

CONSTANTS
    Callers,        \* concurrent calls of prompt() and sendCustomMessage(triggerTurn)
    Distinct,       \* whether no two user messages have the same text
    MaxRetries,     \* settings: retry.maxRetries
    Scenarios,      \* what may happen in a behaviour, as a set of records:
                    \*   ways      the ways the application sends messages
                    \*   kinds     the replies of the model besides "stop" and "aborted"
                    \*   inputs    bound: messages sent by the application
                    \*   replies   bound: replies, when something else than "stop" is replied
                    \*   compacts  bound: calls of compact()
                    \*   aborts    bound: calls of abort() and abortRetry()
    None

\* A reply asks for a tool ("calls"), fills the context ("full": usage over the
\* threshold or the window), is cut off by a full window ("length"), fails in a
\* way that is worth a retry ("error") or because of its size ("overflow").
AllInputs == {"prompt", "turn", "steer", "followUp", "custom", "nextTurn", "bash", "clear"}
AllReplies == {"stop", "aborted", "calls", "full", "length", "error", "overflow"}

ASSUME SessionAssumption ==
    /\ Distinct \in BOOLEAN /\ MaxRetries \in Nat
    /\ Scenarios \subseteq [ways : SUBSET AllInputs, kinds : SUBSET AllReplies,
                             inputs : Nat, replies : Nat, compacts : Nat, aborts : Nat]

VARIABLES
    scenario,     \* the one of Scenarios that takes place
    \* --- the agent
    messages,     \* agent.state.messages
    steerQ, followQ,
    run,          \* the active run of the agent
    \* --- the session
    active,       \* _isAgentRunActive
    connected,    \* whether _handleAgentEvent is subscribed
    branch,       \* the entries of the session
    shownSteer, shownFollow,   \* _steeringMessages, _followUpMessages
    nextTurn,     \* _pendingNextTurnMessages
    bash,         \* _pendingBashMessages
    last,         \* _lastAssistantMessage
    retries,      \* _retryAttempt
    overflowTried,\* _overflowRecoveryAttempted
    \* --- the calls under way
    call,         \* of prompt(), by caller
    comp,         \* of compact()
    \* --- bounds and history
    nextId, inputs, replies, compacts, aborts,
    sent          \* the messages accepted and not given back

agentVars == <<messages, steerQ, followQ, run>>
shownVars == <<shownSteer, shownFollow>>
flagVars == <<last, retries, overflowTried>>
counters == <<inputs, replies, compacts, aborts>>
vars == <<scenario, agentVars, active, connected, branch, shownVars, nextTurn, bash, flagVars,
          call, comp, nextId, counters, sent>>

(***************************************************************************)
(* Messages and the context of the session                                 *)
(***************************************************************************)
UserMsg(id) == [role |-> "user", id |-> id, is |-> IF Distinct THEN id ELSE 0]
AssistantMsg(id, kind) == [role |-> "assistant", id |-> id, is |-> kind]
OtherMsg(id, role) == [role |-> role, id |-> id]
Compaction(id, keep) == [role |-> "compaction", id |-> id, keep |-> keep]

ErrorKinds == {"error", "overflow"}        \* stopReason "error"

IsAssistant(m) == m.role = "assistant"
IsKind(m, kinds) == IsAssistant(m) /\ m.is \in kinds
LastIs(s, P(_)) == s # <<>> /\ P(s[Len(s)])
IdsIn(s) == {s[i].id : i \in DOMAIN s}

LastCompaction(s) == Max({0} \union {i \in DOMAIN s : s[i].role = "compaction"})

\* The items of a list but those at the places in out.
Without(s, out) ==
    LET upTo[n \in 0..Len(s)] ==
          IF n = 0 THEN <<>> ELSE IF n \in out THEN upTo[n - 1] ELSE Append(upTo[n - 1], s[n])
    IN upTo[Len(s)]

NotCompactions(s) == Without(s, {i \in DOMAIN s : s[i].role = "compaction"})

\* buildSessionContext: the summary, the messages kept, those since.
Context(s) ==
    LET c == LastCompaction(s)
        keep == CHOOSE i \in DOMAIN s : s[i].id = s[c].keep
    IN IF c = 0 THEN s
       ELSE <<s[c]>> \o NotCompactions(SubSeq(s, keep, c - 1)) \o SubSeq(s, c + 1, Len(s))

\* prepareCompaction: the first entries that a compaction of s may keep, if it
\* summarizes anything.
Cuts(s) ==
    LET c == LastCompaction(s)
        start == IF c = 0 THEN 1 ELSE CHOOSE i \in DOMAIN s : s[i].id = s[c].keep
        cutPoints == {i \in start..Len(s) : s[i].role \notin {"toolResult", "compaction"}}
    IN IF s = <<>> \/ c = Len(s) THEN {}
       ELSE {s[k].id : k \in {k \in cutPoints : \E i \in start..(k - 1) : s[i].role # "compaction"}}

\* Whether an assistant message is older than the last compaction.
Stale(m) == LET c == LastCompaction(branch) IN c # 0 /\ m.id < branch[c].id

\* The last assistant message that is of none of the kinds, or None.
LastAssistant(s, kinds) ==
    LET at == {i \in DOMAIN s : IsAssistant(s[i]) /\ ~IsKind(s[i], kinds)}
    IN IF at = {} THEN None ELSE s[Max(at)]

Strip(s, kinds) == IF LastIs(s, LAMBDA m : IsKind(m, kinds)) THEN Front(s) ELSE s

HasQueued == steerQ # <<>> \/ followQ # <<>>
NewId == nextId' = nextId + 1

NoRun == [at |-> "none", by |-> None, out |-> <<>>, via |-> "prompt",
          saving |-> None, aborted |-> FALSE]
NoCall == [at |-> "idle", phase |-> "check", batch |-> <<>>, msg |-> None,
           recover |-> FALSE, cut |-> 0]
NoComp == [at |-> "idle", cut |-> 0]

Init ==
    /\ scenario \in Scenarios
    /\ messages = <<>> /\ steerQ = <<>> /\ followQ = <<>> /\ run = NoRun
    /\ active = FALSE /\ connected = TRUE /\ branch = <<>>
    /\ shownSteer = <<>> /\ shownFollow = <<>> /\ nextTurn = <<>> /\ bash = <<>>
    /\ last = None /\ retries = 0 /\ overflowTried = FALSE
    /\ call = [p \in Callers |-> NoCall] /\ comp = NoComp
    /\ nextId = 1 /\ inputs = 0 /\ replies = 0 /\ compacts = 0 /\ aborts = 0 /\ sent = {}

(***************************************************************************)
(* The agent: runs and their messages                                      *)
(***************************************************************************)
\* runWithLifecycle, unless a run is active.
Start(p, at, out, via) ==
    run' = [NoRun EXCEPT !.at = at, !.by = p, !.out = out, !.via = via]

Ready(at) == run.at \in at /\ run.out = <<>> /\ run.saving = None

\* Mutant: a follow-up stays displayed.
Undisplay_SteerOnly(m) ==
    shownSteer' = RemoveFirst(shownSteer, m.is) /\ UNCHANGED shownFollow

\* _handleAgentEvent, message_start of a user message: the display forgets it.
Undisplay(m) ==
    IF Contains(shownSteer, m.is)
    THEN shownSteer' = RemoveFirst(shownSteer, m.is) /\ UNCHANGED shownFollow
    ELSE shownFollow' = RemoveFirst(shownFollow, m.is) /\ UNCHANGED shownSteer

\* The loop emits a message of a prompt or of a queue: the agent appends it to
\* its transcript, and the session is told if it is subscribed.
Deliver ==
    /\ run.out # <<>> /\ run.saving = None
    /\ LET m == Head(run.out) IN
       /\ messages' = Append(messages, m)
       /\ run' = [run EXCEPT !.out = Tail(@), !.saving = IF connected THEN m ELSE None]
       /\ IF connected /\ m.role = "user"
          THEN overflowTried' = FALSE /\ Undisplay(m)
          ELSE UNCHANGED <<overflowTried, shownVars>>
    /\ UNCHANGED <<steerQ, followQ, active, connected, branch, nextTurn, bash, last, retries,
                   call, comp, nextId, counters, sent>>

\* _handleAgentEvent, message_end, once the extensions have been told: the
\* message is saved; a reply that is no error resets the recovery state.
Save ==
    /\ run.saving # None
    /\ run' = [run EXCEPT !.saving = None]
    /\ branch' = Append(branch, run.saving)
    /\ IF IsAssistant(run.saving)
       THEN /\ last' = run.saving
            /\ IF run.saving.is \in ErrorKinds THEN UNCHANGED <<retries, overflowTried>>
               ELSE retries' = 0 /\ overflowTried' = FALSE
       ELSE UNCHANGED flagVars
    /\ UNCHANGED <<messages, steerQ, followQ, active, connected, shownVars, nextTurn, bash,
                   call, comp, nextId, counters, sent>>

\* A message that the run makes itself: a reply or a tool result.
Produce(m, at) ==
    /\ messages' = Append(messages, m)
    /\ run' = [run EXCEPT !.at = at, !.saving = IF connected THEN m ELSE None]
    /\ NewId
    /\ UNCHANGED <<steerQ, followQ, active, connected, branch, shownVars, nextTurn, bash, flagVars,
                   call, comp, inputs, compacts, aborts, sent>>

AfterReply(kind) ==
    CASE kind = "calls" -> "tools"
      [] kind \in ErrorKinds \union {"aborted"} -> "end"
      [] OTHER -> "stopped"

\* The model replies; an aborted run may still get the reply.
Respond ==
    /\ Ready({"ask", "first"})
    /\ \E kind \in {"stop"} \union (IF run.aborted THEN {"aborted"} ELSE {})
                   \union (IF replies < scenario.replies THEN scenario.kinds ELSE {}) :
       /\ Produce(AssistantMsg(nextId, kind), AfterReply(kind))
       /\ replies' = IF kind \in {"stop", "aborted"} THEN replies ELSE replies + 1

\* The tool answers, with an error if it was aborted.
ToolDone ==
    /\ Ready({"tools"})
    /\ Produce(OtherMsg(nextId, "toolResult"), "answered")
    /\ UNCHANGED replies

FromSteering(at) ==
    /\ run' = [run EXCEPT !.at = at, !.out = <<Head(steerQ)>>, !.via = "steer"]
    /\ steerQ' = Tail(steerQ) /\ UNCHANGED followQ

FromFollowUps(at) ==
    /\ run' = [run EXCEPT !.at = at, !.out = <<Head(followQ)>>, !.via = "followUp"]
    /\ followQ' = Tail(followQ) /\ UNCHANGED steerQ

\* The loop asks for steering messages: when it starts, and after a turn.  When
\* it would stop, it asks for follow-ups too.
Poll ==
    /\ Ready({"prompt", "answered", "stopped"})
    /\ IF steerQ # <<>> THEN FromSteering(IF run.at = "prompt" THEN "first" ELSE "ask")
       ELSE IF run.at = "stopped" /\ followQ # <<>> THEN FromFollowUps("ask")
       ELSE /\ run' = [run EXCEPT !.at = IF @ = "stopped" THEN "end" ELSE "ask"]
            /\ UNCHANGED <<steerQ, followQ>>
    /\ UNCHANGED <<messages, active, connected, branch, shownVars, nextTurn, bash, flagVars,
                   call, comp, nextId, counters, sent>>

\* The listeners of agent_end are done: finishRun, and prompt() or continue()
\* of the agent returns to the session.
RunEnds ==
    /\ Ready({"end"})
    /\ run' = NoRun
    /\ call' = [call EXCEPT ![run.by].at = "post"]
    /\ UNCHANGED <<messages, steerQ, followQ, active, connected, branch, shownVars, nextTurn, bash,
                   flagVars, comp, nextId, counters, sent>>

(***************************************************************************)
(* The session: after a run                                                *)
(***************************************************************************)
Go(p, at) == call' = [call EXCEPT ![p].at = at]

\* _flushPendingBashMessages, given the transcript and the entries by then.
Flush(msgs, br) ==
    /\ messages' = msgs \o bash
    /\ branch' = br \o bash
    /\ bash' = <<>>

\* Mutant: those kept for the next turn are dropped.
Build_Drops(p) ==
    /\ call' = [call EXCEPT ![p] = [NoCall EXCEPT !.at = "before", !.batch = call[p].batch]]
    /\ nextTurn' = <<>>

\* prompt() builds its messages: its own, and those kept for the next turn.
Build(p) ==
    /\ call' = [call EXCEPT ![p] = [NoCall EXCEPT !.at = "before", !.batch = call[p].batch \o nextTurn]]
    /\ nextTurn' = <<>>

\* Whether the agent goes on has been decided: continue(), or the end of the
\* loop of prompt() before the prompt (whose first check flushes nothing), or
\* the finally block of _runAgentPrompt.
Decide(p, goOn, msgs, br) ==
    \/ /\ goOn
       /\ call' = [call EXCEPT ![p].at = "continue",
                               ![p].phase = IF @ = "check" THEN "pre" ELSE @,
                               ![p].msg = None, ![p].cut = 0]
       /\ messages' = msgs /\ branch' = br
       /\ UNCHANGED <<bash, nextTurn, active>>
    \/ /\ ~goOn /\ call[p].phase = "check"
       /\ Build(p) /\ messages' = msgs /\ branch' = br
       /\ UNCHANGED <<bash, active>>
    \/ /\ ~goOn /\ call[p].phase = "pre"
       /\ Build(p) /\ Flush(msgs, br) /\ UNCHANGED active
    \/ /\ ~goOn /\ call[p].phase = "main"
       /\ Flush(msgs, br) /\ active' = FALSE
       /\ call' = [call EXCEPT ![p] = [NoCall EXCEPT !.at = "settling"]]
       /\ UNCHANGED nextTurn

\* After a check that did not compact: a finished run goes on if messages were
\* queued meanwhile, the check before a prompt never does.
DecideQueued(p) == Decide(p, call[p].phase # "check" /\ HasQueued, messages, branch)

\* Whether conversations get large enough for the threshold.
Fills == "full" \in scenario.kinds

\* Mutant: the recovery is not counted.
Outcomes_Again(m, skipAborted) ==
    IF m.is = "overflow" /\ ~Stale(m) THEN {"recover"} ELSE {"none"}

\* _checkCompaction: what an assistant message calls for.  The usage of an
\* error is estimated from the last reply that has one.
Outcomes(m, skipAborted) ==
    LET answered == LastAssistant(messages, ErrorKinds \union {"aborted"})
    IN CASE skipAborted /\ m.is = "aborted" -> {"none"}
         [] Stale(m) -> {"none"}
         [] m.is \in {"overflow", "length"} -> IF overflowTried THEN {"none"} ELSE {"recover"}
         [] m.is = "full" -> {"compact"}
         [] m.is = "aborted" /\ Fills -> {"none", "compact"}
         [] m.is = "error" /\ Fills /\ answered # None /\ ~Stale(answered) -> {"none", "compact"}
         [] OTHER -> {"none"}

\* _checkCompaction up to its first await.
Check(p, m, skipAborted) ==
    \E o \in Outcomes(m, skipAborted) :
        \/ /\ o = "none"
           /\ DecideQueued(p) /\ UNCHANGED overflowTried
        \/ /\ o # "none"
           /\ call' = [call EXCEPT ![p].at = "prepare", ![p].recover = (o = "recover"), ![p].msg = None]
           /\ overflowTried' = (overflowTried \/ o = "recover")
           /\ messages' = IF o = "recover" THEN Strip(messages, AllReplies) ELSE messages
           /\ UNCHANGED <<branch, bash, nextTurn, active>>

\* Mutant: one retry too many.
PostRun_OffByOne(p) ==
    /\ call[p].at = "post"
    /\ last' = None
    /\ CASE last = None ->
              Decide(p, FALSE, messages, branch) /\ UNCHANGED <<retries, overflowTried>>
         [] last # None /\ IsKind(last, {"error"}) /\ retries <= MaxRetries ->
              /\ retries' = retries + 1
              /\ messages' = Strip(messages, AllReplies)
              /\ call' = [call EXCEPT ![p].at = "sleeping", ![p].msg = last]
              /\ UNCHANGED <<branch, bash, nextTurn, active, overflowTried>>
         [] OTHER ->
              /\ retries' = IF last.is \in ErrorKinds THEN 0 ELSE retries
              /\ Check(p, last, TRUE)
    /\ UNCHANGED <<steerQ, followQ, run, connected, shownVars, comp, nextId, counters, sent>>

\* _handlePostAgentRun: an error that is worth it is retried after a delay.
PostRun(p) ==
    /\ call[p].at = "post"
    /\ last' = None
    /\ CASE last = None ->
              Decide(p, FALSE, messages, branch) /\ UNCHANGED <<retries, overflowTried>>
         [] last # None /\ IsKind(last, {"error"}) /\ retries < MaxRetries ->
              /\ retries' = retries + 1
              /\ messages' = Strip(messages, AllReplies)
              /\ call' = [call EXCEPT ![p].at = "sleeping", ![p].msg = last]
              /\ UNCHANGED <<branch, bash, nextTurn, active, overflowTried>>
         [] OTHER ->
              /\ retries' = IF last.is \in ErrorKinds THEN 0 ELSE retries
              /\ Check(p, last, TRUE)
    /\ UNCHANGED <<steerQ, followQ, run, connected, shownVars, comp, nextId, counters, sent>>

\* _prepareRetry: the delay is over.
Wake(p) ==
    /\ call[p].at = "sleeping"
    /\ Decide(p, TRUE, messages, branch)
    /\ UNCHANGED <<steerQ, followQ, run, connected, shownVars, flagVars, comp, nextId, counters, sent>>

\* Mutant: who aborted a retry must be idle before it ends.
RetryCancelled_WhenIdle(p) ==
    /\ call[p].at = "cancelled" /\ ~active
    /\ retries' = 0
    /\ Check(p, call[p].msg, TRUE)
    /\ UNCHANGED <<steerQ, followQ, run, connected, shownVars, last, comp, nextId, counters, sent>>

\* _prepareRetry: the delay was aborted; there is no retry.
RetryCancelled(p) ==
    /\ call[p].at = "cancelled"
    /\ retries' = 0
    /\ Check(p, call[p].msg, TRUE)
    /\ UNCHANGED <<steerQ, followQ, run, connected, shownVars, last, comp, nextId, counters, sent>>

\* _runAutoCompaction, once it has its credentials: nothing to do or no
\* credentials, or the summary is asked for.
Prepare(p) ==
    /\ call[p].at = "prepare"
    /\ \/ DecideQueued(p)
       \/ \E cut \in Cuts(branch) :
            /\ call' = [call EXCEPT ![p].at = "summarizing", ![p].cut = cut]
            /\ UNCHANGED <<messages, branch, bash, nextTurn, active>>
    /\ UNCHANGED <<steerQ, followQ, run, connected, shownVars, flagVars, comp, nextId, counters, sent>>

\* The summary failed or was aborted.
SummaryFails(p) ==
    /\ call[p].at = "summarizing"
    /\ DecideQueued(p)
    /\ UNCHANGED <<steerQ, followQ, run, connected, shownVars, flagVars, comp, nextId, counters, sent>>

\* Mutant: the transcript keeps what was summarized.
Compacted_KeepsContext(p) ==
    /\ call[p].at = "summarizing"
    /\ Decide(p, call[p].recover \/ HasQueued, messages,
              Append(branch, Compaction(nextId, call[p].cut)))
    /\ NewId
    /\ UNCHANGED <<steerQ, followQ, run, connected, shownVars, flagVars, comp, counters, sent>>

\* Mutant: the agent goes on after every compaction.
Compacted_ContinuesAlways(p) ==
    /\ call[p].at = "summarizing"
    /\ LET saved == Append(branch, Compaction(nextId, call[p].cut))
           context == IF call[p].recover THEN Strip(Context(saved), ErrorKinds) ELSE Context(saved)
       IN Decide(p, TRUE, context, saved)
    /\ NewId
    /\ UNCHANGED <<steerQ, followQ, run, connected, shownVars, flagVars, comp, counters, sent>>

\* The compaction is saved and the transcript becomes the context of the
\* session, without the error it recovers from.
Compacted(p) ==
    /\ call[p].at = "summarizing"
    /\ LET saved == Append(branch, Compaction(nextId, call[p].cut))
           context == IF call[p].recover THEN Strip(Context(saved), ErrorKinds) ELSE Context(saved)
       IN Decide(p, call[p].recover \/ HasQueued, context, saved)
    /\ NewId
    /\ UNCHANGED <<steerQ, followQ, run, connected, shownVars, flagVars, comp, counters, sent>>

\* Agent.continue() has nothing to send: its last message is a reply.
NothingToSend == messages = <<>> \/ (LastIs(messages, IsAssistant) /\ ~HasQueued)

\* Agent.continue(): the queues if the last message is a reply, or a run over
\* what is there.
Continue(p) ==
    /\ call[p].at = "continue" /\ run.at = "none" /\ ~NothingToSend
    /\ IF ~LastIs(messages, IsAssistant)
       THEN Start(p, "prompt", <<>>, "prompt") /\ UNCHANGED <<steerQ, followQ>>
       ELSE IF steerQ # <<>>
       THEN Start(p, "ask", <<Head(steerQ)>>, "steer") /\ steerQ' = Tail(steerQ) /\ UNCHANGED followQ
       ELSE Start(p, "prompt", <<Head(followQ)>>, "followUp") /\ followQ' = Tail(followQ) /\ UNCHANGED steerQ
    /\ Go(p, "running")
    /\ UNCHANGED <<messages, active, connected, branch, shownVars, nextTurn, bash, flagVars,
                   comp, nextId, counters, sent>>

\* Agent.continue() throws: prompt() rejects, after its finally block.
ContinueThrows(p) ==
    /\ call[p].at = "continue" /\ (run.at # "none" \/ NothingToSend)
    /\ Flush(messages, branch)
    /\ IF call[p].phase = "main"
       THEN /\ active' = FALSE
            /\ call' = [call EXCEPT ![p] = [NoCall EXCEPT !.at = "settling"]]
            /\ UNCHANGED sent
       ELSE /\ call' = [call EXCEPT ![p] = NoCall]
            /\ sent' = sent \ IdsIn(call[p].batch)
            /\ UNCHANGED active
    /\ UNCHANGED <<steerQ, followQ, run, connected, shownVars, nextTurn, flagVars,
                   comp, nextId, counters>>

\* _emitAgentSettled: the extensions have been told; who waits for idle wakes.
Settled(p) ==
    /\ call[p].at = "settling"
    /\ call' = [call EXCEPT ![p] = NoCall]
    /\ comp' = IF comp.at = "waiting" /\ ~active THEN [comp EXCEPT !.at = "prepare"] ELSE comp
    /\ UNCHANGED <<agentVars, active, connected, branch, shownVars, nextTurn, bash, flagVars,
                   nextId, counters, sent>>

(***************************************************************************)
(* The session: what the application calls                                 *)
(***************************************************************************)
\* The application sends message m.
Send(kind, m) ==
    /\ kind \in scenario.ways /\ inputs < scenario.inputs
    /\ inputs' = inputs + 1 /\ NewId
    /\ sent' = sent \union {m.id}

\* prompt() while no run is active, up to checkAuth.
Prompt(p) ==
    /\ call[p].at = "idle" /\ ~active
    /\ Send("prompt", UserMsg(nextId))
    /\ call' = [call EXCEPT ![p] = [NoCall EXCEPT !.at = "auth", !.batch = <<UserMsg(nextId)>>]]
    /\ Flush(messages, branch)
    /\ UNCHANGED <<steerQ, followQ, run, active, connected, shownVars, nextTurn, flagVars,
                   comp, replies, compacts, aborts>>

\* Not authenticated: prompt() rejects.
Refused(p) ==
    /\ call[p].at = "auth"
    /\ call' = [call EXCEPT ![p] = NoCall]
    /\ sent' = sent \ IdsIn(call[p].batch)
    /\ UNCHANGED <<agentVars, active, connected, branch, shownVars, nextTurn, bash, flagVars,
                   comp, nextId, counters>>

\* Authenticated: compaction may be due before the message is sent.
Accepted(p) ==
    /\ call[p].at = "auth"
    /\ LET m == LastAssistant(messages, {})
       IN IF m = None THEN DecideQueued(p) /\ UNCHANGED overflowTried ELSE Check(p, m, FALSE)
    /\ UNCHANGED <<steerQ, followQ, run, connected, shownVars, last, retries,
                   comp, nextId, counters, sent>>

\* _runAgentPrompt: agent.prompt() starts a run, or throws if there is one;
\* then the finally block follows.
RunPrompt(p, batch) ==
    \/ /\ run.at = "none"
       /\ active' = TRUE
       /\ Start(p, "prompt", batch, "prompt")
       /\ call' = [call EXCEPT ![p] = [NoCall EXCEPT !.at = "running", !.phase = "main"]]
       /\ UNCHANGED <<messages, branch, bash>>
    \/ /\ run.at # "none"
       /\ Flush(messages, branch)
       /\ active' = FALSE
       /\ call' = [call EXCEPT ![p] = [NoCall EXCEPT !.at = "settling"]]
       /\ UNCHANGED run

\* The extensions have been told (before_agent_start).  A prompt that finds a
\* run rejects, with the message it was called with.
BeforeDone(p) ==
    /\ call[p].at = "before"
    /\ RunPrompt(p, call[p].batch)
    /\ sent' = IF run.at = "none" THEN sent ELSE sent \ {call[p].batch[1].id}
    /\ UNCHANGED <<steerQ, followQ, connected, shownVars, nextTurn, flagVars, comp, nextId, counters>>

\* sendCustomMessage with triggerTurn.
SendTurn(p) ==
    /\ call[p].at = "idle" /\ ~active
    /\ "turn" \in scenario.ways /\ inputs < scenario.inputs
    /\ inputs' = inputs + 1 /\ NewId
    /\ RunPrompt(p, <<OtherMsg(nextId, "custom")>>)
    /\ sent' = IF run.at = "none" THEN sent \union {nextId} ELSE sent
    /\ UNCHANGED <<steerQ, followQ, connected, shownVars, nextTurn, flagVars,
                   comp, replies, compacts, aborts>>

\* steer(), and prompt() while a run is active.
Steer ==
    /\ Send("steer", UserMsg(nextId))
    /\ steerQ' = Append(steerQ, UserMsg(nextId))
    /\ shownSteer' = Append(shownSteer, UserMsg(nextId).is)
    /\ UNCHANGED <<messages, followQ, run, active, connected, branch, shownFollow, nextTurn, bash,
                   flagVars, call, comp, replies, compacts, aborts>>

FollowUp ==
    /\ Send("followUp", UserMsg(nextId))
    /\ followQ' = Append(followQ, UserMsg(nextId))
    /\ shownFollow' = Append(shownFollow, UserMsg(nextId).is)
    /\ UNCHANGED <<messages, steerQ, run, active, connected, branch, shownSteer, nextTurn, bash,
                   flagVars, call, comp, replies, compacts, aborts>>

\* sendCustomMessage: for the next turn, for the active run, or right away.
SendNextTurn ==
    /\ Send("nextTurn", OtherMsg(nextId, "custom"))
    /\ nextTurn' = Append(nextTurn, OtherMsg(nextId, "custom"))
    /\ UNCHANGED <<agentVars, active, connected, branch, shownVars, bash, flagVars,
                   call, comp, replies, compacts, aborts>>

SendCustom ==
    /\ Send("custom", OtherMsg(nextId, "custom"))
    /\ LET m == OtherMsg(nextId, "custom")
       IN IF active
          THEN /\ \/ steerQ' = Append(steerQ, m) /\ UNCHANGED followQ
                  \/ followQ' = Append(followQ, m) /\ UNCHANGED steerQ
               /\ UNCHANGED <<messages, branch>>
          ELSE /\ messages' = Append(messages, m) /\ branch' = Append(branch, m)
               /\ UNCHANGED <<steerQ, followQ>>
    /\ UNCHANGED <<run, active, connected, shownVars, nextTurn, bash, flagVars,
                   call, comp, replies, compacts, aborts>>

\* Mutant: a result is recorded at once, whatever runs.
RecordBash_AtOnce ==
    /\ Send("bash", OtherMsg(nextId, "bashExecution"))
    /\ messages' = Append(messages, OtherMsg(nextId, "bashExecution"))
    /\ branch' = Append(branch, OtherMsg(nextId, "bashExecution"))
    /\ UNCHANGED <<steerQ, followQ, run, active, connected, shownVars, nextTurn, bash, flagVars,
                   call, comp, replies, compacts, aborts>>

\* recordBashResult: deferred while a run is active.
RecordBash ==
    /\ Send("bash", OtherMsg(nextId, "bashExecution"))
    /\ LET m == OtherMsg(nextId, "bashExecution")
       IN IF active
          THEN bash' = Append(bash, m) /\ UNCHANGED <<messages, branch>>
          ELSE /\ messages' = Append(messages, m) /\ branch' = Append(branch, m)
               /\ UNCHANGED bash
    /\ UNCHANGED <<steerQ, followQ, run, active, connected, shownVars, nextTurn, flagVars,
                   call, comp, replies, compacts, aborts>>

\* Two places where the session is about to go on without waiting for anything:
\* from the decision to continue() to the agent, and from the first poll of a
\* run to the delivery of what it drained.
Microtask == (\E p \in Callers : call[p].at = "continue") \/ (run.at = "first" /\ run.out # <<>>)

\* clearQueue clears the queues and gives back what is displayed as pending (by
\* its text: the id, where texts are distinct).
ClearQueue ==
    /\ "clear" \in scenario.ways /\ (HasQueued \/ shownSteer \o shownFollow # <<>>)
    /\ ~Microtask
    /\ steerQ' = <<>> /\ followQ' = <<>> /\ shownSteer' = <<>> /\ shownFollow' = <<>>
    /\ sent' = sent \ (IdsIn(steerQ) \union IdsIn(followQ) \union Range(shownSteer \o shownFollow))
    /\ UNCHANGED <<messages, run, active, connected, branch, nextTurn, bash, flagVars,
                   call, comp, nextId, counters>>

\* What abort() does before it waits: the delay of a retry and the run of the
\* agent are aborted.
AbortAll ==
    /\ call' = [p \in Callers |->
                  IF call[p].at = "sleeping" THEN [call[p] EXCEPT !.at = "cancelled"] ELSE call[p]]
    /\ run' = IF run.at = "none" THEN run ELSE [run EXCEPT !.aborted = TRUE]

\* Mutant: an aborted session counts as idle at once.
Abort_Idle ==
    /\ aborts < scenario.aborts /\ aborts' = aborts + 1
    /\ AbortAll /\ active' = FALSE
    /\ UNCHANGED <<messages, steerQ, followQ, connected, branch, shownVars, nextTurn, bash,
                   flagVars, comp, nextId, inputs, replies, compacts, sent>>

Abort ==
    /\ aborts < scenario.aborts /\ aborts' = aborts + 1
    /\ AbortAll
    /\ UNCHANGED <<messages, steerQ, followQ, active, connected, branch, shownVars, nextTurn, bash,
                   flagVars, comp, nextId, inputs, replies, compacts, sent>>

\* compact(): unsubscribe, abort, wait until idle.
Compact ==
    /\ comp.at = "idle"
    /\ compacts < scenario.compacts /\ compacts' = compacts + 1
    /\ connected' = FALSE
    /\ AbortAll
    /\ comp' = [NoComp EXCEPT !.at = IF active THEN "waiting" ELSE "prepare"]
    /\ UNCHANGED <<messages, steerQ, followQ, active, branch, shownVars, nextTurn, bash, flagVars,
                   nextId, inputs, replies, aborts, sent>>

CompactPrepare ==
    /\ comp.at = "prepare"
    /\ \/ comp' = NoComp /\ connected' = TRUE
       \/ \E cut \in Cuts(branch) :
            comp' = [at |-> "summarizing", cut |-> cut] /\ UNCHANGED connected
    /\ UNCHANGED <<agentVars, active, branch, shownVars, nextTurn, bash, flagVars,
                   call, nextId, counters, sent>>

\* compact() ends, with its summary or without, and subscribes again.
CompactDone ==
    /\ comp.at = "summarizing"
    /\ \/ /\ branch' = Append(branch, Compaction(nextId, comp.cut))
          /\ messages' = Context(branch')
          /\ NewId
       \/ UNCHANGED <<branch, messages, nextId>>
    /\ comp' = NoComp /\ connected' = TRUE
    /\ UNCHANGED <<steerQ, followQ, run, active, shownVars, nextTurn, bash, flagVars,
                   call, counters, sent>>

AgentStep == Deliver \/ Save \/ Respond \/ ToolDone \/ Poll \/ RunEnds

CallStep(p) ==
    \/ PostRun(p) \/ Wake(p) \/ RetryCancelled(p) \/ Prepare(p) \/ SummaryFails(p)
    \/ Compacted(p) \/ Continue(p) \/ ContinueThrows(p) \/ Settled(p)
    \/ Refused(p) \/ Accepted(p) \/ BeforeDone(p)

CompStep == CompactPrepare \/ CompactDone

Application ==
    \/ \E p \in Callers : Prompt(p) \/ SendTurn(p)
    \/ Steer \/ FollowUp \/ SendNextTurn \/ SendCustom \/ RecordBash \/ ClearQueue
    \/ Abort \/ Compact

Next ==
    /\ AgentStep \/ (\E p \in Callers : CallStep(p)) \/ CompStep \/ Application
    /\ UNCHANGED scenario

Spec == Init /\ [][Next]_vars

\* Providers, tools, timers and extensions answer, and the event loop runs what
\* they resume.
FairSpec ==
    /\ Spec
    /\ WF_vars(AgentStep /\ UNCHANGED scenario)
    /\ \A p \in Callers : WF_vars(CallStep(p) /\ UNCHANGED scenario)
    /\ WF_vars(CompStep /\ UNCHANGED scenario)

(***************************************************************************)
(* Properties                                                              *)
(***************************************************************************)
Message ==
    [role : {"user"}, id : Nat, is : Nat]
    \union [role : {"assistant"}, id : Nat, is : AllReplies]
    \union [role : {"toolResult", "custom", "bashExecution"}, id : Nat]
EntryType == Message \union [role : {"compaction"}, id : Nat, keep : Nat]

ASSUME NoneAssumption == None \notin Message

CallPhases == {"idle", "auth", "prepare", "summarizing", "continue", "running", "post",
               "sleeping", "cancelled", "before", "settling"}

\* Type invariant of the agent's and the session's state.
TypeOK ==
    /\ messages \in Seq(EntryType) /\ branch \in Seq(EntryType)
    /\ {steerQ, followQ, nextTurn, bash} \subseteq Seq(Message)
    /\ run \in [at : {"none", "prompt", "first", "ask", "tools", "answered", "stopped", "end"},
                by : Callers \union {None}, out : Seq(Message),
                via : {"prompt", "steer", "followUp"},
                saving : Message \union {None}, aborted : BOOLEAN]
    /\ active \in BOOLEAN /\ connected \in BOOLEAN
    /\ {shownSteer, shownFollow} \subseteq Seq(Nat)
    /\ last \in Message \union {None} /\ retries \in 0..MaxRetries /\ overflowTried \in BOOLEAN
    /\ call \in [Callers -> [at : CallPhases, phase : {"check", "pre", "main"}, batch : Seq(Message),
                             msg : Message \union {None}, recover : BOOLEAN, cut : Nat]]
    /\ comp \in [at : {"idle", "waiting", "prepare", "summarizing"}, cut : Nat]
    /\ nextId \in Nat /\ sent \subseteq 1..nextId

\* Where a message may be: queued, kept for later, with a call of prompt(), in
\* a run that has not delivered or saved it, or in the session.
CountIn(id, s) == Cardinality({i \in DOMAIN s : s[i].id = id})
Places(id) ==
    CountIn(id, steerQ) + CountIn(id, followQ) + CountIn(id, nextTurn) + CountIn(id, bash)
    + CountIn(id, run.out) + (IF run.saving # None /\ run.saving.id = id THEN 1 ELSE 0)
    + CountIn(id, branch)
    + MapThenSumSet(LAMBDA p : CountIn(id, call[p].batch), Callers)

\* Every message that the application sent, and that was not given back to it,
\* is in exactly one place: queued, on its way, or in the session, once.
OnePlace == \A id \in sent : Places(id) = 1

\* No user message in the session was given back to the application, which may
\* send it again.
GivenBackIsGone == \A i \in DOMAIN branch : branch[i].role = "user" => branch[i].id \in sent

\* What the application sent arrives once or is given back, and never both.
NothingLost == OnePlace /\ GivenBackIsGone

\* In the session and in the transcript, the result of a tool call directly
\* follows the reply that made the call (providers refuse anything else).
PairsTogether ==
    \A s \in {messages, branch} : \A i \in DOMAIN s :
        /\ IsKind(s[i], {"calls"}) /\ i < Len(s) => s[i + 1].role = "toolResult"
        /\ s[i].role = "toolResult" => i > 1 /\ IsKind(s[i - 1], {"calls"})

\* When nothing is under way, the transcript of the agent is what a process
\* that opened the session would start from, except for the failed replies
\* that retries and recoveries removed from it.
Quiet == run.at = "none" /\ comp.at = "idle" /\ \A p \in Callers : call[p].at = "idle"
Kept(s) == Without(s, {i \in DOMAIN s : IsKind(s[i], ErrorKinds \union {"length"})})
TranscriptIsContext == Quiet => Kept(messages) = Kept(Context(branch))

\* What the display shows as pending is what is queued or about to be
\* delivered, in order.
Users(s) == Without(s, {i \in DOMAIN s : s[i].role # "user"})
TextsOf(s) == [i \in DOMAIN Users(s) |-> Users(s)[i].is]
ShownIsPending ==
    /\ shownSteer = TextsOf((IF run.via = "steer" THEN run.out ELSE <<>>) \o steerQ)
    /\ shownFollow = TextsOf((IF run.via = "followUp" THEN run.out ELSE <<>>) \o followQ)

\* Whoever sees no active run may touch the transcript: the agent is not running.
NoHiddenRun == ~active => run.at = "none"

\* The same, but for the run that a prompt continues after its own compaction,
\* before it becomes active itself.
IdleIsIdle ==
    ~active => run.at = "none" \/ \E p \in Callers : run.by = p /\ call[p].phase = "pre"

\* continue() is called only when the agent has something to send or to answer:
\* it throws otherwise.
Continues(p) == call[p].at = "continue" /\ run.at = "none"
ContinueAccepted == \A p \in Callers : Continues(p) => ~NothingToSend

\* continue() never follows a reply that is complete, nor is it called on an empty
\* transcript, unless a message is queued.  It says nothing of a reply that failed
\* or was cut off, and that a compaction has brought back: continue() is called
\* after it, and throws (ContinueAccepted, which the corners Length and Retried
\* violate).
NoContinueAfterAnswer ==
    \A p \in Callers :
        Continues(p) => ~NothingToSend \/ LastIs(messages, LAMBDA m : IsKind(m, {"error", "length"}))

\* An error is retried at most MaxRetries times in a row.
FewErrors ==
    \A i \in DOMAIN branch :
        i + MaxRetries + 1 \in DOMAIN branch =>
            \E j \in i..(i + MaxRetries + 1) : ~IsKind(branch[j], {"error"})

\* Between two compactions that recover from an overflow there is a user
\* message or a reply that is no error.
Recovers(i) == i > 1 /\ branch[i].role = "compaction" /\ IsKind(branch[i - 1], {"overflow"})
OneRecovery ==
    \A i, j \in DOMAIN branch : i < j /\ Recovers(i) /\ Recovers(j) =>
        \E k \in i..j : \/ branch[k].role = "user"
                        \/ IsAssistant(branch[k]) /\ branch[k].is \notin ErrorKinds

\* What is retried is retried a bounded number of times: the session does not
\* send failing requests for ever.
RetriesBounded == FewErrors /\ OneRecovery

\* A compaction waits only for a run that ends, and every prompt returns.
CallsReturn ==
    /\ comp.at # "idle" ~> comp.at = "idle"
    /\ \A p \in Callers : call[p].at # "idle" ~> call[p].at = "idle"
=============================================================================
