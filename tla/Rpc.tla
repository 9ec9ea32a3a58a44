-------------------------------- MODULE Rpc --------------------------------
(***************************************************************************)
(* RPC mode: RpcClient (packages/coding-agent/src/modes/rpc/rpc-client.ts) *)
(* and the agent process it talks to (rpc-mode.ts), which holds an         *)
(* AgentSession and replaces it by another                                 *)
(* (core/agent-session-runtime.ts).                                        *)
(*                                                                         *)
(* A step of the process is the code between two awaits that something     *)
(* outside may delay.  The client reads some lines at once, and then runs  *)
(* what awaited them.  A session is reduced to what a client sees of it: a *)
(* prompt that is checked, accepted or rejected, the start and the end of  *)
(* its run, retries, and the work after the end.                           *)
(***************************************************************************)
EXTENDS Integers, Sequences, FiniteSets

CONSTANTS
    Calls,       \* calls of the client's methods, numbered from 1
    Scenarios,   \* what may happen in a behaviour, as a set of records:
                 \*   kinds    the methods called
                 \*   calls    bound: calls
                 \*   awaits   whether the application awaits a prompt, its run, and a
                 \*            replacement before the next of these
                 \*   settles  whether nothing is awaited between the end of a run and
                 \*            the moment the session is idle
                 \*   startup  whether extensions open dialogs when the process starts
                 \*   expires  whether dialogs have a timeout
                 \*   dialogs, refusals, retries, crashes, stops, timeouts   bounds
    None

\* "state" stands for the commands that are answered at once, "new_session" for
\* those that replace the session.
Kinds == {"promptAndWait", "prompt", "promptThenWait", "state", "abort", "new_session"}
Prompts == {"promptAndWait", "prompt", "promptThenWait"}
Bounds == {"dialogs", "refusals", "retries", "crashes", "stops", "timeouts"}

ASSUME RpcAssumption ==
    /\ Calls \subseteq Nat \ {0}
    /\ Scenarios \subseteq
           [kinds : SUBSET Kinds, calls : Nat, awaits : BOOLEAN, settles : BOOLEAN, startup : BOOLEAN,
            expires : BOOLEAN, dialogs : Nat, refusals : Nat, retries : Nat, crashes : Nat,
            stops : Nat, timeouts : Nat]

VARIABLES
    scenario, used,
    \* --- the client
    client,      \* "up", "stopping" or "stopped"
    exitError,   \* whether it knows that the process is gone
    call,        \* its calls; a call that is "sent" is in pendingRequests
    listeners,   \* eventListeners: the calls that collect events, in order
    asked,       \* dialogs that wait for the user
    stdin, stdout,   \* lines under way to the process, and from it
    \* --- the process
    server,      \* "starting", "reading" or "exited"
    current,     \* the session of the runtime
    session,     \* the one that commands go to
    subscribed,  \* the one whose events are written
    disposed,    \* those that were disposed of
    run,         \* of each session, the prompt that is run and how far
    work,        \* the commands under way
    dialog,      \* pendingExtensionRequests; 0 for a dialog at the start
    story        \* history: the events of the run of each prompt

clientVars == <<client, exitError, call, listeners, asked>>
sessionVars == <<current, session, subscribed, disposed>>
vars == <<scenario, used, clientVars, stdin, stdout, server, sessionVars, run, work, dialog, story>>

Idle == [of |-> None, pc |-> "none"]
NoCall == [pc |-> "none", kind |-> "none", got |-> <<>>]
NoWork == [pc |-> "none", on |-> 0]
Response(c) == [type |-> "response", of |-> c]
Event(type, c) == [type |-> type, of |-> c]
Request(d) == [type |-> "extension_ui_request", of |-> d]

Uses(bound) == /\ used[bound] < scenario[bound]
               /\ used' = [used EXCEPT ![bound] = @ + 1]
Outputs(line) == stdout' = Append(stdout, line)

\* What a session emits is written, if the process listens to it.
Emits(s, type) ==
    /\ stdout' = IF s = subscribed /\ s \notin disposed
                 THEN Append(stdout, Event(type, run[s].of)) ELSE stdout
    /\ story' = [story EXCEPT ![run[s].of] = Append(@, Event(type, run[s].of))]

Works(c, pc, s) == work' = [work EXCEPT ![c] = [pc |-> pc, on |-> s]]
Runs(s, pc) == run' = [run EXCEPT ![s].pc = pc]

(***************************************************************************)
(* The client                                                              *)
(***************************************************************************)
Underway(c) == call[c].pc \in {"sent", "waiting"}
Listening(c) == \E i \in DOMAIN listeners : listeners[i] = c
NextCall == Cardinality({c \in Calls : call[c].pc # "none"}) + 1

\* Mutant: the events are collected from the answer on.
CollectsFrom_Answer(kind) ==
    IF kind \in {"promptAndWait", "promptThenWait"} THEN "answer" ELSE "never"

\* promptAndWait() calls collectEvents() before it sends the prompt; an application
\* that calls prompt() and then waitForIdle() listens from the answer on.
CollectsFrom(kind) ==
    CASE kind = "promptAndWait" -> "sending"
      [] kind = "promptThenWait" -> "answer"
      [] OTHER -> "never"

Send(c, kind) ==
    /\ c = NextCall /\ c <= scenario.calls /\ kind \in scenario.kinds
    /\ scenario.awaits /\ kind \in Prompts \union {"new_session"} =>
           \A d \in Calls : Underway(d) => call[d].kind \in {"state", "abort"}
    /\ LET sent == ~exitError /\ client # "stopped"
       IN /\ call' = [call EXCEPT ![c] = [NoCall EXCEPT !.pc = IF sent THEN "sent" ELSE "failed",
                                                        !.kind = kind]]
          /\ stdin' = IF sent /\ server # "exited" THEN Append(stdin, [type |-> "command", of |-> c])
                      ELSE stdin
    /\ listeners' = IF CollectsFrom(kind) = "sending" THEN Append(listeners, c) ELSE listeners
    /\ UNCHANGED <<used, client, exitError, asked, stdout, server, sessionVars, run, work, dialog, story>>

\* The loop of handleLine over eventListeners.  A collector that hears the end of a
\* run removes itself from the array that is being iterated, which passes over the
\* one behind it: of several, every other one hears the end and is gone.
Heard(list, line) ==
    {list[i] : i \in {k \in DOMAIN list : line.type = "agent_end" => k % 2 = 1}}
Remaining(list, line) ==
    IF line.type = "agent_end" THEN [i \in 1..(Len(list) \div 2) |-> list[2 * i]] ELSE list

\* handleLine: a response resolves its request if that is still pending, whatever
\* the response says; all else is an event.
HandleLine(seen, line) ==
    IF line.type = "response" /\ seen.call[line.of].pc = "sent"
    THEN [seen EXCEPT !.call[line.of].pc = "answered", !.answered = Append(@, line.of)]
    ELSE [seen EXCEPT !.call = [c \in Calls |-> IF c \in Heard(seen.listeners, line)
                                               THEN [@[c] EXCEPT !.got = Append(@, line)] ELSE @[c]],
                      !.listeners = Remaining(@, line)]

\* What a call does when its promise is resolved: it returns, or waits until it has
\* heard the end of a run.
Resumes(rec, collects) ==
    IF rec.pc \in {"answered", "waiting"}
    THEN [rec EXCEPT !.pc = IF collects THEN "waiting" ELSE "returned"]
    ELSE rec

\* A chunk of stdout: all of its lines first.
ReadChunk(n) ==
    /\ client = "up" /\ n <= Len(stdout)
    /\ LET start == [call |-> call, listeners |-> listeners, answered |-> <<>>]
           handled[i \in 0..n] == IF i = 0 THEN start ELSE HandleLine(handled[i - 1], stdout[i])
           Late(c) == CollectsFrom(call[c].kind) = "answer"
           requests == {i \in 1..n : stdout[i].type = "extension_ui_request"}
       IN /\ listeners' = handled[n].listeners \o SelectSeq(handled[n].answered, Late)
          /\ call' = [c \in Calls |-> Resumes(handled[n].call[c], Listening(c)')]
          /\ asked' = asked \union {stdout[i].of : i \in requests}
    /\ stdout' = SubSeq(stdout, n + 1, Len(stdout))
    /\ UNCHANGED <<used, client, exitError, stdin, server, sessionVars, run, work, dialog, story>>

\* The user answers a dialog.
Answer(d) ==
    /\ d \in asked /\ asked' = asked \ {d}
    /\ client = "up" /\ ~exitError
    /\ stdin' = IF server = "exited" THEN stdin ELSE Append(stdin, [type |-> "extension_ui_response", of |-> d])
    /\ UNCHANGED <<used, client, exitError, call, listeners, stdout, server, sessionVars, run, work, dialog, story>>

\* Mutant: the requests under way are left alone.
Exit_KeepsPending ==
    /\ server = "exited" /\ ~exitError /\ client # "stopped"
    /\ exitError' = TRUE
    /\ client' = IF client = "stopping" THEN "stopped" ELSE client
    /\ UNCHANGED <<used, call, listeners, asked, stdin, stdout, server, sessionVars, run, work, dialog, story>>

\* The event "exit": it may come before the last lines of stdout.
Exit ==
    /\ server = "exited" /\ ~exitError /\ client # "stopped"
    /\ exitError' = TRUE
    /\ call' = [c \in Calls |-> IF call[c].pc = "sent" THEN [call[c] EXCEPT !.pc = "failed"] ELSE call[c]]
    /\ client' = IF client = "stopping" THEN "stopped" ELSE client
    /\ UNCHANGED <<used, listeners, asked, stdin, stdout, server, sessionVars, run, work, dialog, story>>

stop ==
    /\ Uses("stops") /\ client = "up" /\ client' = "stopping"
    /\ UNCHANGED <<exitError, call, listeners, asked, stdin, stdout, server, sessionVars, run, work, dialog, story>>

\* stop() waits a second for the process: pendingRequests is cleared, and what
\* was in it is left to its own timer.
StopTimer ==
    /\ client = "stopping" /\ server # "exited" /\ Uses("timeouts")
    /\ client' = "stopped" /\ server' = "exited"
    /\ call' = [c \in Calls |-> IF call[c].pc = "sent" THEN [call[c] EXCEPT !.pc = "forgotten"] ELSE call[c]]
    /\ UNCHANGED <<exitError, listeners, asked, stdin, stdout, sessionVars, run, work, dialog, story>>

\* The timer of send().
RequestTimeout(c) ==
    /\ \/ call[c].pc = "sent" /\ Uses("timeouts")
       \/ call[c].pc = "forgotten" /\ UNCHANGED used
    /\ call' = [call EXCEPT ![c].pc = "failed"]
    /\ UNCHANGED <<client, exitError, listeners, asked, stdin, stdout, server, sessionVars, run, work, dialog, story>>

\* The timer of collectEvents() or waitForIdle(): when promptAndWait() has thrown
\* before it awaited the events, nobody handles the rejection.
WaitTimeout(c) ==
    /\ Listening(c) /\ call[c].pc \in {"waiting", "failed"} /\ Uses("timeouts")
    /\ listeners' = SelectSeq(listeners, LAMBDA d : d # c)
    /\ call' = [call EXCEPT ![c].pc = IF @ = "failed" THEN "unhandled" ELSE "failed"]
    /\ UNCHANGED <<client, exitError, asked, stdin, stdout, server, sessionVars, run, work, dialog, story>>

(***************************************************************************)
(* The process reads a line; lines are read only when the first session    *)
(* has been bound                                                          *)
(***************************************************************************)
Reads == server = "reading" /\ stdin # <<>> /\ stdin' = Tail(stdin)
         /\ (scenario.settles => \A s \in DOMAIN run : run[s].pc # "post")
         /\ UNCHANGED <<used, clientVars, server, sessionVars, run, story>>
Command(kinds) == stdin[1].type = "command" /\ call[stdin[1].of].kind \in kinds

\* A prompt is refused while the session runs another (no streamingBehavior is
\* given), and checked otherwise.
HandlePrompt ==
    /\ Reads /\ Command(Prompts)
    /\ IF run[session] # Idle THEN Outputs(Response(stdin[1].of)) /\ UNCHANGED work
       ELSE Works(stdin[1].of, "preflight", session) /\ UNCHANGED stdout
    /\ UNCHANGED dialog

HandleState ==
    /\ Reads /\ Command({"state"})
    /\ Outputs(Response(stdin[1].of))
    /\ UNCHANGED <<work, dialog>>

HandleAbort ==
    /\ Reads /\ Command({"abort"})
    /\ Works(stdin[1].of, "aborting", session)
    /\ UNCHANGED <<stdout, dialog>>

HandleNewSession ==
    /\ Reads /\ Command({"new_session"})
    /\ Works(stdin[1].of, "before", session)
    /\ UNCHANGED <<stdout, dialog>>

\* An answer that comes late is ignored.
HandleAnswer ==
    /\ Reads /\ stdin[1].type = "extension_ui_response"
    /\ dialog' = [dialog EXCEPT ![stdin[1].of] = "closed"]
    /\ UNCHANGED <<stdout, work>>

(***************************************************************************)
(* Commands under way                                                      *)
(***************************************************************************)
Lives == server # "exited" /\ UNCHANGED <<clientVars, stdin>>
At(c, pc) == Lives /\ work[c].pc = pc /\ dialog[c] # "open"
Done(c) == work' = [work EXCEPT ![c] = NoWork]
Answers(c) == Outputs(Response(c)) /\ Done(c)

\* An extension opens a dialog: a handler of input or before_agent_start, of
\* session_before_switch, or of session_start.
OpenDialog(d) ==
    /\ Lives /\ dialog[d] = "none" /\ Uses("dialogs")
    /\ IF d = 0 THEN scenario.startup /\ server = "starting"
       ELSE work[d].pc \in {"preflight", "before", "rebinding"}
    /\ dialog' = [dialog EXCEPT ![d] = "open"]
    /\ Outputs(Request(d))
    /\ UNCHANGED <<server, sessionVars, run, work, story>>

DialogExpires(d) ==
    /\ Lives /\ scenario.expires /\ dialog[d] = "open"
    /\ dialog' = [dialog EXCEPT ![d] = "closed"]
    /\ UNCHANGED <<used, stdout, server, sessionVars, run, work, story>>

\* The first session is bound; then lines are read.
Started ==
    /\ Lives /\ server = "starting" /\ dialog[0] # "open"
    /\ server' = "reading" /\ subscribed' = session
    /\ UNCHANGED <<used, stdout, current, session, disposed, run, work, dialog, story>>

\* The checks of prompt() succeed: success is written, and then the run begins; if
\* another has begun meanwhile, prompt() throws and nobody hears of it.
Accept(c) ==
    /\ At(c, "preflight")
    /\ Answers(c)
    /\ run' = IF run[work[c].on] # Idle THEN run
              ELSE [run EXCEPT ![work[c].on] = [of |-> c, pc |-> "accepted"]]
    /\ UNCHANGED <<used, server, sessionVars, dialog, story>>

\* They fail: no model, no key, an extension that throws.
Reject(c) ==
    /\ At(c, "preflight") /\ Uses("refusals")
    /\ Answers(c)
    /\ UNCHANGED <<server, sessionVars, run, dialog, story>>

\* abort() awaits an idle session.
Aborted(c) ==
    /\ At(c, "aborting") /\ run[work[c].on] = Idle
    /\ Answers(c)
    /\ UNCHANGED <<used, server, sessionVars, run, dialog, story>>

(***************************************************************************)
(* The run of a session                                                    *)
(***************************************************************************)
RunStarts(s) ==
    /\ Lives /\ run[s].pc = "accepted" /\ Runs(s, "active")
    /\ Emits(s, "agent_start")
    /\ UNCHANGED <<used, server, sessionVars, work, dialog>>

RunEnds(s) ==
    /\ Lives /\ run[s].pc = "active" /\ Runs(s, "post")
    /\ Emits(s, "agent_end")
    /\ UNCHANGED <<used, server, sessionVars, work, dialog>>

\* _handlePostAgentRun: a retry, or a compaction and a retry.
Retry(s) ==
    /\ Lives /\ run[s].pc = "post" /\ s \notin disposed /\ Uses("retries")
    /\ \A c \in Calls : work[c] # [pc |-> "aborting", on |-> s]
    /\ Runs(s, "accepted")
    /\ UNCHANGED <<stdout, server, sessionVars, work, dialog, story>>

Settles(s) ==
    /\ Lives /\ run[s].pc = "post"
    /\ run' = [run EXCEPT ![s] = Idle]
    /\ UNCHANGED <<used, stdout, server, sessionVars, work, dialog, story>>

(***************************************************************************)
(* AgentSessionRuntime replaces the session                                *)
(***************************************************************************)
\* An extension cancels, or the runtime goes on to tear the session down.
BeforeSwitch(c) ==
    /\ At(c, "before")
    /\ \/ Works(c, "shutdown", work[c].on) /\ UNCHANGED <<used, stdout>>
       \/ Uses("refusals") /\ Answers(c)
    /\ UNCHANGED <<server, sessionVars, run, dialog, story>>

\* teardownCurrent: the session of this moment, which aborts its run.
Teardown(c) ==
    /\ At(c, "shutdown") /\ Works(c, "creating", work[c].on)
    /\ disposed' = disposed \union {current}
    /\ UNCHANGED <<used, stdout, server, current, session, subscribed, run, dialog, story>>

\* apply, and the beginning of rebindSession.
Create(c) ==
    /\ At(c, "creating") /\ Works(c, "rebinding", work[c].on)
    /\ run' = Append(run, Idle) /\ current' = Len(run) + 1 /\ session' = current'
    /\ UNCHANGED <<used, stdout, server, subscribed, disposed, dialog, story>>

\* The new session cannot be created: the old one is disposed of already.
CreateThrows(c) ==
    /\ At(c, "creating") /\ Uses("refusals")
    /\ Answers(c)
    /\ UNCHANGED <<server, sessionVars, run, dialog, story>>

\* The extensions are bound, twice: for the runtime and for the command.
Rebound(c) ==
    /\ At(c, "rebinding") /\ Works(c, "rebinding again", work[c].on)
    /\ subscribed' = session /\ session' = current
    /\ UNCHANGED <<used, stdout, server, current, disposed, run, dialog, story>>

ReboundAgain(c) ==
    /\ At(c, "rebinding again") /\ Answers(c)
    /\ subscribed' = session
    /\ UNCHANGED <<used, server, current, session, disposed, run, dialog, story>>

(***************************************************************************)
(* The process ends: of what it has output, some was not written yet       *)
(***************************************************************************)
Exits ==
    /\ server # "exited" /\ server' = "exited"
    /\ IF client = "stopping" THEN UNCHANGED used ELSE Uses("crashes")
    /\ stdin' = <<>>
    /\ \E n \in 0..Len(stdout) : stdout' = SubSeq(stdout, 1, n)
    /\ UNCHANGED <<clientVars, sessionVars, run, work, dialog, story>>

Init ==
    /\ scenario \in Scenarios /\ used = [b \in Bounds |-> 0]
    /\ client = "up" /\ exitError = FALSE /\ call = [c \in Calls |-> NoCall] /\ listeners = <<>> /\ asked = {}
    /\ stdin = <<>> /\ stdout = <<>>
    /\ server = "starting" /\ current = 1 /\ session = 1 /\ subscribed = 0 /\ disposed = {}
    /\ run = <<Idle>> /\ work = [c \in Calls |-> NoWork]
    /\ dialog = [d \in Calls \union {0} |-> "none"]
    /\ story = [c \in Calls |-> <<>>]

ClientStep ==
    \/ \E c \in Calls, kind \in Kinds : Send(c, kind)
    \/ \E n \in 1..Len(stdout) : ReadChunk(n)
    \/ \E d \in asked : Answer(d)
    \/ Exit \/ stop \/ StopTimer
    \/ \E c \in Calls : RequestTimeout(c) \/ WaitTimeout(c)

ReadLine == HandlePrompt \/ HandleState \/ HandleAbort \/ HandleNewSession \/ HandleAnswer

CommandStep(c) ==
    \/ Accept(c) \/ Reject(c) \/ Aborted(c) \/ BeforeSwitch(c) \/ Teardown(c)
    \/ Create(c) \/ CreateThrows(c) \/ Rebound(c) \/ ReboundAgain(c)

RunStep(s) == RunStarts(s) \/ RunEnds(s) \/ Retry(s) \/ Settles(s)

Next ==
    /\ \/ ClientStep \/ Started \/ ReadLine \/ Exits
       \/ \E c \in Calls : CommandStep(c)
       \/ \E s \in DOMAIN run : RunStep(s)
       \/ \E d \in DOMAIN dialog : OpenDialog(d) \/ DialogExpires(d)
    /\ UNCHANGED scenario

\* Neither the client nor the process stands still while what was written can be
\* read, a command or a run can go on, a user is asked, a dialog expires, or a
\* process has exited; a process that is told to stop does.  The timers of the
\* client need not fire, but for a request that nothing else will settle.
Progress ==
    \/ \E n \in 1..Len(stdout) : ReadChunk(n)
    \/ \E d \in asked : Answer(d)
    \/ Exit
    \/ \E c \in Calls : call[c].pc = "forgotten" /\ RequestTimeout(c)
    \/ Started \/ ReadLine \/ (client = "stopping" /\ Exits)
    \/ \E c \in Calls : CommandStep(c)
    \/ \E s \in DOMAIN run : RunStep(s)
    \/ \E d \in DOMAIN dialog : DialogExpires(d)

Spec == Init /\ [][Next]_vars /\ WF_vars(Progress /\ UNCHANGED scenario)

-----------------------------------------------------------------------------
(***************************************************************************)
(* Properties                                                              *)
(***************************************************************************)
TypeOK ==
    /\ scenario \in Scenarios /\ \A b \in Bounds : used[b] <= scenario[b]
    /\ client \in {"up", "stopping", "stopped"} /\ exitError \in BOOLEAN
    /\ server \in {"starting", "reading", "exited"}
    /\ asked \subseteq DOMAIN dialog /\ listeners \in Seq(Calls)
    /\ current \in DOMAIN run /\ session \in DOMAIN run /\ subscribed \in 0..Len(run)
    /\ disposed \subseteq DOMAIN run
    /\ \A d \in DOMAIN dialog : dialog[d] \in {"none", "open", "closed"}

AgentEvents(lines) == SelectSeq(lines, LAMBDA line : line.type \in {"agent_start", "agent_end"})

\* "Send prompt and wait for completion, returning all events": the agent's events
\* that promptAndWait() has collected when it returns are those of the run of its
\* prompt, from the first to the last, whatever dialogs, aborts, replaced sessions
\* and other calls came before it or in between.
CollectedIsRun ==
    \A c \in Calls : call[c].pc = "returned" /\ call[c].kind = "promptAndWait" =>
        AgentEvents(call[c].got) = story[c]

\* Every call ends without its timer, and then again nobody waits: a request is
\* answered, or fails when the process exits; a wait ends with the run, unless the
\* process exits.
CallsEnd ==
    []<>(\A c \in Calls : /\ call[c].pc \notin {"sent", "forgotten"}
                          /\ call[c].pc = "waiting" => server = "exited")

\* What listeners get are events, and no response that came too late for its request.
NoStrayResponse ==
    \A c \in Calls : \A i \in DOMAIN call[c].got : call[c].got[i].type # "response"

\* No rejection of a promise is left without a handler, which would end the
\* application.
NoneUnhandled == \A c \in Calls : call[c].pc # "unhandled"
=============================================================================
