# A verification project for the pi coding agent

TLA+ models of the core of this repository (`packages/agent`, `packages/coding-agent`, and what
they rest on in `packages/ai` and `packages/tui`),
the TLC configurations that check them, and theorems about them that TLAPS proves.

Paths below are relative to `src/`. `AS` stands for
`packages/coding-agent/src/core/agent-session.ts`, `SM` for `.../core/session-manager.ts`,
`A` and `L` for `packages/agent/src/agent.ts` and `agent-loop.ts`, `AH` for
`packages/agent/src/harness/agent-harness.ts`, `ST` and `AU` for `settings-manager.ts` and
`auth-storage.ts` beside `AS`, `T` for `packages/tui/src/tui.ts`, `RM` and `RC` for `rpc-mode.ts` and
`rpc-client.ts` in `packages/coding-agent/src/modes/rpc`.

## 1. The system

The program is a coding agent: it sends a conversation to a language model, executes the
tools the model asks for, and saves the conversation as a tree in a file. Everything in a
process runs on one JavaScript thread; what interleaves are the continuations of `await`. The
hard part is therefore what happens *between* awaits: a user types while the model answers,
tools of a batch settle in any order, a compaction rewrites the transcript, a process dies, a
timer of a retry fires after it was aborted. Several processes share the files of settings and
credentials; another program may drive the agent over pipes; and the screen is written in
pieces that must add up.

| component | state it keeps | operations | what makes it correct |
|---|---|---|---|
| **Agent and loop** (`A`, `L`) | transcript, queues of steering and follow-up messages with their modes, pending tool calls, the loop's own copy of the transcript | `prompt`, `continue`, `steer`, `followUp`, clear, `abort`, `reset`; the loop's events | the model sees the transcript; the calls of a complete reply have one result each, in order; no queued message is lost or reordered; runs settle |
| **File mutation queue** (`core/tools/file-mutation-queue.ts`) | map from a file to the last promise of its chain; a registration chain | `withFileMutationQueue` | mutations of one file run one at a time, in order; other files are not blocked; the map does not leak |
| **Session manager** (`SM`) | tree of entries, leaf, labels, whether the file was flushed; the file | `append*`, `branch`, `branchWithSummary`, `createBranchedSession`, `setSessionFile`, `newSession` | file and memory agree; what was saved survives; forks and compactions keep the context |
| **Compaction** (`core/compaction/compaction.ts`) | none | `prepareCompaction` and its cut points | no message is forgotten, no tool result loses its call |
| **AgentSession** (`AS`) | flags of the run, displayed queues, kept-back messages, retry and recovery counters | `prompt`, `sendCustomMessage`, `steer`, `followUp`, `clearQueue`, `abort`, `compact`, `recordBashResult`; the listener that saves | transcript and session agree; nothing lost or sent twice; retries bounded; waits end |
| **AgentHarness** (`AH`), a second driver of the loop, and **its session** | phase, three queues, pending session writes, the run `abort` and `waitForIdle` refer to; a tree whose leaf is an entry | `prompt`, `skill`, `steer`, `followUp`, `nextTurn`, `appendMessage` and setters, `compact`, `navigateTree`, `abort` | nothing accepted is lost or doubled when hooks, listeners or appends throw; requests show the branch; the phase tells the truth |
| **Credentials** (`AU`, `ai/src/auth/resolve.ts`) | `auth.json`, its lock file, each process's snapshot of it | `read`, `list`, `modify` (login, refresh), `delete`, `reload` | a token is refreshed once; no update lost; a snapshot is what it is valid for |
| **Settings** (`ST`) | `settings.json` (global, project), a lock file, each process's memory, marks and queue of writes | setters, `reload`, `setProjectTrusted` | what was set is kept; what others wrote is left alone |
| **Terminal UI** (`T`) | what was rendered, the cursor's line, the viewport, a high-water mark; whether a render is requested, scheduled, forced | `requestRender`, `doRender`, `start`, `stop` | the screen shows the end of the last frame and nothing else; no request is forgotten |
| **RPC mode and client** (`RM`, `RC`), **session runtime** (`core/agent-session-runtime.ts`) | pending requests, listeners; pending dialogs; the current session and the one listened to | the client's calls, lines both ways, dialogs of extensions, `newSession` | a call gets its own answer and events, and ends |
| Event stream, model runtime, extensions, harness compaction | a queue of events; coalesced refreshes; handlers | | section 7 |
| Providers, interactive mode, editor, tools, resources, packages, CLI | little | translation, rendering, I/O | section 7 |

How they interact: AgentSession calls `Agent.prompt` and `Agent.continue`, and subscribes
to its events; the loop awaits AgentSession's listener for every event, which tells the
extensions, appends to SessionManager and updates the displayed queues. Tools run inside
the loop and take the file mutation queue. Compaction reads SessionManager's branch and
replaces the agent's transcript. Users, extensions and RPC clients call AgentSession at any
moment; RPC mode writes its events to stdout, and the runtime replaces the session under it.
AgentHarness is the same idea for applications that embed the loop, with its own session.
Each request asks Credentials for a token. The interactive mode requests a render of the
terminal UI for every event.

The hazards of this code, each at its line, are the `hazards` of `PROJECT.json`, with the
properties that would catch them, and a note where a passing run leaves a corner out.

## 2. Modules

| module | models | uses |
|---|---|---|
| `Agent` | class `Agent` and the loop, event by event | |
| `AgentProofs` | theorems about `Agent`: types, the copies of the transcript, the report, which calls run and how they are answered, and its queues | `Agent` |
| `FileLock` | abstract: a first-come lock per file | |
| `FileMutationQueue` | `withFileMutationQueue`, with the refinement of `FileLock` | (instance of `FileLock`) |
| `FileMutationQueueProofs` | theorems about it, the refinement included | `FileMutationQueue` |
| `SessionTree` | branches, contexts, labels, forks, compaction cut points as operators | |
| `SessionManager` | the manager, its file, failing writes and dying processes | `SessionTree` |
| `SessionManagerProofs` | theorems about it: what was saved is found again, file and memory hold the same tree, what the branches of the tree and forks of them send to the model | `SessionManager` |
| `AgentSession` | `AgentSession` around a run reduced to what a session sees of it | |
| `AgentSessionProofs` | theorems about it: idle sessions, where messages are, calls beside their results, and how often requests are retried | `AgentSession` |
| `HarnessSession` | the harness's tree of entries, its leaf and branches, as operators | |
| `AgentHarness` | phases, queues, pending writes and hooks over that session | `HarnessSession` |
| `AgentHarnessProofs` | theorems about its phase, its items and its requests | `AgentHarness` |
| `Credentials` | `auth.json` and its lock, of several processes | |
| `CredentialsProofs` | theorems about snapshots, updates and tokens | `Credentials` |
| `Settings` | settings files and their locks, of several processes | |
| `SettingsProofs` | theorems about what a write changes and keeps | `Settings` |
| `Terminal` | external: what a terminal does with text and control sequences | |
| `TuiRender` | when a render happens, and `doRender` | `Terminal` |
| `TuiRenderProofs` | theorems about it: types, requests, what the screen shows | `TuiRender` |
| `Rpc` | client, pipes, process, and the replacement of its session | |
| `MC*` | nothing but the constants and scenarios of the runs | |

Most modules have a constant `Scenarios`, a set of records that say what may happen in a behaviour
and bound it: the initial state picks one, so that one run covers several mixes of
operations whose product would be too large. `None` is a model value throughout.

### Agent

A step is the code between two awaits. `pc` is where the run is; each event the loop emits
is a step, because `processEvents` (A:509) first reduces the event into the state and then
awaits the listeners. `SettleOr(next, onThrow)` is that await: it settles, or something
throws, and the run goes to the handler that would catch it: `failed` is the `catch` of
`runWithLifecycle` (A:464), whose four events are `FailStart` to `FailAgentEnd`. The batch variables `todo`, `started`, `prepared`, `executing`,
`ending` are the positions of a call in `executeToolCallsSequential`, `...Parallel` and
`failToolCallsFromTruncatedMessage`. The application's calls (`Prompt`, `Steer`, `Abort`,
`Reset`, ...) are enabled at every step. Two history variables, `dropped` and `discarded`,
hold what was given up by an abort, a failure, a clear or a reset. A reply that failed or was aborted keeps
the tool calls that were streamed before (`StreamEnd`); the loop returns without executing or answering
them (L:196), so the transcript has calls without results then, which `packages/ai` repairs when it sends it.

Abstracted: a user message is a number and the channel it came by; an assistant message
its stop reason and calls; partial messages of a stream are left out; so are
`shouldStopAfterTurn` and `prepareNextTurn`, which the coding agent does not set.

### FileMutationQueue

A promise is named by the call that made it. `Call` takes a place in `registrationQueue`,
`Realpath` finds the key in turn (the file if it exists, the literal path otherwise),
`Register` chains behind `tail[key]`, `Start` follows `await currentQueue`, `Finish` is
the `finally`. The environment creates and removes the files in `Fickle`; mutations of the
files in `Stuck` may never return.

### SessionTree and SessionManager

An entry has an id, a parent, a kind, and the entry it refers to; a compaction carries the
set of messages its summary accounts for, so that "nothing is forgotten" can be stated. `Covered` is what `compact()`
(`compaction.ts:754`) hands to the summary: it drops the previous summary where the cut splits a turn with nothing
before it since the last compaction. A fork is made of the file (`Fork` opens it, as `agent-session-runtime.ts:343` does), a
copy of a branch of what is in memory. The
methods of the manager are synchronous, so one action is one method with the write it ends
in. A write may throw having written nothing, some lines, or (with `Tears`) a piece of a
line; the process may die in the same places. The token budget of a compaction is a free
choice of the message at which it is exceeded (`over`).

### AgentSession

Between the awaits of `prompt()` and `_runAgentPrompt` a caller is in a phase
(`auth`, `before`, `running`, `post`, `sleeping`, `prepare`, `summarizing`, `continue`,
`settling`, ...). The run of the agent is reduced to the messages it emits: `Deliver` is
the message in the transcript and the display updated, `Save` the entry in the session;
between them the extensions are awaited (AS:549). A reply is a kind: `calls` asks for a
tool, `full` passes the threshold, `length` is cut off, `error` is retryable, `overflow`
is too large, `aborted`. The ids of messages and entries grow, and `branch` is the
current branch of the session.

Abstracted: one tool call per reply, the default queue mode, one linear branch, writes that
do not fail (SessionManager has those), listeners of `session_compact` that answer at once.
Where nothing can come between two awaits but microtasks of the session itself, no step is
taken in between (`Microtask`).

### AgentHarness and HarnessSession

A run is a record with a `pc`; a step is the code up to the next await that something outside
may delay: a listener (`emit`, `told`, `turnEnd`, `ended`), a hook (`before`, `prepare`), the
provider (`request`), an append to the file (`appending`, `flushing`). Each has a twin that throws:
`TakenThrows`, `BeforeThrows`, `DrainThrows`, `LoopThrows`, `TurnThrew`, `LastFlushFails`. `Drain` is
`drainQueuedMessages` with its rollback, `FlushThen` the loop of `flushPendingSessionWrites`. An
append takes its parent from the leaf before it awaits the file, so `Put` carries the parent and
`Appended` moves the leaf. The phase becomes idle at `NothingPolled`, before the listeners of
`agent_end`; `Release` is `finishRunPromise`. An accepted item (message or write) is a record of the call
that made it and the way it came; a tool call is a turn without content. The history variable
`discarded` holds the items that are nowhere any more, and `lost` those of them that nobody got back: the ones that
a run had taken or drained when it threw.

### Credentials

A call goes `read` (is the token in the snapshot still good?), `reading` if the file changed, by one reload
shared by all calls of the process that wait for it, `locking`, then `leaving` if there is nothing to do, or `refreshing`,
`writing`, `truncated` (the file is empty, AU:148), and `releasing`. The revision
`rev` is what `stat` tells of the file; `ReloadTags` and `Leave` take it in a step after the read (AU:144, :254). The lock is
proper-lockfile's: `Takes` is external, an owner
that died or was suspended for 30 seconds loses it (`Stale`, `Stall`), and `Compromised` is the timer of the owner that
finds out. A process that constructs an `AuthStorage` loads synchronously, under a lock that is stale after 10 seconds
(AU:73), while an owner touches its lock every 15: `LoadTakesOver`, during a refresh that takes long
(`Start`, and `Construct` for a further session of a running process). `Crash` is a process that dies, `Tear` one that dies
between truncation and write. The server issues tokens, makes them `expired` and takes each for exchange once (`spent`).

### Settings

Setters change memory and marks and queue a write with a snapshot; the queue runs one task at a
time (`Begin`, `Read` or `LockAbsent`, `Store`, or `LockFails`). A task blocks its process, so only
other processes, and hands that edit the file, come between its system calls. `Reload` waits for the queue
of the moment of its call; a file that is not JSON is the constant `Bad`.

### Terminal and TuiRender

`Terminal` has the rows of the screen, the cursor's row, and the rows that scrolled out. `TuiRender` has
one operator for each strategy of `doRender` (first, again, same, deleted, unseen, shrunk, visible,
changed), chosen by the conditions of the code, each writing to the terminal by the same moves and
ending in `Rendered`. A frame is a list of texts and the line of the cursor, any after any other. `ticks`
are the callbacks of `process.nextTick`, in order, and `renderTimer` the throttle. A resize leaves
garbage on the screen until the render it requests.

### Rpc

Two pipes of lines, `stdin` and `stdout`. On the client's side, a call is `sent`, then `waiting` for the end
of a run, then `returned` or `failed`; `ReadChunk` handles any number of lines before anything that
awaited them goes on, as the event loop does. A collector removes itself from the array of listeners while that
is iterated (RC:495, :172), so the one behind it is passed over (`Heard`, `Remaining`). On the other side, a line starts a command whose awaits are the
steps of `work`; a run of the session emits `agent_start` and `agent_end`, may be retried after
that, and only then is the session idle. `new_session` goes through the runtime: the veto, the
teardown, the creation, and two rebindings. `story` is the history of the events of each run. What a
process had not written when it exits is lost.

## 3. Runs

`CHECK_DEADLOCK FALSE` stands where inputs are bounded and the system then really has nothing left to
do. `agent` and the two `tui` runs check for deadlock: an idle agent accepts calls forever, and a
screen can always be rendered again.

| run | asks | bounds |
|---|---|---|
| `agent` | batches of tools in every order of settlement, aborts, resets, one throw; or full queues in both modes, changed at any time: copies of the transcript agree, replies fail or are cut off with calls in them, each call of a complete reply that is not given up has one result in order, nothing that is queued is lost, one steering message per request, and runs settle | 1 message, 3 calls, 2 per reply, 1 failure; or 3 messages, 2 with both modes |
| `files` | three calls over three paths (one a link) and two files, one of which comes and goes and may get stuck: order, no leak, the lock refined (so that no two mutations of a file overlap), no blocking of others | 3 calls |
| `session` | appends, branches, forks with a failing write and a crash; labels set and cleared on all branches; tool turns and settings compacted at every cut point, repeatedly: file and memory agree, saved entries survive, forks of the file keep the context until a write fails, nothing is forgotten where summaries are handed on, no orphan result | 4 entries; 5 with compactions |
| `as_session` | prompts, steering, follow-ups, messages for the next turn, custom messages, shell results, an abort, a retry; or errors, overflows, length stops and full contexts in any sequence: each message in one place, calls next to results, the display exact, transcript and session agree, retries and recoveries bounded | 3 inputs, 2 replies; 3 inputs, 3 replies; 1 retry |
| `as_live` | two callers, a `compact()`, an abort, a clear: all of them return | 2 inputs, 1 retry |
| `harness` | steering and follow-ups in both modes, messages for the next turn, writes, aborts, one throw at any await; the tree moved and compacted between runs; runs that listeners start in the end of another: every item in one place, lost only by a throw, requests are the branch, the phase tells the truth, `prompt()` returns | 3 to 4 calls, 2 runs, 1 turn with tools, 1 throw |
| `credentials` | two processes, two providers, two calls at a time: refreshes that meet, with a login and a logout, failures, a crash and a new session; and, for the calls to return, a death in the middle of a write, a suspension, a session that begins during a slow refresh, an absent file | 3 calls; 2 with faults |
| `settings` | two processes and the user: setters, reloads, errors of the lock, typing errors, changes of trust, a first file | 2 fields, 3 to 4 settings, 2 edits |
| `tui` | every sequence of frames of two texts; the cursor in any line; resizes; stops, starts, requests in renders and forced renders | 6 lines on 4 rows, 5 on 3 with a cursor, 4 on 2, 3 on 1 or 2 |
| `rpc` | awaited prompts with dialogs, aborts, replaced sessions; a process that dies or is stopped with lines unread; calls that nobody awaits, with a refusal, a retry and a replacement that fails | 3 calls, 2 dialogs |
| `rpc_retry` | finds: `promptAndWait()` returns before the retry (section 6) | 1 call |
| `tui_short` | finds: an old line stays on the screen (section 6) | 6 lines on 5 rows |

**Why the bounds are enough.** They are the smallest at which every branch of the code is
taken, and then one more where the time allows. Two calls in a batch settle in either
order and one of them can be aborted before it starts; the third falls in a second batch,
so that results of two batches could mix. Three queued messages make a drain of "all"
differ from three drains of one, with one left while a mode changes. Three calls of the
file queue are needed for one to be deleted from the map while another waits behind it.
Two compactions on a branch, which five entries allow, are needed for the second to
summarize what the first kept. Two errors and one retry make the counter reach its limit;
three replies allow a retry, an overflow and the recovery's own overflow in sequence. A pending write
and a queue of the harness can each be changed once while a flush or a drain of it is under way. Two calls
of a process share a reload and then meet the third in the lock; two providers make a write of one a
danger for the other. Two fields of one process and two processes are what a merge has to tell apart. Frames
two lines longer than the screen make the viewport move twice, past each end of a change. Two runs of a client
make the events of one a danger for the other, and its third call is what comes in between.
For the properties that section 5 proves no bound matters: the theorems hold for any instance. For the
others it is a judgement that larger ones add nothing.

**Restrictions that matter.** Where the code violates a property in a corner, the passing run leaves
that corner out by its constants, and a configuration of section 6 shows it:

- `as_session` has one caller, distinct texts, no `compact()` and no `clearQueue()`; where the context
  may be full or a reply is cut off there are no aborts.
- `session` has no torn lines and no compactions next to labels; after a failed write `FileIsMemory` and
  `ForkKeepsContext` say nothing of the memory, and `NothingForgotten` leaves out branches with a compaction
  that dropped the summary before it (`HandsOn`). `files` has no link to a file that comes and goes.
- `harness` has no writes where runs overlap, and none during a compaction; `InOnePlace` allows a run that
  throws to lose what it had taken.
- `credentials` has a suspension, a slow refresh, a death in a write and an absent file, but its safety properties are stated
  for behaviours without them (`Undisturbed`), and `CallsFinish` for all; `settings` has one process where the file is absent, and no setter during a reload.
- `tui` has no cursor above the screen, no frame that is shorter than the screen after one that was
  longer and changed above it, no size that is back when its render comes, and `start()` is
  followed by a forced render, as `interactive-mode.ts` does it.
- `rpc` awaits each prompt and replacement before the next, has no retries, refusals or timeouts where
  a prompt is awaited, and dialogs at the start have a timeout. The scenario in which nobody awaits has all of
  these.

Properties that speak of a reset run, or of memory after a failed write, say so in their guards.

**Fairness.** `FairSpec` of `Agent` has weak fairness of the loop and of the tools,
that of `AgentSession` of the run, of each call under way and of `compact()`: the event loop
runs what is resolved, and providers, tools, timers and extensions answer (by
default nothing limits a tool or a provider that hangs; abort ends it, or the optional
timeout of `tool-timeout.ts`). Nothing is assumed of the application: nobody has to prompt, abort or clear.
`FileMutationQueue` has weak fairness of its promises and of the mutations of files that
are not stuck. `AgentHarness` has it of each run, operation and write under way; `Credentials` of the calls of a
running process and of a dead owner's lock becoming stale, but no process has to start again and no call to be made.
`Rpc` has it of everything that can be read or go on: lines are delivered, runs end, users answer, dialogs
with a timeout expire, a process that is told to stop does; the client's timers need not fire. For
`TuiRender` the promise that a requested render comes is stated as a safety property: there
is always a timer or a callback that will do it.

## 4. Properties

`Agent`: `ContextIsTranscript` and `ReportIsTail` tie three lists that are extended in
different places. `AnsweredInOrder` and `ToolsAccountedFor` are about batches that may be aborted, cut
off, or fail at any await, and replies that fail with calls in them. `QueuedDelivered` and `OneSteerPerRequest` are about the queues.
`RunSettles` is the promise behind `waitForIdle`.

`FileMutationQueue`: `KeyInOrder`, `MapIsLive`, `OtherFilesGoOn`, and
`ImplementsLock`: the queue as a whole is a first-come lock per file. `SameFileSerialized` follows from that
and is proved.

`SessionManager`: `SavedSurvives`, `FileIsMemory`, `ForkKeepsContext`, `NothingForgotten`, `NoOrphanResult`.

`AgentSession`: `NothingLost`, `PairsTogether`, `ShownIsPending`, `IdleIsIdle`, `NoContinueAfterAnswer` (which says
nothing of replies that failed or were cut off: `continue()` is called after them too, and throws), `TranscriptIsContext`, `RetriesBounded`, `CallsReturn`.

`AgentHarness`: `InOnePlace` (an accepted message or write is in one place: a queue, the pending
writes, the run that delivers it, or the session; in none only if `abort()` gave it back or the run that had taken it
threw), `RequestIsBranch` (what the model is
sent is what a reopened session would show), `PhaseTruth`, `PromptReturns`.

`Credentials`: `RefreshedOnce`, `NoUpdateLost`, `SnapshotIsFile`, `CallsFinish`. `Settings`: `SetIsKept`,
`OthersKept`. `TuiRender`: `ScreenIsViewport`, `NothingBelowExit`, `RequestedIsComing`. `Rpc`:
`CollectedIsRun`, `CallsEnd`.

Each has a mutant in `PROJECT.json`: a definition with a plausible bug, kept beside the
original and marked `Mutant`, that violates the property under the same configuration. The type invariants
(`TypeOK`) of modules other than `Agent` are not part of a run: add `INVARIANT TypeOK` to the
configuration of a run to check one.

## 5. Proofs

`FileMutationQueueProofs`. `QueueInv` is the inductive invariant. `KeyInOrder` alone is not
inductive: a call that starts knows only that the call it awaited is over. `BehindIsLate`
says that the awaited call is at least as late as every earlier call of the key that is not over;
that needs `TailIsLast`, that the map named the last call when the call registered;
that in turn needs `ChainOrder`, that registrations happen in the order of the tickets. From
`QueueInv` follow `QueueTypes`, `KeyInOrderHolds` and `MapIsLiveHolds`, for any calls, paths
and files, whichever files come and go. `SameFileSerializedHolds` and
`QueueImplementsLock` assume `StablePaths` (a path through a link leads to a file that
is not fickle): then the key of a registered call is its file (`KeyIsFile`), and each step
is a step of the lock or leaves it unchanged. `MCFileMutationQueue_new_file.cfg` shows that the
assumption is needed.

`AgentProofs`. `TypeInv` is `TypeOK` with `NonEmpty`: where the code takes the first of a
list, the list is not empty. It is proved for one group of variables at a time (`RunStep`, `QueueStep`,
`BatchStep`, `AuxStep`, `PcStep`, `FlagStep`). `CopyInv` says what separates the loop's copy
from the transcript at every `pc`: the messages still to be emitted, or the results of a
batch that the loop adds only when the batch is done. Both together are inductive, and give
`TypeCorrect` and `ContextIsTranscriptHolds` for any number of messages, calls and failures
and any modes. `ReportInv` says that the loop's copy ends with the report, which grows with it from
the prompts on, until a failure replaces both: with `CopyInv` it gives `ReportIsTailHolds`.

`AgentProofs`, calls. `ToolInv` has three parts. `RunningInv` relates the positions of a call: calls are numbered
in the order of the batch, one that is prepared was announced, and one that is to come does not run. `PendingInv`
bounds what is shown as pending by what is prepared or runs, at each `pc`; `TruncatedInv` keeps the
calls of a cut-off message away from what runs. They give `ToolsAccountedForHolds`. For
`AnsweredInOrderHolds`, `AnswerInv` says of each call of each reply that it is given up, answered in the
transcript, or still owed by the batch, unless the reply failed or was aborted, which has no answers at all, and that nothing but results stands between the reply and its
answer. That needs `ResultInv` (results emitted or waiting are in the order of the calls and before all
that are to come) and `WaitingInv` (what waits to be emitted in a batch is results only).

`AgentProofs`, queues. `DeliverInv` says of each channel that the transcript, what the loop is about to emit and
the queue are three lists that follow each other in the order of the messages' numbers (`LineInv`), and that
each number is in one of them or was discarded (`BooksInv`). `QueuedDeliveredHolds` follows. `SteerInv` says
at which `pc` a run may still have steering messages that the model has not answered, and gives the
action property `OneSteerPerRequestHolds`.

`AgentHarnessProofs`. `PhaseInv` is the phase with what tells it: there is one run or one operation at a time, the
promise and the abort controller are those of the run, and the phase is that of a run until its `ended`.
`PhaseTruthHolds` needs nothing else; its property, and `PhaseInv`, speak of applications that
await what they call (`scenario.awaits`), since runs that listeners start in the end of another overlap by design.
For `InOnePlaceHolds`, `WellPlaced` says of the places of an item (three queues, the pending writes, the session, the
messages of each run, the append of each writer) that no accepted item is twice in a place or in two places, that
none is new, and that each is somewhere or in `discarded`; `Places` in the specification is counted from the same lists.
Every step changes at most two places: `Swapped` says how, and `Moved` is the one argument for all of them. `RunData` says
where a run may have messages, and that the append under way is that of its first one, or of the first pending write:
that is why the write that is shifted out is the one that was appended. It needs `Kept`: the application awaits its
operations, so that one run flushes at a time (from `PhaseInv`), or it writes nothing; the corner OverlapScenarios of
section 6 shows a write appended twice and another lost without it. `LostInv` adds that before anything has thrown nothing is
`lost` and no run is on its way to throw (`RunCalm`, for each step of a run). `RequestIsBranchHolds` rests on `ContextInv`: at each
`pc` of a run, its context is the open branch, or the branch and what it is about to emit. It is proved from `BranchGrows`
(an entry more adds its item to the branch it hangs on); `Branch` is a recursive function, and that it
satisfies its equation is shown with a least counterexample (`PathExists`, `PathsAgree`).

`CredentialsProofs`. The three theorems hold while `Undisturbed`: no owner of the lock was suspended past the stale time,
none was outlasted by a synchronous load of another process, no process died between a truncation and its write,
and the file was there or there is one process. The four corners of `Credentials` in section 6 show that each is
needed. The invariant is `LockInv` (who has read and is not done owns the lock), `WrittenInv` (what such a call has read
is the file, and the file is `written` unless a call has truncated it), `TagInv` (a snapshot or a call that is tagged with the present
revision has the present content: between the read and the tag nobody writes, because its owner has the lock) and `TokenInv`: a token
is in the file once, a spent one only while the call that exchanged it is
about to write the new one, and a new one is nowhere else.

`SettingsProofs`. Both theorems assume `FilesThere`: the file is present, or there is one process. `OthersKeptHolds`
rests on `LockInv` (the task between its read and its write holds the lock), `ReadInv` (what it has read is
still the file) and `MarkInv` (only what a process was told to set is marked or queued).
`SetIsKeptHolds` assumes `scenario.awaits` too: nothing is set while a reload is under way. `KeptInv` is why
it holds: a setting that one process has set is in the file with no task about to write it, or the last task
that will write it has its value. The two corners of `Settings` in section 6 show that the hypotheses are needed.

`SessionManagerProofs`. One hypothesis, `Whole`: no write that is cut short leaves a piece of a line; the corner Glued of
section 6 shows that without it what was saved is lost. Writes fail, are cut short between lines, and
processes die, at any time; sessions are forked, copied and reopened. `FileInv` says that the entries in memory are `Good`
(whole entries whose ids grow and were given out), that the file has no lines or a header and `Good` entries, that
memory believes in the file (`flushed`) only if it has the header, and that while no write has failed the two
have the same entries. Neither `SavedSurvives` nor `MemoryInFile` alone is inductive: an append adds its line to the
entries that are loaded only if the file begins with a header, and a fork is written with new ids only if the old ones were
given out. From `FileInv` follow `SavedSurvivesHolds` and `FileIsMemoryHolds`. What the lists, the
writes and the walk along the parents compute are recursive functions, and each is shown to exist and to satisfy its
equation by a least counterexample (`FoldExists`, `TreeFoldExists`): `PickedIs` (a filter keeps
items and their order), `PutLinesIs`, `BranchStep`, `LabelsIsList`. `ForkedGood` is the longest argument: a fork is
chained again without its labels, and the labels it gets take new ids behind them.

`NothingForgottenHolds` and `NoOrphanResultHolds` speak about the contexts of all branches. They rest on `PathsInv`: while no
write has failed, every branch of the entries, and of what the file loads to, is `PathOk`. Each of its results is `Answered` (a call
or another result is the last message before it), and each of its compactions `Keeps` the entries from some entry f on: its
reference is f, its summary covers just the messages before f (if no compaction of the path dropped the summary before it,
`HandsOn`), and the messages from f on begin
with one that is no result. A path that is `PathOk` has the two properties (`PathRemembers`, `PathPaired`), and it
stays so: an append adds one entry to one branch (`AppendedPathsOk`); what a compaction keeps and covers
follows from its own cut point and from the `Keeps` of the compaction before it (`CompactionFollows`, `CompactionFits`), so the covered
messages are those before the cut in any number of compactions; a fork changes the path into a chain whose
branches are its prefixes (`ForkPaths`, `ChainBranches`). The hypotheses are `Whole`, `ForksWhole` (sessions that have both compactions and
labels are not forked, since forks drop labels and a compaction may keep from a label) and, in the theorem itself, `failures = 0`
(after a write that failed, an entry's parent may be missing from the file): the corners LabelFork, LabelForkTools, HoleCompacted
and HoleTools of section 6 show that they are needed, and SplitAgain that the property needs `HandsOn`. `KindsInv` says what the kinds of a scenario say about the entries.

`ForkKeepsContextHolds` assumes `Whole` and `Apart` (no session has both compactions and labels), and its property is stated for sessions
in which no write has failed: a fork is made of the file, which by `FileInv` has the entries of the memory then. Without compactions the context of the fork and that of the original are lists of messages whose ids grow,
with the same set of ids (`UnlabelledSays`), and such lists are the same (`OneOrder`). Without labels the fork
is the path but for its parents: it has its last compaction and the first kept entry at the same places, and the same ids
between them (`AlikeContexts`). `LabelsInv` says that the labels in memory are then an empty list, so that the fork gets none.

`AgentSessionProofs`. The theorems are for one caller of `prompt()` (`OneCaller`), any number of messages, replies,
retries and compactions, and any settings. `ControlInv` ties the run to the call that waits for it: a run
is that of the caller and the call is in `running`; a call that is in the loop of prompts has made the session
active. That gives `IdleIsIdleHolds`, through `compact()`, `abort()` and `clearQueue()` too. For
`NothingLostHolds`, `WellPlaced` describes the eight places where a message may be (queues, messages for the
next turn, shell results, the messages of the call, of the run, the one being saved, the session) as lists
in which no id occurs twice, all ids are old, and each message that was sent and not given back occurs.
Messages move in four ways only: all of a place (`AllMove`), the first of a place (`HeadMoves`), a new one
comes (`MessageAdded`), those of a call are given back (`MessagesGivenBack`); each step is one or two of these.
`Steady` excludes `compact()` and `clearQueue()`, and `OneCaller` a second prompt: the corners
CompactMeetsRun, Clear and Race of section 6 show that messages are lost with them. The scenarios of the
run `as_session` satisfy both.

`RetriesBoundedHolds` has one more hypothesis, `Undisturbed`: no `abort()`, no `compact()`, and neither custom messages nor
shell results that an idle session takes into its branch at once. The corners Cancel, CompactRetry,
CustomRetry and BashRetry show that each is needed; the second scenario of `as_session` satisfies it. The
invariant is in four layers. `ShapeInv`: the lists are lists, a compaction keeps an entry of the branch, a prompt
has a message until its run starts. `ReplyInv`: the last reply that was saved ends the branch until its run
has been looked at, and a failed one ends its run and the transcript. `ErrorsInv`: the branch ends with no
more errors than were retried, and one that has not been looked at; after the last retry failed the count
begins again, and then something that is no error is saved before the model is asked (`Covered`).
`OverflowInv`: a recovery that neither a user message nor a reply that is no error has followed is remembered in
`overflowTried`, and an overflow after it is not compacted. The two statements about lists, `Few` and
`Separated`, are kept by appending (`FewAdded`, `SeparatedAdded`). That the context rebuilt by a compaction is a list of
entries (`ContextIsList`) needs the recursive function of `Without`, from which `NotCompactions` is made, to exist: `KeptExists` shows it by
the least length for which it would not (`Least`, from the well-foundedness of `<`).

`PairsTogetherHolds` adds to `Steady` that either no custom messages and shell results are put into an idle session at once, or
no reply calls for a compaction (`Apart`); aborts and retries are in it, and in the first case recoveries and
automatic compactions too. Each scenario of `as_session` satisfies one half; BashMeetsRun shows what goes
wrong when neither holds. A list is `Closed` when its calls have their results and its last entry is no call, `Asking` when its last
call waits. `TogetherInv` says which of the two the transcript and the branch are, by where the run is and what it is
about to save: the transcript is ahead of the branch by one message, so they do not become `Asking` in the same step.
`ItemsInv` says that nothing that waits in a queue is a reply or a result, and that a compaction under way keeps
from an entry that is no result; from that, `ClosedCompacted` says that the branch with the compaction and
the context rebuilt from it are `Closed`, whatever earlier compactions lie between (`ClosedKept`, an induction
over the equations of `NotCompactions`). The second case of `Apart` rests on `NoHiddenRunHolds`: where no reply calls
for a compaction (`LightInv`), no prompt continues a run before the session is active, so whoever finds the session
idle finds no run.

`TranscriptIsContextHolds` has the hypotheses of `PairsTogetherHolds`. `MirrorInv` says that the transcript without failed replies
(`Kept`) is the context of `Saved`, the branch with the message under way; that the message under way is
the transcript's last; and that the reply a finished run is judged by is the transcript's last, if that
is a reply: what a retry or a recovery takes back is a failed reply, so `Kept` does not change. The context of a longer
branch is the longer context (`ContextJoined`), because the entry that a compaction keeps from is found by its id and ids
occur once (`EntriesOnce`, from `NothingLostHolds`); and the context rebuilt by a compaction mirrors the branch with it by
definition.

`NoContinueAfterAnswerHolds` has them too, and of the two `Apart` is there for its proof, which uses `MirrorInv`: in the scenario BashMeetsRun TLC
finds no violation of `NoContinueAfterAnswer`. What a compaction rebuilds may end in two failed replies that were taken back before, so the
invariant, `WorkInv`, must speak of the entries of the branch that are no compactions (`Entries`), of the transcript and of
`overflowTried` together. `Fits`: a recovery was tried, or a failed last entry follows something to go on from (`Pair`) and the last entry is
itself something to go on from unless it ends the transcript. `Recoverable`: a compaction that recovers will find
such an entry once the failed reply is stripped. `WorkAfter` is the lemma they are for: the context of the branch with the
compaction ends like `Entries`, because a compaction keeps at least one of them (`EntriesSince`, `ContextEnds`). `RunWork` and `CallWork`
say at each step of the run and of the call what the transcript ends with: a run that is about to ask
has no reply at the end, one that has answered has one reply there and not two (`OneReply`), since `Strip` removes only one.

`ShownIsPendingHolds` assumes `Steady` and distinct texts (`Distinct`), as the corner Texts of section 6 demands. `PendingInv` is the
property, and that a user message waiting anywhere has the text that its number is. The display removes the first text equal to that of a
delivered message, which is the message's own, because what is delivered is the head of what is pending, and the ids in it
differ.

`TuiRenderProofs`, for terminals of any height, frames of any length, and any order of requests, resizes and
stops. `TypeCorrect` needs no more than what each terminal operation does to a screen (`DownFacts`,
`NewlinesFacts`, `WriteFacts`, `EraseFacts`), and that the first and the last changed line exist
(`ChangedFacts`). `RequestedIsComingHolds` has one hypothesis, `Restarts`: whoever starts the UI again
forces a render. `ScreenIsViewportHolds` and `NothingBelowExitHolds` rest on `ViewInv`: as long as
the size is the one of the last render, or nothing was rendered, the screen `Shows` the lines from
`previousViewportTop` on, and something is above them only if that is 0 (without this the invariant is not
inductive: what `RenderVisible` scrolls away would be unknown). There is one lemma for each strategy of
`doRender` (`FirstShows`, `ClearedShows`, `SameShows`, `DeletedShows`, `VisibleShows`, `ChangedShows`), each
from `OnView` before the frame to `OnView` after it; `RenderedShows` is their common end. The longest is
`ChangedShows`: new lines scroll, lines are written in the middle, and the rows of lines that are gone are erased below, so
that the screen shows in between a mixture of two frames. Their hypothesis `Usual` adds to `Restarts` that the
cursor is on the screen, that no frame gets shorter than the screen while lines are added above it, and that
no size is back when its render comes: the run `tui_short` and the corners Unseen, Bounce and Stuck
of section 6 show that each is needed. The scenarios of the run `tui` satisfy all of them.

Assumptions: only those named `...Assumption` in the modules, which TLC evaluates in every
run, and the hypotheses that a theorem states. In `Settings` and `AgentSession` the assumptions say that `None` is
none of the values it stands beside.

What is stated with filtered lists is defined with one recursive function, `Without` in `AgentSession`, for which
`WithoutSteps` gives the equation; the provers have no facts about `SelectSeq`.

Only model-checked: all liveness properties, since the provers do not handle fairness and `ENABLED`; and `CollectedIsRun` in
`Rpc`, which is stated with `SelectSeq` over the lines of a pipe.

## 6. Where code and words disagree

Two disagreements are runs (`findings` in `PROJECT.json`): `rpc_retry` and `tui_short`. The following
are corners that the passing runs leave out. Each is a scenario of `MC<module>_corner.cfg` (whose
header lists them; set the scenario and the property there, or use the cfg named), TLC violates
the property in it, and each is a state the code really reaches. Where a comment or a doc says otherwise, it
is quoted.

| module, scenario | property | where | what happens |
|---|---|---|---|
| `FileMutationQueue`, `MCFileMutationQueue_new_file.cfg` | `SameFileSerialized` | `file-mutation-queue.ts:22` | a path through a link to a file that does not exist is its own key; when the file exists the same path has another key, and two mutations of it overlap ("Serialize file mutation operations targeting the same file.", `:29`) |
| `SessionManager`, Glued | `SavedSurvives` | SM:934 | the next entry is written behind a torn last line: the two make one malformed line, and it is skipped ("All history preserved in a single file.", `packages/coding-agent/README.md:250`) |
| LabelFork | `ForkKeepsContext`, `NothingForgotten` | SM:1301 | a compaction may keep from a label; forks drop labels, and the kept messages are in no context ("The new session keeps the full active-path history", `packages/coding-agent/README.md:260`) |
| LabelForkTools | `NoOrphanResult` | SM:1301 | in such a fork a call that the compaction kept is in no context, and its result, which comes after the compaction, is sent alone |
| Hole | `FileWellFormed` | SM:941 | the entry is in memory before a write that throws; later entries name a parent the file lacks ("A well-formed session has exactly one root", SM:1190) |
| HoleCompacted | `NothingForgotten` | SM:941 | in the same way the entry that a compaction keeps from is not in the file: after a restart the compaction is a root, and its summary is about messages that are not on its branch |
| HoleForked | `ForkAfterFailure` | `agent-session-runtime.ts:343` | in the same way a fork, which opens the file, lacks what the branch in memory sends ("The new session keeps the full active-path history", `packages/coding-agent/README.md:260`) |
| SplitAgain | `SummaryHandedOn` | `compaction.ts:779` | the cut splits the first turn that the previous compaction kept: there is nothing to summarize but the beginning of that turn, `compact()` writes "No prior history." and drops the previous summary ("passing the previous summary as iterative context when present", `packages/coding-agent/docs/compaction.md:43`) |
| SettingBefore | `SummaryHandedOn` | `compaction.ts:779` | in the same way where only settings are between the first kept entry and that turn |
| HoleTools | `NoOrphanResult` | SM:941 | in the same way a call is not in the file, and its result is ("Never cut at tool results (they must follow their tool call)", `compaction.ts:295`) |
| Wedged | `FirstFlushPossible` | SM:924 | a first flush that fails half way leaves the file, and `wx` makes every later append throw |
| `AgentSession`, Idle | `NoHiddenRun` | AS:1160 | a prompt compacts first; messages are queued; the agent continues outside `_runAgentPrompt`, while the session counts as idle ("Whether the session has no active agent run, retry, auto-compaction, or queued continuation.", AS:832) |
| Length | `ContinueAccepted` | AS:2136 | an overflow reported as a `length` stop is compacted and to be retried, but only a reply with stop reason `error` is removed: `continue()` throws ("remove error message from agent state, compact, auto-retry", AS:1899) |
| Retried | `ContinueAccepted` | AS:2134 | an error that was retried is back in the rebuilt context; only the last of the failed replies is removed |
| Cancel | `RetriesBounded` | AS:1062 | the delay of a retry is aborted with a follow-up queued: the failed reply was already removed, and the cancelled request is sent again ("cancel the delay and stop retrying", `docs/rpc.md:415`) |
| BashRetry | `RetriesBounded` | AS:1160 | in a run that a prompt continues before it is active, a shell result is appended at once, between a failed reply and its saving: the transcript no longer ends with that reply, and the session, its retries used up, goes on for a queued follow-up with the same request |
| CustomRetry | `RetriesBounded` | AS:1414 | in the same way with a custom message |
| CompactRetry | `RetriesBounded` | AS:1746 | `compact()` unsubscribes while a prompt starts: the new user message is not in the session, and its failure follows the failure before it with nothing between |
| Clear | `NothingLost` | AS:1472 | `clearQueue()` gives back a text that was drained and is delivered too ("Clear all queued messages and return them.", AS:1467) |
| CompactMeetsRun | `NothingLost` | AS:1746 | `compact()` unsubscribes before it aborts: a message that the run still delivers is in no entry ("Session persistence is handled internally (saves messages on message_end).", AS:749) |
| Orphan | `PairsTogether` | AS:1746 | in the same way a call is saved and its result is not |
| BashMeetsRun | `PairsTogether`, `TranscriptIsContext` | AS:1160 | in a run that a prompt continues before it is active, a shell result or a custom message is appended at once, between a call and its result ("If agent is streaming, defer adding to avoid breaking tool_use/tool_result ordering", AS:2724) |
| Texts | `ShownIsPending` | AS:527 | two messages with the same text: the display of the wrong one is removed ("Removed when delivered.", AS:297) |
| Race | `NothingLost` | AS:1187 | two prompts find the session idle; the second takes the messages for the next turn and throws |
| RaceBash | `PairsTogether` | AS:1030 | the losing prompt's `finally` marks the session idle under the run of the other: a shell result is appended between call and result |
| `Agent`, FewCalls | `ListenersSettledWhenIdle` | L:543 | a throwing listener makes the batch's `Promise.all` reject while other listeners are awaited; the comment of `waitForIdle` promises that "all awaited event listeners have finished" |
| NoCalls | `StreamingWhileActive` | A:316 | `reset()` during a run sets `isStreaming` to false; `types.ts:341` says "True while the agent is processing a prompt or continuation." |
| `AgentHarness`, OverlapScenarios | `InOnePlace` | AH:488 | a listener of `agent_end` starts the next run; both runs flush the same pending write, append it twice and shift another out |
| TakenScenarios | `NothingEverLost` | AH:563 | messages for the next turn are taken, and a hook of `before_agent_start` throws (AH:572): they are in no queue and no session ("Messages queued with `nextTurn()` survive abort and are inserted before the user message on the next user-initiated turn.", `packages/agent/docs/agent-harness.md:202`) |
| DrainedScenarios | `NothingEverLost` | AH:594 | a run fails at a later await with messages it has drained |
| CompactScenarios | `IdleNothingPending` | AH:761 | writes requested during a compaction stay pending when it is over ("Pending session writes are always persisted. They are flushed at save points, at operation settlement, and in failure cleanup.", `packages/agent/docs/agent-harness.md:88`) |
| `Credentials`, FirstScenarios | `UpdatesKept` | AU:61 | a process sees no file and writes an empty one over what another has just stored |
| StallScenarios | `SentOnce`, `UpdatesKept`, `TagsRight` | AU:123 | a process that is suspended under the lock loses it: the token is sent twice, or the write of one is undone by the other before its timer tells it, or falls between a read and the `stat` that tags it |
| SlowScenarios | `SentOnce`, `UpdatesKept`, `TagsRight` | AU:73 | the same without a suspension: a process that begins a session takes the lock over after 10 seconds of a refresh, whose owner touches it every 15, and releases it for the next ("re-check expiry under the lock, refresh once globally", `packages/ai/src/auth/resolve.ts:99`) |
| TornScenarios | `UpdatesKept` | AU:148 | a process dies between the truncation of `writeFileSync` and its write: the empty file is read as `{}` (AU:221), and all credentials are gone |
| `Settings`, FirstScenarios | `OthersKept` | ST:225 | two processes that saw no file each write one; the first is overwritten |
| ReloadScenarios | `SetIsKept` | ST:471 | a setter between the call of `reload()` and its run: memory is replaced by the file before the write, and shows the old value from then on |
| `TuiRender`, UnseenScenarios | `ScreenIsViewport` | T:1715 | the cursor marker is in a line above the screen: the cursor cannot go there, and later moves are relative to where it is not |
| BounceScenarios | `ScreenIsViewport` | T:1258 | the size changes and is back before the render: nothing is repainted on a screen that the terminal has rearranged |
| StuckScenarios | `RequestedIsComing` | T:747 | `stop()` clears the timer of a requested render; after `start()` every request finds `renderRequested` set and relies on it |
| HistoryScenarios | `HistoryInStep` | T:1485 | a frame shrank and then changed above the screen: the window is written again from a lower top, and a line that has scrolled into the history is on the screen too ("without desyncing history", `packages/tui/README.md:603`) |
| `Rpc`, SettleScenarios | `CallsEnd` | RC:458 | `promptAndWait()` returns at `agent_end`; the next prompt is refused while the session finishes, and `prompt()` does not look at `success: false`: it waits for events that never come |
| RefusedScenarios | `CallsEnd` | RC:472 | in the same way, when the checks of a prompt fail |
| ChunkScenarios | `CallsEnd` | RC:430 | `prompt()` and then `waitForIdle()`: the response and the `agent_end` come in one chunk, before anybody listens |
| RaceScenarios | `CollectedIsRun` | RM:424 | of two prompts at once both are answered with success; the second is dropped when it throws after that, and the one whose collector is first in the array returns the events of the other's run |
| RaceScenarios | `CallsEnd` | RC:495 | the collector that hears `agent_end` removes itself from the array that is iterated, the one behind it is passed over, and its `promptAndWait()` waits forever |
| LateScenarios | `NoStrayResponse` | RC:482 | a response after the timeout of its request is given to the event listeners |
| UnhandledScenarios | `NoneUnhandled` | RC:472 | `promptAndWait()` throws before it awaits its collector, whose rejection nobody handles |
| StartScenarios | `CallsEnd` | RM:397 | a dialog without timeout in a handler of `session_start`: stdin is read only when the handler has returned |
| ThrowScenarios | `CallsEnd` | `agent-session-runtime.ts:167` | the creation of the new session throws: the old one is disposed of and nobody listens to it, and it accepts the next prompt |

## 7. Not modelled

- `navigateTree`, model and thinking level changes of AgentSession: the first needs the tree of
  SessionManager in AgentSession, whose product with the queues is beyond TLC at bounds that
  mean something; the harness's `navigateTree` is modelled.
- The interactive mode, the editor and the other components of the terminal UI, and key
  decoding: functions from keys and texts to texts, over interfaces whose concurrent use
  the modules of section 2 model.
- Providers and their wire formats, overflow and retry classification: translations, which appear here as the kinds
  of replies a request may have.
- Extensions' handlers are steps that may be delayed, throw, or call back, where the code awaits them; their loader
  and registry are not modelled. Neither are the package manager, resources, skills, trust, themes, exports, the
  command line and the examples: they read and write files at start and keep nothing that others change.
- The event stream and the model runtime's coalesced refresh: queues of one producer, one consumer
  and no await in between.
- Torn lines in a harness session's file (`jsonl-storage.ts:92` refuses to open it), its labels and forks.

These parts are most of the repository's lines, and translating them would be writing them again: what the
project covers is the part whose steps interleave, fail half way, or share state.

## 8. Plan

Done, in this order: `Agent`, `FileMutationQueue` with `FileLock`, `SessionTree`,
`SessionManager`, `AgentSession`; proofs about the first two; `AgentHarness` with `HarnessSession`,
`Credentials`, `Settings`, `TuiRender` with `Terminal`, `Rpc`.

Proved since: all safety properties that a passing run checks, but the one of `Rpc`.

Next, proving: `CollectedIsRun` of `Rpc`, with its lists of events defined by a recursive function as those of `AgentSession` are.

## 9. Running

```
tlc -workers 2 -config MCAgent_agent.cfg MCAgent
tlapm AgentProofs.tla
```
