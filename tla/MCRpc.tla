-------------------------------- MODULE MCRpc --------------------------------
EXTENDS Rpc

AScenario(kinds, n) ==
    [kinds |-> kinds, calls |-> n, awaits |-> TRUE, settles |-> TRUE, startup |-> FALSE, expires |-> FALSE,
     dialogs |-> 0, refusals |-> 0, retries |-> 0, crashes |-> 0, stops |-> 0, timeouts |-> 0]

\* Prompts that are awaited, with dialogs, aborts, replaced sessions, a process that
\* dies or is stopped; calls that nobody waits for, with all that may go wrong.
RpcScenarios ==
    {[AScenario({"promptAndWait", "state", "abort"}, 3) EXCEPT !.dialogs = 1],
     [AScenario({"promptAndWait", "new_session"}, 3) EXCEPT !.dialogs = 1],
     [AScenario({"promptAndWait", "abort"}, 2) EXCEPT !.startup = TRUE, !.expires = TRUE, !.dialogs = 2],
     [AScenario({"promptAndWait", "state"}, 2) EXCEPT !.crashes = 1],
     [AScenario({"promptAndWait"}, 1) EXCEPT !.crashes = 1, !.timeouts = 1],
     [AScenario({"prompt", "state"}, 2) EXCEPT !.stops = 1, !.timeouts = 1],
     [AScenario({"prompt", "new_session", "state"}, 3) EXCEPT !.awaits = FALSE, !.settles = FALSE,
                    !.refusals = 1, !.retries = 1]}

\* What is missed, and by whom.
LateScenarios == {[AScenario({"promptAndWait", "state"}, 2) EXCEPT !.timeouts = 1]}
RetryScenarios == {[AScenario({"promptAndWait"}, 1) EXCEPT !.retries = 1]}
SettleScenarios == {[AScenario({"promptAndWait"}, 2) EXCEPT !.settles = FALSE]}
RefusedScenarios == {[AScenario({"promptAndWait"}, 1) EXCEPT !.refusals = 1]}
ChunkScenarios == {AScenario({"promptThenWait"}, 1)}
RaceScenarios == {[AScenario({"promptAndWait"}, 2) EXCEPT !.awaits = FALSE]}
ThrowScenarios == {[AScenario({"promptAndWait", "new_session"}, 2) EXCEPT !.refusals = 1]}
StartScenarios == {[AScenario({"state"}, 1) EXCEPT !.startup = TRUE, !.dialogs = 1]}
UnhandledScenarios == {[AScenario({"promptAndWait"}, 1) EXCEPT !.crashes = 1, !.timeouts = 1]}
=============================================================================
