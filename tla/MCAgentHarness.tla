--------------------------- MODULE MCAgentHarness ---------------------------
EXTENDS AgentHarness

AScenario(ways, n, t, e) ==
    [ways |-> ways, modes |-> {"all"}, runs |-> 1, calls |-> n, turns |-> t, throws |-> e,
     awaits |-> TRUE]
BothModes(s) == [s EXCEPT !.modes = {"all", "one-at-a-time"}]
Overlapping(s) == [s EXCEPT !.runs = 2, !.awaits = FALSE]

\* Messages around runs; writes around runs; the tree between runs; listeners
\* of agent_end and settled that start the next run.
HarnessScenarios ==
    {BothModes(AScenario({"steer", "followUp", "abort"}, 3, 0, 1)),
     BothModes(AScenario({"steer", "followUp"}, 4, 0, 0)),
     AScenario({"nextTurn", "abort"}, 3, 1, 1),
     AScenario({"write", "abort"}, 3, 1, 1),
     AScenario({"navigate", "write"}, 4, 0, 0),
     AScenario({"compact", "navigate"}, 3, 1, 1),
     Overlapping(AScenario({"steer"}, 3, 0, 0))}

\* Writes that are requested during a compaction.
CompactScenarios == {AScenario({"compact", "write"}, 3, 0, 0)}

\* A hook that throws after the messages for the next turn were taken; a run
\* that fails with messages it has drained.
TakenScenarios == {AScenario({"nextTurn"}, 2, 0, 1)}
DrainedScenarios == {AScenario({"steer"}, 2, 0, 1)}

\* Two runs that flush the same pending write.
OverlapScenarios == {Overlapping(AScenario({"write"}, 3, 0, 1))}
=============================================================================
