\* The corners that the passing run leaves out: a scenario and the property that
\* TLC violates in it; the first is set below.
\*   FewCalls  ListenersSettledWhenIdle
\*   NoCalls   StreamingWhileActive
SPECIFICATION Spec
CONSTANTS
    QueueModes = {"one-at-a-time"}
    BatchModes = {"parallel"}
    MaxPerMessage = 2
    Budgets <- FewCalls
INVARIANT ListenersSettledWhenIdle
