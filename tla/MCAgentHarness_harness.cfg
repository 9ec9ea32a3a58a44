SPECIFICATION Spec
CONSTANTS
    Runs = {1, 2}
    Writers = {w1}
    Scenarios <- HarnessScenarios
    None = None
INVARIANTS InOnePlace RequestIsBranch PhaseTruth
PROPERTIES PromptReturns
CHECK_DEADLOCK FALSE
