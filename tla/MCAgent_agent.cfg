SPECIFICATION FairSpec
CONSTANTS
    QueueModes = {"all", "one-at-a-time"}
    BatchModes = {"sequential", "parallel"}
    MaxPerMessage = 2
    Budgets <- BatchesOrQueues
INVARIANTS TypeOK ContextIsTranscript ReportIsTail AnsweredInOrder ToolsAccountedFor QueuedDelivered
PROPERTIES OneSteerPerRequest RunSettles
