SPECIFICATION Spec
CONSTANT Scenarios <- Sessions
INVARIANTS SavedSurvives FileIsMemory ForkKeepsContext NothingForgotten NoOrphanResult
CHECK_DEADLOCK FALSE
