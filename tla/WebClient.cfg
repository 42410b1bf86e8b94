SPECIFICATION Spec
CONSTANTS
    Target = {x1, x2}
    NoTarget = none
    MaxCalls = 2
    MaxHandlers = 2
    MaxTimers = 2
    MaxLogouts = 1
INVARIANTS OneAutomaticAttempt SuccessWasEarned OneSubmissionAtATime
PROPERTIES BusyEnds
CHECK_DEADLOCK FALSE
