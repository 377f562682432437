CONSTANTS
    MaxIterations = 2
    HookChoices <- LlmHooks
    CallLists <- TwoCalls
    Notifications = {}
    MaxTurns = 2
    MaxMessages = 2
    MaxFollowUp = 1
    MaxCompactions = 1
    c1 = c1
    c2 = c2
    n1 = n1
    n2 = n2
SPECIFICATION FairSpec
INVARIANTS
    CompletionIdsNeverReused
    SteeringKeptInOrder
    ToolCallsAnswered
PROPERTIES
    TurnsEnd
    SteeringDelivered
    CompactionsEnd
CHECK_DEADLOCK FALSE
