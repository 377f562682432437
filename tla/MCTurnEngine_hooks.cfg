CONSTANTS
    MaxIterations = 2
    HookChoices <- AllOrNoHooks
    CallLists <- OneCall
    Notifications = {n1}
    MaxTurns = 2
    MaxMessages = 2
    MaxFollowUp = 2
    MaxCompactions = 1
    c1 = c1
    c2 = c2
    n1 = n1
    n2 = n2
SPECIFICATION Spec
INVARIANTS
    IterationBudget
    Checkpointable
    ReadyNoticesNotSkipped
    NotificationsOnce
PROPERTIES
    ContextFrozenInFlight
    FollowUpHandoff
    LifecycleRefined
    AnswersAdvance
CHECK_DEADLOCK FALSE
