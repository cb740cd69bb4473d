\* A session that is over stays as it is.
CHECK_DEADLOCK FALSE
SPECIFICATION Spec
CONSTANTS
    Step = {1, 2, 3}
    NoStep = 0
    Fanout = {2, 3}
    Strategy <- ReplanThenGroup
    StepMaxRetries <- NoStepLimit
    MaxRetriesPerStep = 1
    Client = {c1}
    AggregateScope = TRUE
    MaxConcurrency = 2
    Backoff = {3}
    Policy = {"allow", "deny"}
    MaxPlanRevisions = 2
    FreshIds = FALSE
    MaxPlans = 2
    MaxCrashes = 1
INVARIANTS TypeOK CompletePlan AggregateJudged ToolCallsBounded RevisionsDense NoDeadEnd TurnsProgress
