\* A session whose plan is done stays as it is.
CHECK_DEADLOCK FALSE
SPECIFICATION Spec
CONSTANTS
    NoId = 0
    NoTarget = "no_target"
    NoView = "no_view"
    Resolved <- Discovered
    Planner = {"p1", "p2"}
    Version = {1, 2}
    Def = {"d1", "d2"}
    NoDef = "no_def"
    Workloads <- AllWorkloads
    PlannedSteps <- Steps
    MaxAttempts = 2
INVARIANTS CompiledInOrder NodesKept PinnedToolRuns PlanHasItsRecord SummariesFollow BoundToOwnRun
