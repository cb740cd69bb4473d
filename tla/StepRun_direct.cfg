\* The bounds on time, leases and versions let the instance run out of steps.
CHECK_DEADLOCK FALSE
SPECIFICATION Spec
CONSTANTS
    Fanout = {}
    Step = {1}
    NoStep = 0
    Worker = {}
    Client = {c1, c2}
    Operator = {o1}
    Policy = {"allow", "ask", "deny"}
    Strategy <- OneRetry
    StepMaxRetries <- NoStepLimit
    MaxRetriesPerStep = 1
    LeaseTTL = 1
    MaxTotalRuntime = 0
    Transactional = FALSE
    MaxTime = 1
    MaxLease = 2
    MaxApproval = 1
    MaxVersion = 4
INVARIANTS OnceRecordedOnce RejectedNeverRuns
SYMMETRY Symmetry
