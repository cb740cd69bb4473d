\* The bounds on time, leases and versions let the instance run out of steps.
CHECK_DEADLOCK FALSE
SPECIFICATION Spec
CONSTANTS
    Fanout = {}
    Step = {1}
    NoStep = 0
    Worker = {w1, w2}
    Client = {}
    Operator = {o1}
    Policy = {"allow", "ask", "deny"}
    Strategy <- OneRetry
    StepMaxRetries <- NoStepLimit
    MaxRetriesPerStep = 1
    LeaseTTL = 1
    MaxTotalRuntime = 0
    Transactional = TRUE
    MaxTime = 2
    MaxLease = 2
    MaxApproval = 2
    MaxVersion = 7
INVARIANTS TypeOK TerminalAgreement ApprovalAgreement
PROPERTIES TerminalIsFinal
SYMMETRY Symmetry
