\* The bounds on time, leases and versions let the instance run out of steps.
CHECK_DEADLOCK FALSE
SPECIFICATION Spec
CONSTANTS
    Step = {step}
    NoStep = NoStep
    Session = {1}
    Worker = {w1, w2}
    Client = {}
    Handle = {}
    LeaseTTL = 1
    MaxTotalRuntime = 1
    MaxAttempts = 4
    Durable = TRUE
    MaxDelay = 1
    MaxTime = 3
    MaxLease = 2
    MaxVersion = 4
INVARIANT CallerLeaseFencing
SYMMETRY Symmetry
