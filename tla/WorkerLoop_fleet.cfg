\* Two workers on one session; two faults of any kind.
SPECIFICATION Spec
CONSTANTS
    Step = {1}
    NoStep = 0
    Session = {1}
    Worker = {1, 2}
    LeaseTTL = 2
    RenewInterval = 1
    IdleWait = 1
    MaxIdleWait = 1
    ErrorWait = 1
    MaxErrorWait = 2
    BackoffFactor = 2
    Durable = TRUE
    MaxSteps = 2
    MaxFaults = 2
INVARIANTS TypeOK ExclusiveRuns LeaseReturned NoRunAfterContextEnds
PROPERTIES EverySessionFinishes JoinReturns StopsWhenTold
