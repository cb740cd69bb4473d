\* A worker in a run and a caller that blocks its session.
CONSTANTS
    Step = {}
    NoStep = NoStep
    Caller = {c1}
    Worker = {w1}
    Runtime = {r1}
    NoRuntime = NoRuntime
    MaxVersion = 6
    MaxLease = 1
    MaxFaults = 0
SPECIFICATION Spec
PROPERTIES NonRunnableUntilResolved
