\* Two callers and a worker; a record write may fail once.
CONSTANTS
    Step = {}
    NoStep = NoStep
    Caller = {c1, c2}
    Worker = {w1}
    Runtime = {r1, r2}
    NoRuntime = NoRuntime
    MaxVersion = 5
    MaxLease = 1
    MaxFaults = 1
SPECIFICATION Spec
SYMMETRY Interchangeable
INVARIANTS TypeOK BlockedIsListed ResolvedOnce
