\* The bounds on versions, leases and output let the instance run out of steps.
CHECK_DEADLOCK FALSE
SPECIFICATION Spec
CONSTANTS
    Step = {}
    NoStep = 0
    Pty = {p1, p2}
    Attachment = {a1}
    Ends = {{"input"}, {"input", "output"}}
    Check = {v1}
    MaxOutput = 2
    DefaultReadBytes = 1
    Needle = 2
    Client = {c1, c2}
    Handle = {h1}
    Postgres = TRUE
    MaxHandleVersion = 2
    MaxLease = 1
    MaxCalls = 2
    MaxRuns = 1
SYMMETRY Interchangeable
INVARIANTS AttachedOutputInOrder VerdictsMatchTheProcess NoOrphanRuntime
PROPERTIES EndedHandlesStay
