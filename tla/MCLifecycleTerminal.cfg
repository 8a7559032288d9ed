SPECIFICATION LifecycleSpec
CONSTANTS
    r1 = r1  r2 = r2
    Rows = {r1, r2}
    Start <- Starts
    End <- Ends
    ExpiresAt <- Holds
    Cancels = {c1}
    Sweeps = {w1}
    BatchLimit = 1
    MayClose = {}
    Early = 1
    Grace = 0
    Deadline = 0
    CustomerCanCancel = TRUE
    BusinessCanCancel = TRUE
    NoRow = NoRow
    MaxTime = 2
PROPERTIES
    TerminalIsFinal
CHECK_DEADLOCK FALSE
