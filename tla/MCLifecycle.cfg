SPECIFICATION LifecycleFairSpec
CONSTANTS
    r1 = r1  r2 = r2
    Rows = {r1, r2}
    Start <- Starts
    End <- Ends
    ExpiresAt <- Holds
    Cancels = {c1}
    Sweeps = {w1, w2}
    BatchLimit = 2
    MayClose = {r1}
    Early = 1
    Grace = 0
    Deadline = 0
    CustomerCanCancel = TRUE
    BusinessCanCancel = TRUE
    NoRow = NoRow
    MaxTime = 1
INVARIANTS
    LifecycleTypeOK
    HistoryExplainsStatus
    SessionFollowsGuest
PROPERTIES
    TableOrCancelled
    OrphanSessionNeverCloses
    OverduePendingLeaves
CHECK_DEADLOCK FALSE
