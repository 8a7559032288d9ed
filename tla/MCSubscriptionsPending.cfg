SPECIFICATION SubFairSpec
CONSTANTS
    cafe = cafe  diner = diner  i1 = i1  i2 = i2  i3 = i3
    q1 = q1  q2 = q2  q3 = q3  q4 = q4
    Businesses = {cafe, diner}
    Ids = {i1, i2, i3}
    FirstRow <- FirstRowsOfBoth
    Plans <- ThreePlans
    Free = 10
    TrialPlans <- BasicTrial
    Requests = {q1, q2, q3, q4}
    Asks <- TwoOwnersAsk
    NoRow = NoRow
    NoPlan = NoPlan
    NoAsk = NoAsk
    MaxEnds = 2
    Tries = 1
    MaxDeaths = 0
PROPERTIES
    PendingPlanApplied
CHECK_DEADLOCK FALSE
