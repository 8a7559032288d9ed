SPECIFICATION SubFairSpec
CONSTANTS
    cafe = cafe  diner = diner  i1 = i1  i2 = i2  i3 = i3
    q1 = q1  q2 = q2  q3 = q3  q4 = q4
    Businesses = {cafe}
    Ids = {i1, i2, i3}
    FirstRow <- FirstRows
    Plans <- ThreePlans
    Free = 10
    TrialPlans <- BasicTrial
    Requests = {q1, q2, q3}
    Asks <- CafeAsks
    NoRow = NoRow
    NoPlan = NoPlan
    NoAsk = NoAsk
    MaxEnds = 2
    Tries = 2
    MaxDeaths = 1
INVARIANTS
    SubTypeOK
    OneEffective
PROPERTIES
    EndedForGood
    PaymentTakesEffectOnce
    CancellationsHappen
CHECK_DEADLOCK FALSE
