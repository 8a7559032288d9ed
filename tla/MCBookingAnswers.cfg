SPECIFICATION BookingFairSpec
CONSTANTS
    q1 = q1  q2 = q2  q3 = q3
    anna = anna  boris = boris  court = court  hall = hall  k1 = k1
    Requests = {q1, q2, q3}
    Nobody = Nobody
    NoAsk = NoAsk
    NoKey = NoKey
    NoLimit = NoLimit
    Inherit = Inherit
    Resources = {court, hall}
    Asks <- LimitKeyAsks
    Policies <- BothLimitPolicies
    ResourceSettings <- PlainResource
    Visibilities = {TRUE}
    OpenHours = {1, 2, 3}
    DayLength = 5
    MaxTime = 1
INVARIANTS
    SameKeySameReservation
    LimitsHoldPerResource
PROPERTIES
    EveryRequestAnswered
CHECK_DEADLOCK FALSE
