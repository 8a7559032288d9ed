SPECIFICATION BookingSpec
CONSTANTS
    q1 = q1  q2 = q2  q3 = q3
    anna = anna  boris = boris  court = court  hall = hall  k1 = k1
    Requests = {q1, q2}
    Nobody = Nobody
    NoAsk = NoAsk
    NoKey = NoKey
    NoLimit = NoLimit
    Inherit = Inherit
    Resources = {court, hall}
    Asks <- LimitAsks
    Policies <- ActiveLimitPolicies
    ResourceSettings <- PlainResource
    Visibilities = {TRUE}
    OpenHours = {2, 3, 4}
    DayLength = 5
    MaxTime = 1
INVARIANTS
    ActiveFutureLimit
CHECK_DEADLOCK FALSE
