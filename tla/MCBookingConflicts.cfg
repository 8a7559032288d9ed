SPECIFICATION BookingSpec
CONSTANTS
    q1 = q1  q2 = q2  q3 = q3
    anna = anna  boris = boris  court = court  hall = hall  k1 = k1
    Requests = {q1, q2, q3}
    Nobody = Nobody
    NoAsk = NoAsk
    NoKey = NoKey
    NoLimit = NoLimit
    Inherit = Inherit
    Resources = {court}
    Asks <- ConflictAsks
    Policies <- BufferPolicies
    ResourceSettings <- ManagedResource
    Visibilities = {TRUE, FALSE}
    OpenHours = {2, 3, 4}
    DayLength = 5
    MaxTime = 0
SYMMETRY RequestSymmetry
INVARIANTS
    NoSharedInstant
    CheckedIsClear
    BookingInv
PROPERTIES
    InsertOnlyBookable
    ImplementsCalendar
CHECK_DEADLOCK FALSE
