SPECIFICATION LoyaltyFairSpec
CONSTANTS
    anna = anna  boris = boris  r1 = r1  r2 = r2
    Customers = {anna, boris}
    Reservations = {r1, r2}
    Nobody = Nobody
    Guest <- GuestOfBoth
    Amount <- Amounts
    Paid <- PaidInPart
    Program <- OnePerTwo
    Referrer <- AnnaReferred
    ReferrerPoints = 2
    ReferredPoints = 1
    Managers = {m1}
    Adjustments = {}
    MaxGranted <- NoGrant
    Cost = 2
    Bonus = 1
    Stock = 0
    PerUser = 1
    Sweeps = {}
    Tries = 2
    MaxDeaths = 0
PROPERTIES
    FirstVisitRewards
CHECK_DEADLOCK FALSE
