SPECIFICATION NotifyFairSpec
CONSTANTS
    l1 = l1  l2 = l2  e1 = e1  e2 = e2
    Listeners = {l1, l2}
    Evaluators = {e1, e2}
    Key <- EventAndMatch
    Copies = {c1, c2}
    Settings <- OneKey
    Tries = 3
    MaxFaults = 2
INVARIANTS
    NotifyTypeOK
    OneNotificationPerKey
    AlertKeepsItsNotification
    SendsExplained
PROPERTIES
    UndeliveredStays
    DeliverySettles
CHECK_DEADLOCK FALSE
