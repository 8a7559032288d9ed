SPECIFICATION PaymentsSpec
CONSTANTS
    c1 = c1  c2 = c2  e1 = e1  e2 = e2  e3 = e3  e4 = e4  e5 = e5
    Rows = {r1}
    Creates = {c1, c2}
    Deliveries = {d1, d2, d3}
    Messages <- TwoPayments
    Nobody = Nobody
    NoMessage = NoMessage
PROPERTIES
    CancelledNotPayable
CHECK_DEADLOCK FALSE
