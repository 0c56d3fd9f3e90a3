\* Requests end for good, so the system may stop.
CHECK_DEADLOCK FALSE
CONSTANTS
    sale = sale
    petty = petty
    purchase = purchase
    Document = {sale, petty, purchase}
    Total <- Totals
    UpFront <- PaidThen
    Sent <- OneSent
    Body = {}
    Selection <- Ticked
    Patch = {}
    Request = {r1}
    MaxFaults = 0
SPECIFICATION Spec
INVARIANT FullPaymentSettles
