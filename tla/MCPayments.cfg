\* Requests end for good, so the system may stop.
CHECK_DEADLOCK FALSE
CONSTANTS
    sale = sale
    petty = petty
    purchase = purchase
    Document = {sale, petty, purchase}
    Total <- Totals
    UpFront <- PaidThen
    Sent <- AsSent
    Body <- Single
    Selection <- Ticked
    Patch <- Patches
    Request = {r1, r2, r3}
    MaxFaults = 1
SPECIFICATION Spec
SYMMETRY Symmetry
INVARIANTS
    DriftExplained
    StatusAgrees
