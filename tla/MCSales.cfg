\* Requests end for good, so the system may stop.
CHECK_DEADLOCK FALSE
CONSTANTS
    shop = shop
    tea = tea
    cup = cup
    Business = {shop}
    Product = {tea, cup}
    Request = {r1, r2, r3, r4}
    CreateBody <- Bodies
    ReturnCart <- ReturnCarts
    StatusPatch = {"draft"}
    ReturnType = "sale_return"
    Series = {"SALE", "RET"}
    MaxFaults = 1
SPECIFICATION Spec
SYMMETRY Symmetry
INVARIANTS
    TypeOK
    EntriesBacked
    MissingRowsExplained
    InvoiceClashNeedsOverlap
    ReturnClashExplained
PROPERTY NumbersIssuedOnce
