\* Requests end for good, so the system may stop.
CHECK_DEADLOCK FALSE
CONSTANTS
    shop = shop
    mall = mall
    tea = tea
    cup = cup
    Business = {shop, mall}
    Product = {tea, cup}
    Request = {r1, r2, r3}
    CreateBody <- Bodies
    ReturnCart <- ReturnCarts
    StatusPatch = {"received"}
    ReturnType = "purchase_return"
    Series = {"PO", "PRR"}
    MaxFaults = 1
SPECIFICATION Spec
SYMMETRY Symmetry
INVARIANTS
    EntriesBacked
    MissingRowsExplained
    ReferenceClashExplained
PROPERTY NumbersIssuedOnce
