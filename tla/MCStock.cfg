\* Requests end for good, so the system may stop.
CHECK_DEADLOCK FALSE
CONSTANTS
    shop = shop
    tea = tea
    cup = cup
    Business = {shop}
    Product = {tea, cup}
    SaleRequest = {s1, s2}
    PurchaseRequest = {p1}
    MoveRequest = {m1, m2}
    SaleBody <- Sold
    PurchaseBody <- Bought
    SaleReturnCart <- Back
    PurchaseReturnCart <- Back
    TransferBody <- Moved
    EntryBody <- Entered
    StockTracked = {tea}
    DocFaults = 0
    MoveFaults = 1
SPECIFICATION StockSpec
SYMMETRY Symmetry
INVARIANTS
    StockReconciles
    HalfTransferExplained
