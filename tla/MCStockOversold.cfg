\* Requests end for good, so the system may stop.
CHECK_DEADLOCK FALSE
CONSTANTS
    shop = shop
    tea = tea
    cup = cup
    Business = {shop}
    Product = {tea, cup}
    SaleRequest = {s1, s2}
    PurchaseRequest = {p1}
    MoveRequest = {m1}
    SaleBody <- Sold
    PurchaseBody <- Bought
    SaleReturnCart <- Back
    PurchaseReturnCart = {}
    TransferBody = {}
    EntryBody <- Entered
    StockTracked = {tea}
    DocFaults = 0
    MoveFaults = 0
SPECIFICATION StockSpec
INVARIANT NeverOversold
