-------------------------------- MODULE Stock --------------------------------
(***************************************************************************)
(* The whole of stock keeping: sales, purchases, and the moves made by     *)
(* hand, side by side in one API process over one ledger.                  *)
(***************************************************************************)
EXTENDS Integers, FiniteSets, Functions

CONSTANTS Business, Product, SaleRequest, PurchaseRequest, MoveRequest,
          SaleBody, PurchaseBody, TransferBody, EntryBody, StockTracked,
          SaleReturnCart, PurchaseReturnCart,
          DocFaults, MoveFaults  \* bounds on refused statements

VARIABLES ledger,
          sales, lastSale, sPc, sArg, sNumber, sMine, sTodo, sReadAt, sFaults,
          purchases, lastPurchase, pPc, pArg, pNumber, pMine, pTodo, pReadAt, pFaults,
          transfers, lastTransfer, removed, mPc, mArg, mMine, mTodo, mFaults

saleVars == <<sales, lastSale, sPc, sArg, sNumber, sMine, sTodo, sReadAt, sFaults>>
purchaseVars ==
    <<purchases, lastPurchase, pPc, pArg, pNumber, pMine, pTodo, pReadAt, pFaults>>
moveVars == <<transfers, lastTransfer, removed, mPc, mArg, mMine, mTodo, mFaults>>
stockVars == <<ledger, saleVars, purchaseVars, moveVars>>

ASSUME RequestsAssumption == /\ SaleRequest \cap PurchaseRequest = {}
                             /\ SaleRequest \cap MoveRequest = {}
                             /\ PurchaseRequest \cap MoveRequest = {}

S == INSTANCE Sales WITH
        Request <- SaleRequest, CreateBody <- SaleBody, ReturnCart <- SaleReturnCart,
        StatusPatch <- {"draft"}, ReturnType <- "sale_return", Series <- {"SALE", "RET"},
        MaxFaults <- DocFaults,
        docs <- sales, lastId <- lastSale, pc <- sPc, arg <- sArg, number <- sNumber,
        mine <- sMine, todo <- sTodo, readAt <- sReadAt, faults <- sFaults
P == INSTANCE Purchases WITH
        Request <- PurchaseRequest, CreateBody <- PurchaseBody,
        ReturnCart <- PurchaseReturnCart, StatusPatch <- {"received"},
        ReturnType <- "purchase_return", Series <- {"PO", "PRR"}, MaxFaults <- DocFaults,
        docs <- purchases, lastId <- lastPurchase, pc <- pPc, arg <- pArg,
        number <- pNumber, mine <- pMine, todo <- pTodo, readAt <- pReadAt,
        faults <- pFaults
M == INSTANCE StockMoves WITH
        Request <- MoveRequest, MaxFaults <- MoveFaults, pc <- mPc, arg <- mArg,
        mine <- mMine, todo <- mTodo, faults <- mFaults

ASSUME MovesAssumption == M!TransferAssumption

\* What Sales and Purchases assume of their constants.
ASSUME BodiesAssumption ==
    /\ DocFaults \in Nat
    /\ SaleBody \subseteq S!Body /\ \A b \in SaleBody : b.no = S!NoNumber
    /\ PurchaseBody \subseteq P!Body
    /\ SaleReturnCart \subseteq S!Cart /\ PurchaseReturnCart \subseteq P!Cart

StockInit == S!Init /\ P!Init /\ M!Init

SaleStep == \E r \in SaleRequest : S!Step(r) /\ UNCHANGED <<purchaseVars, moveVars>>
PurchaseStep == \E r \in PurchaseRequest : P!Step(r) /\ UNCHANGED <<saleVars, moveVars>>
MoveStep == \E r \in MoveRequest : M!Step(r) /\ UNCHANGED <<saleVars, purchaseVars>>

Busy == \/ \E r \in SaleRequest : S!Active(r)
        \/ \E r \in PurchaseRequest : P!Active(r)
        \/ \E r \in MoveRequest : M!Active(r)

\* One process serves everything, so everything in flight dies with it.
CrashAll == Busy /\ S!Abandon /\ P!Abandon /\ M!Abandon /\ UNCHANGED ledger

StockNext == SaleStep \/ PurchaseStep \/ MoveStep \/ CrashAll

StockSpec == StockInit /\ [][StockNext]_stockVars
-----------------------------------------------------------------------------
(***************************************************************************)
(* Properties.                                                             *)
(***************************************************************************)
\* Every part's tables and requests are well typed.
StockTypeOK == S!TableOK /\ P!TableOK /\ M!MovesOK

Stock(b, p) == S!StockOf(b, p)

\* What the documents of D come to for a product, each signed by its kind.
LinesSum(d, p) ==
    SumFunction([l \in {i \in DOMAIN d.lines : d.lines[i].product = p} |-> d.lines[l].qty])
Booked(D, b, p, sign(_)) ==
    SumFunction([d \in {x \in D : x.biz = b} |-> sign(d) * LinesSum(d, p)])

ByHand(b, p) == {e \in ledger \cup removed : e.biz = b /\ e.product = p /\ e.doc = 0}
Removed(b, p) == {e \in removed : e.biz = b /\ e.product = p}
Quantity(rows) == SumFunction([e \in rows |-> e.qty])

\* No statement was refused and no crash happened after a document was saved.
NothingCutShort ==
    /\ \A r \in SaleRequest : sPc[r] \in {"error", "crashed"} => sMine[r] = 0
    /\ \A r \in PurchaseRequest : pPc[r] \in {"error", "crashed"} => pMine[r] = 0
    /\ \A r \in MoveRequest : mPc[r] \in {"error", "crashed"} => mMine[r] = 0

\* When nothing is in flight and nothing was cut short, the stock of a product
\* is what was entered by hand, plus what came with received purchases and sale
\* returns, minus what went with sales of any kind and purchase returns, minus
\* the rows deleted by hand. Transfers, conversions, status changes, soft
\* deletes and refused numbers leave it alone.
StockReconciles ==
    ~Busy /\ NothingCutShort =>
        \A b \in Business, p \in Product :
            Stock(b, p) = Quantity(ByHand(b, p)) - Quantity(Removed(b, p))
                          + Booked(sales, b, p, S!SaleEffect)
                          + Booked({d \in purchases : P!MovesStock(d)}, b, p, P!PurchaseEffect)

\* A transfer creates and destroys no stock (StockMoves).
HalfTransferExplained == M!HalfTransferExplained

\* "400 Insufficient stock": a sale is refused rather than driving the stock of
\* a product below zero. Stated of runs in which only sales lower stock.
NeverOversold == \A b \in Business, p \in Product : Stock(b, p) >= 0
=============================================================================
