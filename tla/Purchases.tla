------------------------------ MODULE Purchases ------------------------------
(***************************************************************************)
(* PurchasesService: purchases and requisitions, their conversion, their   *)
(* returns, and the stock rows they write. Unlike a sale, a purchase may   *)
(* bring its own reference number, and it moves stock only if it is        *)
(* created with status "received".                                         *)
(***************************************************************************)
EXTENDS DocumentTable

ASSUME PurchaseSeries == {"PO", "PRR"} \subseteq Series
ASSUME PurchaseReturnType == ReturnType = "purchase_return"
-----------------------------------------------------------------------------
\* create, first await: the reference number, unless the body brings one, in
\* which case the insert is the first await.
CreatePurchase(r) ==
    \E b \in CreateBody, n \in 0..lastId :
        /\ b.lines # <<>>
        /\ IsMaxId(b.biz, n)
        /\ Begin(r, [body |-> b, target |-> 0],
                 IF b.no # NoNumber THEN b.no ELSE [series |-> "PO", seq |-> n + 1],
                 "insert")

\* Mutant: an ordered purchase is put in stock as well.
InsertPurchaseInStock(r) ==
    /\ pc[r] = "insert"
    /\ InsertDoc(r, "settle", LinesOf(r))

\* create, second await. Only a purchase received at once gets stock rows.
InsertPurchase(r) ==
    /\ pc[r] = "insert"
    /\ InsertDoc(r, "settle", IF arg[r].body.status = "received" THEN LinesOf(r) ELSE {})

\* Mutant: only one of the lines is inserted.
PostOneLine(r) ==
    \E l \in todo[r] :
        /\ ledger' = ledger \cup {StockRow(r, l, "purchase_in", 1)}
        /\ todo' = [todo EXCEPT ![r] = {}]
        /\ UNCHANGED <<docs, lastId, pc, arg, number, mine, readAt, faults>>

PostPurchaseIn(r) == \E l \in todo[r] : PostLine(r, l, "purchase_in", 1)

CountPurchaseReturns(r) == CountReturns(r, "PRR")

\* Whether the original was ever received is not looked at.
TakeOutPurchaseReturn(r) == Restock(r, "adjustment_out", -1)

\* convertToOrder: live requisitions.
FindRequisition(r) ==
    \E d \in Live :
        /\ d.type = "requisition"
        /\ FindOne(r, d, "ordered", "convert")

ConvertToOrder(r) ==
    \E d \in docs :
        Overwrite(r, "convert", d, [d EXCEPT !.type = "purchase", !.status = "ordered"])

Step(r) ==
    \/ CreatePurchase(r)
    \/ InsertPurchase(r)
    \/ PostPurchaseIn(r)
    \/ CountPurchaseReturns(r)
    \/ TakeOutPurchaseReturn(r)
    \/ FindRequisition(r)
    \/ ConvertToOrder(r)
    \/ CommonStep(r)

Next == (\E r \in Request : Step(r)) \/ Crash

Spec == Init /\ [][Next]_vars
-----------------------------------------------------------------------------
(***************************************************************************)
(* Properties.                                                             *)
(***************************************************************************)
\* Stock arrives with a document made by create and leaves with a return.
PurchaseEffect(d) == IF d.returnOf = 0 THEN 1 ELSE -1

\* The documents that move stock: those created as received, and returns.
MovesStock(d) == d.returnOf # 0 \/ d.born.status = "received"

\* Every stock row of a request restates one line of the document that request
\* inserted, with its product, its tenant and its sign, no line has two rows,
\* and the document was received when it was created (or is a return). So
\* neither a later update to "received" nor an order made of a requisition adds
\* stock, and nothing adds it twice.
EntriesBacked ==
    \A e \in ledger :
        /\ \E d \in docs :
              /\ d.id = e.doc /\ e.doc = mine[e.by] /\ d.biz = e.biz
              /\ MovesStock(d)
              /\ e.line \in DOMAIN d.lines
              /\ e.product = d.lines[e.line].product
              /\ e.qty = PurchaseEffect(d) * d.lines[e.line].qty
        /\ \A f \in ledger : f.doc = e.doc /\ f.line = e.line => f = e

\* A document that moves stock and lacks the row of a line was made by a
\* request that is still at it, or that a refused statement or a crash cut
\* short: an answered request has moved all of its stock.
MissingRowsExplained ==
    \A d \in docs : MovesStock(d) => \A l \in DOMAIN d.lines :
        (\A e \in ledger : ~(e.doc = d.id /\ e.line = l)) =>
            \E r \in Request :
                /\ mine[r] = d.id
                /\ l \in todo[r] \/ pc[r] \in {"restock", "error", "crashed"}

\* A generated reference (MAX(id)+1, or COUNT+1 for a return) is refused by the
\* unique index only if a document was inserted after the number was read, or
\* if the document that has it got it from a user who typed it. The first goes
\* away when the client tries again, the second does not.
ReferenceClashExplained ==
    \A r \in Request : pc[r] \in {"insert", "insertReturn"} /\ arg[r].body.no = NoNumber =>
        \A d \in docs : d.biz = Tenant(r) /\ d.no = number[r] =>
            d.id > readAt[r] \/ d.born.no # NoNumber

\* The purchases table as the abstract number book.
Numbers == INSTANCE IssuedNumbers WITH
    issued <- {[id |-> d.id, biz |-> d.biz, no |-> d.no] : d \in docs}

\* Purchases implement the number book, typed references included: a reference
\* is given once, and neither it nor its document is ever withdrawn.
NumbersIssuedOnce == Numbers!Spec

\* "Automatically decrements the previously received stock": what a return
\* takes out was brought in by its original.
ReturnsWereReceived ==
    \A d \in docs : d.returnOf # 0 =>
        \A o \in docs : o.id = d.returnOf => MovesStock(o)
=============================================================================
