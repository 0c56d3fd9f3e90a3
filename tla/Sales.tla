-------------------------------- MODULE Sales --------------------------------
(***************************************************************************)
(* SalesService: sales, quotations and drafts, their conversion, their     *)
(* returns, and the stock rows they write. The POS terminal goes the same  *)
(* way: PosService.processTransaction is create with status "final".       *)
(***************************************************************************)
EXTENDS DocumentTable

ASSUME SaleSeries == {"SALE", "RET"} \subseteq Series
ASSUME SaleReturnType == ReturnType = "sale_return"
ASSUME SaleNumbersAreGenerated == \A b \in CreateBody : b.no = NoNumber
-----------------------------------------------------------------------------
\* create, first await: the invoice number. A body without lines is refused.
CreateSale(r) ==
    \E b \in CreateBody, n \in 0..lastId :
        /\ b.lines # <<>>
        /\ IsMaxId(b.biz, n)
        /\ Begin(r, [body |-> b, target |-> 0],
                 [series |-> "SALE", seq |-> n + 1], "insert")

\* Mutant: drafts hold no stock, and nobody thought of their conversion.
InsertSaleUnlessDraft(r) ==
    /\ pc[r] = "insert"
    /\ InsertDoc(r, "settle", IF arg[r].body.status = "draft" THEN {} ELSE LinesOf(r))

\* create, second await. Every line will be taken out of stock, whatever the
\* type and the status of the document.
InsertSale(r) ==
    /\ pc[r] = "insert"
    /\ InsertDoc(r, "settle", LinesOf(r))

PostSaleOut(r) == \E l \in todo[r] : PostLine(r, l, "sale_out", -1)

CountSaleReturns(r) == CountReturns(r, "RET")

RestockSaleReturn(r) == Restock(r, "sale_return", 1)

\* convertToInvoice: quotations, and whatever has status "draft".
FindToConvert(r) ==
    \E d \in Live :
        /\ d.type = "quotation" \/ d.status = "draft"
        /\ FindOne(r, d, "final", "convert")

\* Mutant: the conversion takes the lines out of stock (again).
ConvertAndDeduct(r) ==
    \E d \in docs :
        /\ pc[r] = "convert"
        /\ d.id = arg[r].target
        /\ docs' = (docs \ {d}) \cup {[d EXCEPT !.type = "sale", !.status = "final"]}
        /\ ledger' = ledger \cup
              {[biz |-> d.biz, product |-> d.lines[l].product, type |-> "sale_out",
                qty |-> -d.lines[l].qty, by |-> r, doc |-> d.id, line |-> l] :
               l \in DOMAIN d.lines}
        /\ pc' = [pc EXCEPT ![r] = "ok"]
        /\ UNCHANGED <<lastId, arg, number, mine, todo, readAt, faults>>

ConvertToInvoice(r) ==
    \E d \in docs :
        Overwrite(r, "convert", d, [d EXCEPT !.type = "sale", !.status = "final"])

Step(r) ==
    \/ CreateSale(r)
    \/ InsertSale(r)
    \/ PostSaleOut(r)
    \/ CountSaleReturns(r)
    \/ RestockSaleReturn(r)
    \/ FindToConvert(r)
    \/ ConvertToInvoice(r)
    \/ CommonStep(r)

Next == (\E r \in Request : Step(r)) \/ Crash

Spec == Init /\ [][Next]_vars
-----------------------------------------------------------------------------
(***************************************************************************)
(* Properties.                                                             *)
(***************************************************************************)
\* Stock leaves with a document made by create and comes back with a return.
SaleEffect(d) == IF d.returnOf = 0 THEN -1 ELSE 1

\* Every stock row of a request restates one line of the document that very
\* request inserted, with its product, its tenant, and its quantity signed by
\* the kind of document; no line has two rows. So no conversion, update, retry
\* or removal ever moves stock, and a refused insert (P2002) leaves no rows.
EntriesBacked ==
    \A e \in ledger :
        /\ \E d \in docs :
              /\ d.id = e.doc /\ e.doc = mine[e.by] /\ d.biz = e.biz
              /\ e.line \in DOMAIN d.lines
              /\ e.product = d.lines[e.line].product
              /\ e.qty = SaleEffect(d) * d.lines[e.line].qty
        /\ \A f \in ledger : f.doc = e.doc /\ f.line = e.line => f = e

\* If a saved document lacks the stock row of a line, then the request that
\* made it is still at it, or was cut short by a refused statement or a crash:
\* an answered request, concurrent ones notwithstanding, has moved all of its
\* stock.
MissingRowsExplained ==
    \A d \in docs : \A l \in DOMAIN d.lines :
        (\A e \in ledger : ~(e.doc = d.id /\ e.line = l)) =>
            \E r \in Request :
                /\ mine[r] = d.id
                /\ l \in todo[r] \/ pc[r] \in {"restock", "error", "crashed"}

\* An invoice number from MAX(id)+1 is refused by the unique index only if a
\* sale was inserted after the number was read: two creates overlapped. Soft
\* deletes, returns and ids spent on refused inserts never cause it.
InvoiceClashNeedsOverlap ==
    \A r \in Request : pc[r] = "insert" =>
        \A d \in docs : d.biz = Tenant(r) /\ d.no = number[r] => d.id > readAt[r]

\* A return number from COUNT+1 is refused only if two returns overlapped, or
\* if some document entered as a return was turned into a sale: a return set to
\* "draft" can be converted, which takes it out of the count.
ReturnClashExplained ==
    \A r \in Request : pc[r] = "insertReturn" =>
        \A d \in docs : d.biz = Tenant(r) /\ d.no = number[r] =>
            \/ d.id > readAt[r]
            \/ \E c \in InBusiness(d.biz) :
                  c.born.type = "sale_return" /\ c.type # "sale_return"

\* The sales table as the abstract number book.
Numbers == INSTANCE IssuedNumbers WITH
    issued <- {[id |-> d.id, biz |-> d.biz, no |-> d.no] : d \in docs}

\* Sales implement the number book: a number is given once, together with a
\* new id, and neither is ever withdrawn, reassigned or given twice.
NumbersIssuedOnce == Numbers!Spec

\* What the comment on generateInvoiceNo promises: concurrent requests cannot
\* produce the same invoice number.
InvoiceNumbersNeverClash ==
    \A r \in Request : pc[r] = "insert" => ~Taken(Tenant(r), number[r])

\* "Cannot return a return transaction": the document a return is made of was
\* not itself entered as a return.
NoReturnOfReturn ==
    \A d \in docs : d.type = "sale_return" /\ d.returnOf # 0 =>
        \A o \in docs : o.id = d.returnOf => o.born.type # "sale_return"
=============================================================================
