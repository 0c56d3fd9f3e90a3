----------------------------- MODULE SalesProofs -----------------------------
(***************************************************************************)
(* Theorems about Sales, for any number of tenants, products, requests,    *)
(* bodies and refused statements: the types, what is written to the ledger *)
(* (EntriesBacked, MissingRowsExplained), when a number is refused         *)
(* (InvoiceClashNeedsOverlap, ReturnClashExplained) and that sales         *)
(* implement the number book.                                              *)
(***************************************************************************)
EXTENDS Sales, DocumentTableProofs

\* create reads MAX(id) and starts.
LEMMA CreateSaleType ==
  ASSUME IType, NEW r \in Request, CreateSale(r)
  PROVE  IType'
<1>1. PICK b \in CreateBody, n \in 0..lastId :
         Begin(r, [body |-> b, target |-> 0], [series |-> "SALE", seq |-> n + 1], "insert")
  BY DEF CreateSale
<1>2. [body |-> b, target |-> 0] \in Arg
  BY BodyAssumption DEF Arg
<1>3. [series |-> "SALE", seq |-> n + 1] \in Number
  BY SaleSeries DEF IType, TypeOK, TableOK, Number
<1> QED
  BY <1>1, <1>2, <1>3, BeginType DEF PC, Waiting

\* A conversion leaves a row's number and goods, and makes no return of it.
LEMMA ConvertKeeps ==
  ASSUME IType, NEW r \in Request, ConvertToInvoice(r)
  PROVE  \E d \in docs, row \in Doc : Keeps(d, row) /\ Overwrite(r, "convert", d, row)
<1>1. PICK d \in docs :
         Overwrite(r, "convert", d, [d EXCEPT !.type = "sale", !.status = "final"])
  BY DEF ConvertToInvoice
<1> DEFINE row == [d EXCEPT !.type = "sale", !.status = "final"]
<1>2. row \in Doc /\ Keeps(d, row)
  BY SaleReturnType DEF IType, TypeOK, TableOK, Doc, DocType, DocStatus, Keeps
<1> HIDE DEF row
<1> QED
  BY <1>1, <1>2 DEF row

\* Every step of the sales service keeps the type invariant.
LEMMA StepType ==
  ASSUME IType, [Next]_vars
  PROVE  IType'
<1>1. ASSUME NEW r \in Request, InsertSale(r) PROVE IType'
  <2>1. "settle" \in PC \ {"new", "insert", "insertReturn"}
    BY DEF PC
  <2> QED
    BY <1>1, <2>1, InsertDocType DEF InsertSale
<1>2. ASSUME NEW r \in Request, PostSaleOut(r) PROVE IType'
  BY <1>2, PostLineType DEF PostSaleOut, EntryType
<1>3. ASSUME NEW r \in Request, CountSaleReturns(r) PROVE IType'
  BY <1>3, CountReturnsType, SaleSeries DEF CountSaleReturns
<1>4. ASSUME NEW r \in Request, RestockSaleReturn(r) PROVE IType'
  BY <1>4, RestockType DEF RestockSaleReturn, EntryType
<1>5. ASSUME NEW r \in Request, FindToConvert(r) PROVE IType'
  BY <1>5, FindOneType DEF FindToConvert, DocStatus, PC, Waiting
<1>6. ASSUME NEW r \in Request, ConvertToInvoice(r) PROVE IType'
  BY <1>6, ConvertKeeps, OverwriteType
<1>7. CASE Crash
  BY <1>7, FailureType DEF Crash
<1>8. CASE UNCHANGED vars
  BY <1>8 DEF vars, IType, TypeOK, TableOK, ArgOK, NumberOK, TodoOK, LinesOf
<1> QED
  BY <1>1, <1>2, <1>3, <1>4, <1>5, <1>6, <1>7, <1>8, CreateSaleType, CommonStepType DEF Next, Step

\* Rows, requests and ledger are well typed in every reachable state.
THEOREM TypeCorrect == Spec => []TypeOK
<1>1. Spec => []IType
  BY InitType, StepType, PTL DEF Spec
<1>2. IType => TypeOK
  BY DEF IType
<1> QED
  BY <1>1, <1>2, PTL

-----------------------------------------------------------------------------
\* Every document takes its lines out of stock, and a return puts its own back.
SaleKind == [made |-> "sale_out", sign |-> -1, back |-> "sale_return", undo |-> 1,
             always |-> TRUE]

\* create and convertToInvoice, as far as the lemmas on the common part look.
LEMMA CreateSaleBegin ==
  ASSUME IType, NEW r \in Request, CreateSale(r)
  PROVE  \E a \in Arg, m \in 0..lastId :
            /\ a.target = 0 /\ a.body.no = NoNumber /\ IsMaxId(a.body.biz, m)
            /\ Begin(r, a, [series |-> "SALE", seq |-> m + 1], "insert")
<1>1. PICK b \in CreateBody, m \in 0..lastId :
         /\ IsMaxId(b.biz, m)
         /\ Begin(r, [body |-> b, target |-> 0], [series |-> "SALE", seq |-> m + 1], "insert")
  BY DEF CreateSale
<1> DEFINE a == [body |-> b, target |-> 0]
<1>2. a \in Arg /\ a.target = 0 /\ a.body = b /\ b.no = NoNumber
  BY BodyAssumption, SaleNumbersAreGenerated DEF Arg
<1> QED
  BY <1>1, <1>2

LEMMA FindToConvertBegin ==
  ASSUME IType, NEW r \in Request, FindToConvert(r)
  PROVE  \E a \in Arg : a.body.no = NoNumber /\ Begin(r, a, NoNumber, "convert")
  BY FindOneBegin DEF FindToConvert, DocStatus

\* InsertSale makes what is due, and the two posting steps write rows of the kind.
LEMMA SaleSteps ==
  ASSUME NEW r \in Request
  PROVE  /\ IStock(SaleKind) /\ InsertSale(r) => Making(SaleKind, r)
         /\ PostSaleOut(r) \/ RestockSaleReturn(r) => Posting(SaleKind, r)
<1>1. InsertSale(r) => Making(SaleKind, r)
  BY DEF InsertSale, Making, Due, SaleKind
<1>2. /\ SaleKind.made = "sale_out" /\ SaleKind.sign = -1
      /\ SaleKind.back = "sale_return" /\ SaleKind.undo = 1
  BY DEF SaleKind
<1> QED
  BY <1>1, <1>2 DEF PostSaleOut, RestockSaleReturn, Posting

\* Every step of the sales service keeps who wrote which row.
LEMMA StepStock ==
  ASSUME IType, IStock(SaleKind), [Next]_vars
  PROVE  IStock(SaleKind)'
<1>1. ASSUME NEW r \in Request, Step(r) PROVE IStock(SaleKind)'
  <2>1. CASE CreateSale(r)
    BY <2>1, CreateSaleBegin, BeginStock
  <2>2. CASE FindToConvert(r)
    BY <2>2, FindToConvertBegin, BeginStock
  <2>3. CASE ConvertToInvoice(r)
    BY <2>3, ConvertKeeps, OverwriteStock
  <2>4. CASE InsertSale(r)
    BY <2>4, SaleSteps, InsertStock
  <2>5. CASE PostSaleOut(r) \/ RestockSaleReturn(r)
    BY <2>5, SaleSteps, RowsStock
  <2>6. CASE CountSaleReturns(r)
    BY <2>6, CountStock DEF CountSaleReturns
  <2> QED
    BY <1>1, <2>1, <2>2, <2>3, <2>4, <2>5, <2>6, CommonStepStock DEF Step
<1>2. CASE UNCHANGED vars
  <2>1. DocsKept /\ \A r \in Request : Stays(r)
    BY <1>2 DEF vars, DocsKept, Keeps, Stays
  <2> QED
    BY <1>2, <2>1, StockFrame DEF vars
<1> QED
  BY <1>1, <1>2, CrashStock DEF Next

\* Every step of the sales service keeps where the numbers come from.
LEMMA StepNumbers ==
  ASSUME IType, INumbers("SALE", "RET"), [Next]_vars
  PROVE  INumbers("SALE", "RET")'
<1>1. ASSUME NEW r \in Request, Step(r) PROVE INumbers("SALE", "RET")'
  <2>1. CASE CreateSale(r)
    BY <2>1, CreateSaleBegin, CreateNumbers
  <2>2. CASE FindToConvert(r)
    BY <2>2, FindToConvertBegin, BeginNumbers
  <2>3. CASE ConvertToInvoice(r)
    BY <2>3, ConvertKeeps, OverwriteNumbers
  <2>4. CASE InsertSale(r)
    BY <2>4, InsertNumbers DEF InsertSale
  <2>5. CASE PostSaleOut(r) \/ RestockSaleReturn(r)
    BY <2>5, OtherNumbers DEF PostSaleOut, RestockSaleReturn
  <2>6. CASE CountSaleReturns(r)
    BY <2>6, CountNumbers DEF CountSaleReturns
  <2> QED
    BY <1>1, <2>1, <2>2, <2>3, <2>4, <2>5, <2>6, CommonStepNumbers DEF Step
<1> QED
  BY <1>1, OtherNumbers DEF Next

\* No sale brings a number of its own.
GeneratedOK == \A r \in Request : pc[r] # "new" => arg[r].body.no = NoNumber

LEMMA StepGenerated ==
  ASSUME IType, GeneratedOK, [Next]_vars
  PROVE  GeneratedOK'
<1>1. ASSUME NEW r \in Request, NEW a, NEW n, NEW next, a.body.no = NoNumber, Begin(r, a, n, next)
      PROVE  GeneratedOK'
  BY <1>1 DEF Begin, GeneratedOK, IType, TypeOK, TableOK
<1>2. ASSUME NEW r \in Request,
             CreateSale(r) \/ FindOriginal(r) \/ FindToConvert(r) \/ FindToUpdate(r) \/ FindToRemove(r)
      PROVE  GeneratedOK'
  <2>1. FindToUpdate(r) \/ FindToRemove(r) =>
           \E d \in Live, s \in DocStatus, next \in PC : FindOne(r, d, s, next)
    BY RequestAssumption DEF FindToUpdate, FindToRemove, IType, TypeOK, TableOK, Live, Doc, PC, Waiting
  <2> QED
    BY <1>1, <1>2, <2>1, CreateSaleBegin, FindOriginalBegin, FindToConvertBegin, FindOneBegin
<1>3. arg' = arg /\ (\A r \in Request : pc[r] = "new" => pc'[r] = "new") => GeneratedOK'
  BY DEF GeneratedOK
<1>4. ASSUME NEW r \in Request,
             \/ InsertSale(r) \/ InsertReturn(r) \/ PostSaleOut(r) \/ CountSaleReturns(r)
             \/ RestockSaleReturn(r) \/ ConvertToInvoice(r) \/ Update(r) \/ Remove(r)
             \/ Answer(r) \/ DbError(r) \/ \E l \in todo[r] : LineError(r, l)
      PROVE  GeneratedOK'
  BY <1>3, <1>4 DEF InsertSale, InsertReturn, InsertDoc, PostSaleOut, PostLine, CountSaleReturns,
     CountReturns, RestockSaleReturn, Restock, ConvertToInvoice, Update, Remove, Overwrite, Answer,
     DbError, LineError, Waiting, IType, TypeOK, TableOK, TodoOK
<1>5. CASE Crash \/ UNCHANGED vars
  BY <1>3, <1>5 DEF Crash, Abandon, vars, Waiting
<1> QED
  BY <1>2, <1>4, <1>5 DEF Next, Step, CommonStep

\* What the theorems below may assume of a reachable state.
ISales == IType /\ IStock(SaleKind) /\ INumbers("SALE", "RET") /\ GeneratedOK

LEMMA Reachable == Spec => []ISales
<1>1. Init => ISales
  BY InitType, InitStock, InitNumbers DEF ISales, Init, GeneratedOK
<1>2. ISales /\ [Next]_vars => ISales'
  BY StepType, StepStock, StepNumbers, StepGenerated DEF ISales
<1> QED
  BY <1>1, <1>2, PTL DEF Spec

-----------------------------------------------------------------------------
\* No number was typed in, so whatever was saved has a generated one.
LEMMA AllGenerated ==
  ASSUME ISales
  PROVE  /\ \A r \in Request : pc[r] = "insert" => arg[r].body.no = NoNumber
         /\ \A d \in docs : d.born.no = NoNumber
<1>1. \A r \in Request : mine[r] # 0 => pc[r] # "new"
  BY DEF ISales, IStock, MineOK
<1> QED
  BY <1>1 DEF ISales, IStock, DocsMade, Made, GeneratedOK

\* An invoice number is refused only if two creates overlapped.
THEOREM ClashNeedsOverlap == Spec => []InvoiceClashNeedsOverlap
<1>1. ISales => InvoiceClashNeedsOverlap
  BY AllGenerated, ClashExplained DEF ISales, InvoiceClashNeedsOverlap
<1> QED
  BY <1>1, Reachable, PTL

\* A return number is refused only if two returns overlapped, or if a return was
\* turned into a sale.
THEOREM ReturnClashNeedsOverlap == Spec => []ReturnClashExplained
<1>1. ISales => ReturnClashExplained
  BY AllGenerated, ClashExplained, SaleReturnType
     DEF ISales, ReturnClashExplained, Lost, InBusiness
<1> QED
  BY <1>1, Reachable, PTL

\* A number is given once, with a new id, and is never withdrawn or reassigned.
THEOREM SalesImplementNumberBook == Spec => NumbersIssuedOnce
<1>1. Init => Numbers!Init
  BY DEF Init, Numbers!Init
<1>2. ASSUME ISales, [Next]_vars PROVE Numbers!Issue \/ Issued' = Issued
  <2>1. ASSUME NEW r \in Request, NEW next, NEW pending, InsertDoc(r, next, pending)
        PROVE  Numbers!Issue \/ Issued' = Issued
    BY <1>2, <2>1, InsertIssues DEF ISales, INumbers, Numbers!Issue, Numbers!Fresh, Issued
  <2>2. ASSUME NEW r \in Request, ConvertToInvoice(r)
        PROVE  Issued' = Issued
    BY <1>2, <2>2, ConvertKeeps, OverwriteKeeps, OverwriteIssues DEF ISales
  <2>3. CASE docs' = docs
    BY <2>3 DEF Issued
  <2>4. ASSUME NEW r \in Request, Step(r)
        PROVE  \/ InsertSale(r) \/ InsertReturn(r) \/ ConvertToInvoice(r)
               \/ CommonStep(r) /\ ~InsertReturn(r)
               \/ docs' = docs
    BY <2>4 DEF Step, CreateSale, PostSaleOut, PostLine, CountSaleReturns, CountReturns,
                RestockSaleReturn, Restock, FindToConvert, FindOne, Begin
  <2>5. Crash \/ UNCHANGED vars => docs' = docs
    BY DEF Crash, Abandon, vars
  <2> QED
    BY <1>2, <2>1, <2>2, <2>3, <2>4, <2>5, CommonStepIssues
       DEF Next, InsertSale, InsertReturn, ISales
<1>3. ISales /\ [Next]_vars => [Numbers!Issue]_{[id |-> d.id, biz |-> d.biz, no |-> d.no] : d \in docs}
  BY <1>2 DEF Issued
<1> QED
  BY <1>1, <1>3, Reachable, PTL DEF Spec, NumbersIssuedOnce, Numbers!Spec

-----------------------------------------------------------------------------
\* Every stock row restates one line of the sale its request inserted, and no
\* line has two: no conversion, update, retry or removal moves stock.
THEOREM SaleEntriesBacked == Spec => []EntriesBacked
<1>1. ASSUME ISales PROVE EntriesBacked
  <2>1. IStock(SaleKind)
    BY <1>1 DEF ISales
  <2>2. ASSUME NEW e \in ledger
        PROVE  \E d \in docs :
                  /\ d.id = e.doc /\ e.doc = mine[e.by] /\ d.biz = e.biz
                  /\ e.line \in DOMAIN d.lines
                  /\ e.product = d.lines[e.line].product
                  /\ e.qty = SaleEffect(d) * d.lines[e.line].qty
    <3>1. PICK d \in docs : /\ d.id = e.doc /\ e.doc = mine[e.by] /\ d.biz = e.biz
                            /\ e.line \in DOMAIN d.lines
                            /\ e.product = d.lines[e.line].product
                            /\ e.qty = Sign(SaleKind, d) * d.lines[e.line].qty
      BY <2>1, BackedRow
    <3>2. Sign(SaleKind, d) = SaleEffect(d)
      BY DEF Sign, SaleKind, SaleEffect
    <3> QED
      BY <3>1, <3>2
  <2> QED
    BY <2>1, <2>2, OneRowPerLine DEF EntriesBacked
<1> QED
  BY <1>1, Reachable, PTL

\* If a saved sale lacks the stock row of a line, its request is still at it or
\* was cut short: an answered request has moved all of its stock.
THEOREM SaleRowsExplained == Spec => []MissingRowsExplained
<1>1. ASSUME ISales PROVE MissingRowsExplained
  <2>1. IStock(SaleKind) /\ \A d : Moves(SaleKind, d)
    BY <1>1 DEF ISales, Moves, SaleKind
  <2> QED
    BY <2>1, MissingRow DEF MissingRowsExplained
<1> QED
  BY <1>1, Reachable, PTL
=============================================================================
