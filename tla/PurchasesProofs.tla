--------------------------- MODULE PurchasesProofs ---------------------------
(***************************************************************************)
(* Theorems about Purchases, for any number of tenants, products, requests,*)
(* bodies and refused statements: the types, what is written to the ledger *)
(* (EntriesBacked, MissingRowsExplained), when a reference is refused      *)
(* (ReferenceClashExplained) and that purchases implement the number book. *)
(***************************************************************************)
EXTENDS Purchases, DocumentTableProofs

\* A received document brings its lines in, and a return takes its own out.
PurchaseKind == [made |-> "purchase_in", sign |-> 1, back |-> "adjustment_out", undo |-> -1,
                 always |-> FALSE]

\* create starts with a typed reference, or with MAX(id)+1.
LEMMA CreatePurchaseBegin ==
  ASSUME IType, NEW r \in Request, CreatePurchase(r)
  PROVE  \E a \in Arg, m \in 0..lastId, n \in Number :
            /\ a.target = 0 /\ IsMaxId(a.body.biz, m)
            /\ a.body.no = NoNumber => n = [series |-> "PO", seq |-> m + 1]
            /\ Begin(r, a, n, "insert")
<1>1. PICK b \in CreateBody, m \in 0..lastId :
         /\ IsMaxId(b.biz, m)
         /\ Begin(r, [body |-> b, target |-> 0],
                  IF b.no # NoNumber THEN b.no ELSE [series |-> "PO", seq |-> m + 1], "insert")
  BY DEF CreatePurchase
<1> DEFINE a == [body |-> b, target |-> 0]
           n == IF b.no # NoNumber THEN b.no ELSE [series |-> "PO", seq |-> m + 1]
<1>2. a \in Arg /\ a.target = 0 /\ a.body = b
  BY BodyAssumption DEF Arg
<1>3. n \in Number
  <2>1. b.no \in Number \cup {NoNumber}
    BY BodyAssumption DEF Body
  <2>2. [series |-> "PO", seq |-> m + 1] \in Number
    BY PurchaseSeries DEF IType, TypeOK, TableOK, Number
  <2> QED
    BY <2>1, <2>2
<1>4. b.no = NoNumber => n = [series |-> "PO", seq |-> m + 1]
  OBVIOUS
<1>5. Begin(r, a, n, "insert")
  BY <1>1
<1> HIDE DEF a, n
<1> QED
  BY <1>1, <1>2, <1>3, <1>4, <1>5

\* convertToOrder finds a requisition, and makes a purchase of the row.
LEMMA FindRequisitionBegin ==
  ASSUME IType, NEW r \in Request, FindRequisition(r)
  PROVE  \E d \in Live, a \in Arg : /\ d.type = "requisition" /\ a.target = d.id
                                    /\ Begin(r, a, NoNumber, "convert")
  BY FindOneBegin DEF FindRequisition, DocStatus

LEMMA ConvertKeeps ==
  ASSUME IType, NEW r \in Request, ConvertToOrder(r)
  PROVE  \E d \in docs, row \in Doc : Keeps(d, row) /\ Overwrite(r, "convert", d, row)
<1>1. PICK d \in docs :
         Overwrite(r, "convert", d, [d EXCEPT !.type = "purchase", !.status = "ordered"])
  BY DEF ConvertToOrder
<1> DEFINE row == [d EXCEPT !.type = "purchase", !.status = "ordered"]
<1>2. row \in Doc /\ Keeps(d, row)
  BY PurchaseReturnType DEF IType, TypeOK, TableOK, Doc, DocType, DocStatus, Keeps
<1> HIDE DEF row
<1> QED
  BY <1>1, <1>2 DEF row

\* InsertPurchase makes what is due, and the two posting steps write rows of the kind.
LEMMA PurchaseSteps ==
  ASSUME NEW r \in Request
  PROVE  /\ IStock(PurchaseKind) /\ InsertPurchase(r) => Making(PurchaseKind, r)
         /\ PostPurchaseIn(r) \/ TakeOutPurchaseReturn(r) => Posting(PurchaseKind, r)
<1>1. ASSUME IStock(PurchaseKind), InsertPurchase(r) PROVE Making(PurchaseKind, r)
  <2>1. arg[r].target = 0
    BY <1>1 DEF IStock, PlaceOK, InsertPurchase
  <2>2. ~PurchaseKind.always
    BY DEF PurchaseKind
  <2>3. Due(PurchaseKind, r) = IF arg[r].body.status = "received" THEN LinesOf(r) ELSE {}
    BY <2>1, <2>2 DEF Due
  <2> QED
    BY <1>1, <2>3 DEF InsertPurchase, Making
<1>2. /\ PurchaseKind.made = "purchase_in" /\ PurchaseKind.sign = 1
      /\ PurchaseKind.back = "adjustment_out" /\ PurchaseKind.undo = -1
  BY DEF PurchaseKind
<1> QED
  BY <1>1, <1>2 DEF PostPurchaseIn, TakeOutPurchaseReturn, Posting

\* Every step of the purchases service keeps the type invariant.
LEMMA StepType ==
  ASSUME IType, [Next]_vars
  PROVE  IType'
<1>1. ASSUME NEW r \in Request, CreatePurchase(r) PROVE IType'
  BY <1>1, CreatePurchaseBegin, BeginType DEF PC, Waiting
<1>2. ASSUME NEW r \in Request, InsertPurchase(r) PROVE IType'
  <2>1. "settle" \in PC \ {"new", "insert", "insertReturn"}
    BY DEF PC
  <2>2. PICK pending \in SUBSET LinesOf(r) : InsertDoc(r, "settle", pending)
    BY <1>2 DEF InsertPurchase
  <2> QED
    BY <1>2, <2>1, <2>2, InsertDocType DEF InsertPurchase
<1>3. ASSUME NEW r \in Request, PostPurchaseIn(r) PROVE IType'
  BY <1>3, PostLineType DEF PostPurchaseIn, EntryType
<1>4. ASSUME NEW r \in Request, CountPurchaseReturns(r) PROVE IType'
  BY <1>4, CountReturnsType, PurchaseSeries DEF CountPurchaseReturns
<1>5. ASSUME NEW r \in Request, TakeOutPurchaseReturn(r) PROVE IType'
  BY <1>5, RestockType DEF TakeOutPurchaseReturn, EntryType
<1>6. ASSUME NEW r \in Request, FindRequisition(r) PROVE IType'
  BY <1>6, FindRequisitionBegin, BeginType DEF PC, Waiting
<1>7. ASSUME NEW r \in Request, ConvertToOrder(r) PROVE IType'
  BY <1>7, ConvertKeeps, OverwriteType
<1>8. CASE Crash
  BY <1>8, FailureType DEF Crash
<1>9. CASE UNCHANGED vars
  BY <1>9 DEF vars, IType, TypeOK, TableOK, ArgOK, NumberOK, TodoOK, LinesOf
<1> QED
  BY <1>1, <1>2, <1>3, <1>4, <1>5, <1>6, <1>7, <1>8, <1>9, CommonStepType DEF Next, Step

\* Every step of the purchases service keeps who wrote which row.
LEMMA StepStock ==
  ASSUME IType, IStock(PurchaseKind), [Next]_vars
  PROVE  IStock(PurchaseKind)'
<1>1. ASSUME NEW r \in Request, Step(r) PROVE IStock(PurchaseKind)'
  <2>1. CASE CreatePurchase(r)
    BY <2>1, CreatePurchaseBegin, BeginStock
  <2>2. CASE FindRequisition(r)
    BY <2>2, FindRequisitionBegin, BeginStock
  <2>3. CASE ConvertToOrder(r)
    BY <2>3, ConvertKeeps, OverwriteStock
  <2>4. CASE InsertPurchase(r)
    BY <2>4, PurchaseSteps, InsertStock
  <2>5. CASE PostPurchaseIn(r) \/ TakeOutPurchaseReturn(r)
    BY <2>5, PurchaseSteps, RowsStock
  <2>6. CASE CountPurchaseReturns(r)
    BY <2>6, CountStock DEF CountPurchaseReturns
  <2> QED
    BY <1>1, <2>1, <2>2, <2>3, <2>4, <2>5, <2>6, CommonStepStock DEF Step
<1>2. CASE UNCHANGED vars
  <2>1. DocsKept /\ \A r \in Request : Stays(r)
    BY <1>2 DEF vars, DocsKept, Keeps, Stays
  <2> QED
    BY <1>2, <2>1, StockFrame DEF vars
<1> QED
  BY <1>1, <1>2, CrashStock DEF Next

\* Every step of the purchases service keeps where the numbers come from.
LEMMA StepNumbers ==
  ASSUME IType, INumbers("PO", "PRR"), [Next]_vars
  PROVE  INumbers("PO", "PRR")'
<1>1. ASSUME NEW r \in Request, Step(r) PROVE INumbers("PO", "PRR")'
  <2>1. CASE CreatePurchase(r)
    BY <2>1, CreatePurchaseBegin, CreateNumbers
  <2>2. CASE FindRequisition(r)
    BY <2>2, FindRequisitionBegin, BeginNumbers
  <2>3. CASE ConvertToOrder(r)
    BY <2>3, ConvertKeeps, OverwriteNumbers
  <2>4. CASE InsertPurchase(r)
    BY <2>4, InsertNumbers DEF InsertPurchase
  <2>5. CASE PostPurchaseIn(r) \/ TakeOutPurchaseReturn(r)
    BY <2>5, OtherNumbers DEF PostPurchaseIn, TakeOutPurchaseReturn
  <2>6. CASE CountPurchaseReturns(r)
    BY <2>6, CountNumbers DEF CountPurchaseReturns
  <2> QED
    BY <1>1, <2>1, <2>2, <2>3, <2>4, <2>5, <2>6, CommonStepNumbers DEF Step
<1> QED
  BY <1>1, OtherNumbers DEF Next

\* Only requisitions are converted, and a return never was one. So returns stay
\* returns, and the count of them never shrinks.
IReturns ==
    /\ \A d \in docs : d.born.type = ReturnType => d.type = ReturnType
    /\ \A r \in Request : pc[r] = "convert" =>
          \E d \in docs : d.id = arg[r].target /\ d.born.type # ReturnType

LEMMA StepReturns ==
  ASSUME IType, INumbers("PO", "PRR"), IReturns, [Next]_vars
  PROVE  IReturns'
<1>1. ASSUME UNCHANGED docs,
             \A x \in Request : pc'[x] = "convert" => pc[x] = "convert" /\ arg'[x] = arg[x]
      PROVE  IReturns'
  BY <1>1 DEF IReturns
<1>2. ASSUME NEW r \in Request, InsertPurchase(r) \/ InsertReturn(r) PROVE IReturns'
  <2>1. \A x \in Request : pc'[x] = "convert" => pc[x] = "convert" /\ arg'[x] = arg[x]
    BY <1>2 DEF InsertPurchase, InsertReturn, InsertDoc, IType, TypeOK, TableOK
  <2>2. docs' = docs \/ docs' = docs \cup {NewDoc(r)}
    BY <1>2 DEF InsertPurchase, InsertReturn, InsertDoc
  <2>3. NewDoc(r).type = NewDoc(r).born.type
    BY DEF NewDoc
  <2> QED
    BY <2>1, <2>2, <2>3 DEF IReturns
<1>3. ASSUME NEW r \in Request, FindRequisition(r) PROVE IReturns'
  <2>1. PICK d \in Live, a \in Arg : /\ d.type = "requisition" /\ a.target = d.id
                                     /\ Begin(r, a, NoNumber, "convert")
    BY <1>3, FindRequisitionBegin
  <2>2. d \in docs /\ d.born.type # ReturnType
    BY <2>1, PurchaseReturnType DEF Live, IReturns
  <2>3. /\ arg'[r] = a /\ docs' = docs
        /\ \A x \in Request \ {r} : pc'[x] = pc[x] /\ arg'[x] = arg[x]
    BY <2>1 DEF Begin, IType, TypeOK, TableOK
  <2> QED
    BY <2>1, <2>2, <2>3 DEF IReturns
<1>4. ASSUME NEW r \in Request, NEW op, NEW d \in docs, NEW row, Keeps(d, row),
             Overwrite(r, op, d, row), row.type = d.type \/ d.born.type # ReturnType
      PROVE  IReturns'
  <2>1. docs' = (docs \ {d}) \cup {row} /\ row.id = d.id /\ row.born = d.born
    BY <1>4 DEF Overwrite, Keeps
  <2>2. \A x \in Request : pc'[x] = "convert" => pc[x] = "convert" /\ arg'[x] = arg[x]
    BY <1>4 DEF Overwrite, IType, TypeOK, TableOK
  <2> QED
    BY <1>4, <2>1, <2>2 DEF IReturns
<1>5. ASSUME NEW r \in Request, ConvertToOrder(r) PROVE IReturns'
  <2>1. PICK d \in docs, row \in Doc : Keeps(d, row) /\ Overwrite(r, "convert", d, row)
    BY <1>5, ConvertKeeps
  <2>2. d.born.type # ReturnType
    BY <2>1 DEF Overwrite, IReturns, INumbers, IdsOK
  <2> QED
    BY <1>4, <2>1, <2>2
<1>6. ASSUME NEW r \in Request, Update(r) \/ Remove(r) PROVE IReturns'
  BY <1>4, <1>6, WriteById
<1>7. ASSUME NEW r \in Request, NEW a, NEW n, NEW next, next # "convert", Begin(r, a, n, next)
      PROVE  IReturns'
  BY <1>1, <1>7 DEF Begin, IType, TypeOK, TableOK
<1>8. ASSUME NEW r \in Request,
             CreatePurchase(r) \/ FindOriginal(r) \/ FindToUpdate(r) \/ FindToRemove(r)
      PROVE  IReturns'
  BY <1>7, <1>8 DEF CreatePurchase, FindOriginal, FindToUpdate, FindToRemove, FindOne
<1>9. ASSUME NEW r \in Request,
             \/ PostPurchaseIn(r) \/ CountPurchaseReturns(r) \/ TakeOutPurchaseReturn(r)
             \/ Answer(r) \/ DbError(r) \/ \E l \in todo[r] : LineError(r, l)
      PROVE  IReturns'
  BY <1>1, <1>9 DEF PostPurchaseIn, PostLine, CountPurchaseReturns, CountReturns,
     TakeOutPurchaseReturn, Restock, Answer, DbError, LineError, IType, TypeOK, TableOK
<1>10. CASE Crash \/ UNCHANGED vars
  BY <1>1, <1>10 DEF Crash, Abandon, vars, Waiting
<1> QED
  BY <1>2, <1>3, <1>5, <1>6, <1>8, <1>9, <1>10 DEF Next, Step, CommonStep

\* What the theorems below may assume of a reachable state.
IPurchases == IType /\ IStock(PurchaseKind) /\ INumbers("PO", "PRR") /\ IReturns

LEMMA Reachable == Spec => []IPurchases
<1>1. Init => IPurchases
  BY InitType, InitStock, InitNumbers DEF IPurchases, Init, IReturns
<1>2. IPurchases /\ [Next]_vars => IPurchases'
  BY StepType, StepStock, StepNumbers, StepReturns DEF IPurchases
<1> QED
  BY <1>1, <1>2, PTL DEF Spec

-----------------------------------------------------------------------------
\* Rows, requests and ledger are well typed in every reachable state.
THEOREM TypeCorrect == Spec => []TypeOK
<1>1. IPurchases => TypeOK
  BY DEF IPurchases, IType
<1> QED
  BY <1>1, Reachable, PTL

\* Every stock row restates one line of a document that was received when it was
\* created, or is a return: no update to "received" and no conversion adds stock.
THEOREM PurchaseEntriesBacked == Spec => []EntriesBacked
<1>1. ASSUME IPurchases PROVE EntriesBacked
  <2>1. IStock(PurchaseKind)
    BY <1>1 DEF IPurchases
  <2>2. ASSUME NEW e \in ledger
        PROVE  \E d \in docs :
                  /\ d.id = e.doc /\ e.doc = mine[e.by] /\ d.biz = e.biz
                  /\ MovesStock(d)
                  /\ e.line \in DOMAIN d.lines
                  /\ e.product = d.lines[e.line].product
                  /\ e.qty = PurchaseEffect(d) * d.lines[e.line].qty
    <3>1. PICK d \in docs : /\ d.id = e.doc /\ e.doc = mine[e.by] /\ d.biz = e.biz
                            /\ Moves(PurchaseKind, d)
                            /\ e.line \in DOMAIN d.lines
                            /\ e.product = d.lines[e.line].product
                            /\ e.qty = Sign(PurchaseKind, d) * d.lines[e.line].qty
      BY <2>1, BackedRow
    <3>2. Sign(PurchaseKind, d) = PurchaseEffect(d) /\ MovesStock(d)
      BY <3>1 DEF Sign, Moves, PurchaseKind, PurchaseEffect, MovesStock
    <3> QED
      BY <3>1, <3>2
  <2> QED
    BY <2>1, <2>2, OneRowPerLine DEF EntriesBacked
<1> QED
  BY <1>1, Reachable, PTL

\* If a document that moves stock lacks the row of a line, its request is still
\* at it or was cut short: an answered request has moved all of its stock.
THEOREM PurchaseRowsExplained == Spec => []MissingRowsExplained
<1>1. ASSUME IPurchases PROVE MissingRowsExplained
  <2>1. IStock(PurchaseKind) /\ \A d : MovesStock(d) => Moves(PurchaseKind, d)
    BY <1>1 DEF IPurchases, MovesStock, Moves
  <2> QED
    BY <2>1, MissingRow DEF MissingRowsExplained
<1> QED
  BY <1>1, Reachable, PTL

\* A generated reference is refused only if a document was inserted after it was
\* read, or by one whose reference was typed. Returns never get lost.
THEOREM ReferenceClashNeedsOverlap == Spec => []ReferenceClashExplained
<1>1. ASSUME IPurchases PROVE ReferenceClashExplained
  <2>1. \A b : ~Lost(b)
    BY <1>1 DEF IPurchases, IReturns, Lost
  <2> QED
    BY <1>1, <2>1, ClashExplained DEF IPurchases, ReferenceClashExplained
<1> QED
  BY <1>1, Reachable, PTL

\* A reference is given once, with a new id, and neither is ever withdrawn.
THEOREM PurchasesImplementNumberBook == Spec => NumbersIssuedOnce
<1>1. Init => Numbers!Init
  BY DEF Init, Numbers!Init
<1>2. ASSUME IPurchases, [Next]_vars PROVE Numbers!Issue \/ Issued' = Issued
  <2>1. ASSUME NEW r \in Request, NEW next, NEW pending, InsertDoc(r, next, pending)
        PROVE  Numbers!Issue \/ Issued' = Issued
    BY <1>2, <2>1, InsertIssues DEF IPurchases, INumbers, Numbers!Issue, Numbers!Fresh, Issued
  <2>2. ASSUME NEW r \in Request, ConvertToOrder(r)
        PROVE  Issued' = Issued
    BY <1>2, <2>2, ConvertKeeps, OverwriteKeeps, OverwriteIssues DEF IPurchases
  <2>3. CASE docs' = docs
    BY <2>3 DEF Issued
  <2>4. ASSUME NEW r \in Request, Step(r)
        PROVE  \/ InsertPurchase(r) \/ InsertReturn(r) \/ ConvertToOrder(r)
               \/ CommonStep(r) /\ ~InsertReturn(r)
               \/ docs' = docs
    BY <2>4 DEF Step, CreatePurchase, PostPurchaseIn, PostLine, CountPurchaseReturns, CountReturns,
                TakeOutPurchaseReturn, Restock, FindRequisition, FindOne, Begin
  <2>5. Crash \/ UNCHANGED vars => docs' = docs
    BY DEF Crash, Abandon, vars
  <2> QED
    BY <1>2, <2>1, <2>2, <2>3, <2>4, <2>5, CommonStepIssues
       DEF Next, InsertPurchase, InsertReturn, IPurchases
<1>3. IPurchases /\ [Next]_vars => [Numbers!Issue]_{[id |-> d.id, biz |-> d.biz, no |-> d.no] : d \in docs}
  BY <1>2 DEF Issued
<1> QED
  BY <1>1, <1>3, Reachable, PTL DEF Spec, NumbersIssuedOnce, Numbers!Spec
=============================================================================
