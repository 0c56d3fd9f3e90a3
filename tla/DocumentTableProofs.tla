------------------------- MODULE DocumentTableProofs -------------------------
(***************************************************************************)
(* What is proved of the statements that sales and purchases share, one    *)
(* lemma per statement and invariant: the types (IType), who wrote which   *)
(* row (IStock) and where the numbers come from (INumbers). SalesProofs    *)
(* and PurchasesProofs put them together. The services differ in constants *)
(* only: a kind k of stock rows, and the prefixes s and t of the numbers.  *)
(***************************************************************************)
EXTENDS DocumentTable, SumProofs

\* A request that has started has a real argument; ...
ArgOK == \A r \in Request : pc[r] # "new" => arg[r] \in Arg
\* ... one about to insert has a real number; ...
NumberOK == \A r \in Request : pc[r] \in {"insert", "insertReturn"} => number[r] \in Number
\* ... and the lines still to be posted are lines of its body, none at first.
TodoOK == \A r \in Request : /\ todo[r] \subseteq LinesOf(r)
                             /\ pc[r] = "new" => todo[r] = {}

\* The inductive strengthening of TypeOK.
IType == TypeOK /\ IsFiniteSet(docs) /\ ArgOK /\ NumberOK /\ TodoOK

\* The type invariant holds of an empty database.
LEMMA InitType == Init => IType
<1> SUFFICES ASSUME Init PROVE IType
  OBVIOUS
<1>1. TypeOK
  <2>1. faults \in 0..MaxFaults
    BY RequestAssumption DEF Init
  <2>2. /\ arg \in [Request -> Arg \cup {NoArg}]
        /\ number \in [Request -> Number \cup {NoNumber}]
    BY DEF Init
  <2>3. /\ pc \in [Request -> PC]
        /\ mine \in [Request -> Nat]
        /\ todo \in [Request -> SUBSET Nat]
        /\ readAt \in [Request -> Nat]
    BY DEF Init, PC
  <2> QED
    BY <2>1, <2>2, <2>3 DEF Init, TypeOK, TableOK
<1>2. IsFiniteSet(docs)
  BY FS_EmptySet DEF Init
<1>3. ArgOK /\ NumberOK /\ TodoOK
  BY DEF Init, ArgOK, NumberOK, TodoOK
<1> QED
  BY <1>1, <1>2, <1>3 DEF IType

\* Starting a request with a well-typed argument.
LEMMA BeginType ==
  ASSUME IType, NEW r \in Request, NEW a \in Arg, NEW n \in Number \cup {NoNumber},
         NEW next \in PC, next \in {"insert", "insertReturn"} => n \in Number,
         Begin(r, a, n, next)
  PROVE  IType'
<1>1. TypeOK'
  BY DEF IType, TypeOK, TableOK, Begin
<1>2. IsFiniteSet(docs)'
  BY DEF IType, Begin
<1>3. ArgOK' /\ NumberOK'
  BY DEF IType, TypeOK, TableOK, ArgOK, NumberOK, Begin
<1>4. TodoOK'
  BY DEF IType, TypeOK, TableOK, TodoOK, Begin, LinesOf
<1> QED
  BY <1>1, <1>2, <1>3, <1>4 DEF IType

\* The body of a request is a record of known parts; a tenant's row has them all.
LEMMA NewDocType ==
  ASSUME IType, NEW r \in Request, pc[r] \in {"insert", "insertReturn"}
  PROVE  NewDoc(r) \in Doc
<1>1. arg[r] \in Arg /\ number[r] \in Number /\ lastId \in Nat
  BY DEF IType, TypeOK, TableOK, ArgOK, NumberOK
<1>2. arg[r].body \in Body /\ arg[r].target \in Nat
  BY <1>1 DEF Arg
<1>3. lastId + 1 \in Nat \ {0}
  BY <1>1
<1> QED
  BY <1>1, <1>2, <1>3 DEF NewDoc, Doc, Body

\* INSERT of a document keeps the types, whether the index refuses it or not.
LEMMA InsertDocType ==
  ASSUME IType, NEW r \in Request, pc[r] \in {"insert", "insertReturn"},
         NEW next \in PC \ {"new", "insert", "insertReturn"},
         NEW pending \in SUBSET LinesOf(r), InsertDoc(r, next, pending)
  PROVE  IType'
<1>1. arg[r] \in Arg /\ LinesOf(r) \subseteq Nat /\ pc[r] # "new"
  BY DEF IType, ArgOK, Arg, Body, Cart, LinesOf
<1>2. lastId \in Nat /\ lastId' \in Nat
  BY DEF IType, TypeOK, TableOK, InsertDoc
<1>3. docs' \subseteq Doc /\ IsFiniteSet(docs')
  <2>1. docs' = docs \/ docs' = docs \cup {NewDoc(r)}
    BY DEF InsertDoc
  <2> QED
    BY <2>1, NewDocType, FS_AddElement DEF IType, TypeOK, TableOK
<1>4. pc' \in [Request -> PC] /\ todo' \in [Request -> SUBSET Nat] /\ mine' \in [Request -> Nat]
  BY <1>1, <1>2 DEF IType, TypeOK, TableOK, InsertDoc, PC, Answered
<1>5. TypeOK'
  BY <1>2, <1>3, <1>4 DEF IType, TypeOK, TableOK, InsertDoc
<1>6. ArgOK' /\ NumberOK'
  BY DEF IType, TypeOK, TableOK, ArgOK, NumberOK, InsertDoc, PC
<1>7. TodoOK'
  BY <1>1 DEF IType, TypeOK, TableOK, TodoOK, InsertDoc, LinesOf, PC
<1> QED
  BY <1>3, <1>5, <1>6, <1>7 DEF IType

\* The row of line l is a ledger entry.
LEMMA StockRowType ==
  ASSUME IType, NEW r \in Request, arg[r] \in Arg, NEW l \in LinesOf(r),
         NEW type \in EntryType, NEW sign \in {-1, 1}
  PROVE  StockRow(r, l, type, sign) \in Entry
<1>1. arg[r].body \in Body /\ mine[r] \in Nat
  BY DEF IType, TypeOK, TableOK, Arg
<1>2. arg[r].body.lines \in Seq(Line) /\ arg[r].body.biz \in Business
  BY <1>1 DEF Body, Cart
<1>3. l \in Nat /\ arg[r].body.lines[l] \in Line
  BY <1>2 DEF LinesOf
<1>4. arg[r].body.lines[l].product \in Product /\ arg[r].body.lines[l].qty \in Nat
  BY <1>3 DEF Line, Quantity
<1>5. sign * arg[r].body.lines[l].qty \in Int
  BY <1>4
<1> QED
  BY <1>1, <1>2, <1>3, <1>4, <1>5 DEF StockRow, Entry

\* One stock row inserted under Promise.all.
LEMMA PostLineType ==
  ASSUME IType, NEW r \in Request, NEW l \in todo[r],
         NEW type \in EntryType, NEW sign \in {-1, 1}, PostLine(r, l, type, sign)
  PROVE  IType'
<1>1. arg[r] \in Arg /\ l \in LinesOf(r)
  BY DEF IType, ArgOK, TodoOK
<1>2. StockRow(r, l, type, sign) \in Entry
  BY <1>1, StockRowType
<1>3. TypeOK'
  BY <1>2 DEF IType, TypeOK, TableOK, PostLine
<1>4. TodoOK'
  BY DEF IType, TypeOK, TableOK, TodoOK, PostLine, LinesOf
<1> QED
  BY <1>3, <1>4 DEF IType, ArgOK, NumberOK, PostLine

\* The stock rows of a return, inserted by one createMany.
LEMMA RestockType ==
  ASSUME IType, NEW r \in Request, NEW type \in EntryType, NEW sign \in {-1, 1},
         Restock(r, type, sign)
  PROVE  IType'
<1>1. arg[r] \in Arg
  BY DEF IType, ArgOK, Restock
<1>2. ledger' \subseteq Entry
  BY <1>1, StockRowType DEF IType, TypeOK, Restock
<1>3. TypeOK'
  BY <1>2 DEF IType, TypeOK, TableOK, Restock, PC, Answered
<1> QED
  BY <1>3 DEF IType, TypeOK, TableOK, ArgOK, NumberOK, TodoOK, LinesOf, Restock

\* The number of a return: finitely many rows, so their count is a number.
LEMMA CountReturnsType ==
  ASSUME IType, NEW r \in Request, NEW series \in Series, CountReturns(r, series)
  PROVE  IType'
<1>1. ReturnCount(Tenant(r)) \in Nat
  <2>1. IsFiniteSet({d \in InBusiness(Tenant(r)) : d.type = ReturnType})
    BY FS_Subset DEF IType, InBusiness
  <2> QED
    BY <2>1, FS_CardinalityType DEF ReturnCount
<1>2. [series |-> series, seq |-> ReturnCount(Tenant(r)) + 1] \in Number
  BY <1>1 DEF Number
<1>3. TypeOK'
  BY <1>2 DEF IType, TypeOK, TableOK, CountReturns, PC, Waiting
<1>4. ArgOK' /\ NumberOK' /\ TodoOK'
  BY <1>2 DEF IType, TypeOK, TableOK, ArgOK, NumberOK, TodoOK, LinesOf, CountReturns
<1> QED
  BY <1>3, <1>4 DEF IType, CountReturns

\* Overwriting row d with a row of the right type.
LEMMA OverwriteType ==
  ASSUME IType, NEW r \in Request, NEW op \in {"update", "convert", "remove"},
         NEW d \in docs, NEW row \in Doc, Overwrite(r, op, d, row)
  PROVE  IType'
<1>1. docs' \subseteq Doc /\ IsFiniteSet(docs')
  BY FS_AddElement, FS_RemoveElement DEF IType, TypeOK, TableOK, Overwrite
<1>2. TypeOK'
  BY <1>1 DEF IType, TypeOK, TableOK, Overwrite, PC, Answered
<1> QED
  BY <1>1, <1>2 DEF IType, TypeOK, TableOK, ArgOK, NumberOK, TodoOK, LinesOf, Overwrite

\* findOne before a write by id: the request starts on that row.
LEMMA FindOneBegin ==
  ASSUME IType, NEW r \in Request, NEW d \in Live, NEW status \in DocStatus, NEW next,
         FindOne(r, d, status, next)
  PROVE  \E a \in Arg : a.target = d.id /\ a.body.no = NoNumber /\ Begin(r, a, NoNumber, next)
<1>1. d.biz \in Business /\ d.id \in Nat
  BY DEF IType, TypeOK, TableOK, Live, Doc
<1>2. NoBody.type \in DocType /\ NoBody.lines \in Cart /\ NoBody.no = NoNumber
  BY DEF NoBody, Cart, DocType
<1>3. [NoBody EXCEPT !.biz = d.biz, !.status = status] \in Body
  BY <1>1, <1>2 DEF NoBody, Body
<1> DEFINE a == [body |-> [NoBody EXCEPT !.biz = d.biz, !.status = status], target |-> d.id]
<1>4. a \in Arg /\ a.target = d.id /\ a.body.no = NoNumber
  BY <1>1, <1>3 DEF Arg, NoBody
<1>5. Begin(r, a, NoNumber, next)
  BY DEF FindOne
<1> QED
  BY <1>4, <1>5

LEMMA FindOneType ==
  ASSUME IType, NEW r \in Request, NEW d \in Live, NEW status \in DocStatus,
         NEW next \in PC \ {"insert", "insertReturn"}, FindOne(r, d, status, next)
  PROVE  IType'
  BY FindOneBegin, BeginType

\* createReturn looks its original up: the request starts on a return of it.
LEMMA FindOriginalBegin ==
  ASSUME IType, NEW r \in Request, FindOriginal(r)
  PROVE  \E a \in Arg : /\ a.target # 0 /\ a.body.type = ReturnType /\ a.body.no = NoNumber
                       /\ Begin(r, a, NoNumber, "count")
<1>1. PICK d \in Live, c \in ReturnCart :
         Begin(r, [body |-> [biz |-> d.biz, type |-> ReturnType, status |-> "return",
                             lines |-> c, no |-> NoNumber],
                   target |-> d.id], NoNumber, "count")
  BY DEF FindOriginal
<1> DEFINE b == [biz |-> d.biz, type |-> ReturnType, status |-> "return",
                 lines |-> c, no |-> NoNumber]
           a == [body |-> b, target |-> d.id]
<1>2. d.biz \in Business /\ d.id \in Nat \ {0}
  BY DEF IType, TypeOK, TableOK, Live, Doc
<1>3. b \in Body /\ b.type = ReturnType /\ b.no = NoNumber
  BY <1>2, RequestAssumption DEF Body, DocStatus
<1> HIDE DEF b
<1>4. a \in Arg /\ a.target # 0 /\ a.body.type = ReturnType /\ a.body.no = NoNumber
  BY <1>2, <1>3 DEF Arg
<1>5. Begin(r, a, NoNumber, "count")
  BY <1>1 DEF b
<1> QED
  BY <1>4, <1>5

LEMMA FindOriginalType ==
  ASSUME IType, NEW r \in Request, FindOriginal(r)
  PROVE  IType'
  BY FindOriginalBegin, BeginType DEF PC, Waiting

\* Refused statements and crashes.
LEMMA FailureType ==
  ASSUME IType,
         \/ \E r \in Request : DbError(r) \/ \E l \in todo[r] : LineError(r, l)
         \/ Abandon /\ UNCHANGED ledger
  PROVE  IType'
<1>1. ASSUME NEW r \in Request, DbError(r) PROVE IType'
  <2>1. faults' \in 0..MaxFaults
    BY <1>1, RequestAssumption DEF IType, TypeOK, TableOK, DbError
  <2> QED
    BY <1>1, <2>1 DEF IType, TypeOK, TableOK, ArgOK, NumberOK, TodoOK, LinesOf, DbError,
                      PC, Waiting, Answered
<1>2. ASSUME NEW r \in Request, NEW l \in todo[r], LineError(r, l) PROVE IType'
  <2>1. faults' \in 0..MaxFaults
    BY <1>2, RequestAssumption DEF IType, TypeOK, TableOK, LineError
  <2>2. pc[r] # "new"
    BY DEF IType, TodoOK
  <2> QED
    BY <1>2, <2>1, <2>2 DEF IType, TypeOK, TableOK, ArgOK, NumberOK, TodoOK, LinesOf,
                            LineError, PC, Answered
<1>3. ASSUME Abandon, UNCHANGED ledger PROVE IType'
  BY <1>3 DEF IType, TypeOK, TableOK, ArgOK, NumberOK, TodoOK, LinesOf, Abandon,
              PC, Waiting, Answered
<1> QED
  BY <1>1, <1>2, <1>3

\* The steps both services share keep the types.
LEMMA CommonStepType ==
  ASSUME IType, NEW r \in Request, CommonStep(r)
  PROVE  IType'
<1>1. CASE InsertReturn(r)
  <2>1. {} \in SUBSET LinesOf(r) /\ "restock" \in PC \ {"new", "insert", "insertReturn"}
    BY DEF PC, Waiting
  <2> QED
    BY <1>1, <2>1, InsertDocType DEF InsertReturn
<1>2. CASE FindToUpdate(r)
  BY <1>2, FindOneType, RequestAssumption DEF FindToUpdate, PC, Waiting
<1>3. CASE Update(r)
  <2>1. PICK d \in docs : Overwrite(r, "update", d, [d EXCEPT !.status = arg[r].body.status])
    BY <1>3 DEF Update
  <2>2. arg[r].body.status \in DocStatus
    BY <2>1 DEF IType, ArgOK, Arg, Body, Overwrite
  <2>3. [d EXCEPT !.status = arg[r].body.status] \in Doc
    BY <2>2 DEF IType, TypeOK, TableOK, Doc
  <2> QED
    BY <2>1, <2>3, OverwriteType
<1>4. CASE FindToRemove(r)
  <2>1. PICK d \in Live : FindOne(r, d, d.status, "remove")
    BY <1>4 DEF FindToRemove
  <2>2. d.status \in DocStatus
    BY DEF IType, TypeOK, TableOK, Live, Doc
  <2> QED
    BY <2>1, <2>2, FindOneType DEF PC, Waiting
<1>5. CASE Remove(r)
  <2>1. PICK d \in docs : Overwrite(r, "remove", d, [d EXCEPT !.deleted = TRUE])
    BY <1>5 DEF Remove
  <2>2. [d EXCEPT !.deleted = TRUE] \in Doc
    BY DEF IType, TypeOK, TableOK, Doc
  <2> QED
    BY <2>1, <2>2, OverwriteType
<1>6. CASE Answer(r)
  BY <1>6 DEF IType, TypeOK, TableOK, ArgOK, NumberOK, TodoOK, LinesOf, Answer, PC, Answered
<1> QED
  BY <1>1, <1>2, <1>3, <1>4, <1>5, <1>6, FindOriginalType, FailureType DEF CommonStep

-----------------------------------------------------------------------------
(***************************************************************************)
(* Who wrote which row. Kind k of a service says what its documents and    *)
(* their returns write to the ledger: the type and the sign of their rows, *)
(* and whether every document moves stock or only a received one.          *)
(***************************************************************************)
\* d is the row request r inserted.
Made(r, d) == /\ d.id = mine[r] /\ d.biz = Tenant(r) /\ d.born = arg[r].body
              /\ d.lines = arg[r].body.lines /\ d.returnOf = arg[r].target

\* The stock row of line l of r's document, and the lines that have one.
RowOf(k, r, l) == IF arg[r].target = 0 THEN StockRow(r, l, k.made, k.sign)
                                       ELSE StockRow(r, l, k.back, k.undo)
Due(k, r) ==
    IF arg[r].target # 0 \/ k.always \/ arg[r].body.status = "received" THEN LinesOf(r) ELSE {}

\* A request inserts at most one row, no two insert the same, ...
MineOK ==
    \A r \in Request : mine[r] # 0 =>
        /\ pc[r] \in {"settle", "restock", "ok", "error", "crashed"}
        /\ mine[r] <= lastId
        /\ \E d \in docs : Made(r, d)
MineUnique == \A r, s \in Request : mine[r] # 0 /\ mine[r] = mine[s] => r = s
\* ... and every row was inserted by one.
DocsMade == \A d \in docs : \E r \in Request : mine[r] # 0 /\ Made(r, d)

\* Where a request stands tells what it works on.
PlaceOK ==
    \A r \in Request :
        /\ pc[r] = "insert" => arg[r].target = 0
        /\ pc[r] \in {"count", "insertReturn", "restock"} => arg[r].target # 0
        /\ pc[r] \in {"settle", "restock"} => mine[r] # 0
        /\ todo[r] # {} => /\ mine[r] # 0 /\ arg[r].target = 0
                           /\ pc[r] \in {"settle", "error"}

\* The ledger holds rows of inserted documents only, ...
RowsOK(k) == \A e \in ledger : /\ e.by \in Request /\ mine[e.by] # 0
                               /\ e.line \in Due(k, e.by) /\ e = RowOf(k, e.by, e.line)
\* ... and all of them but those that are still to come or were cut off.
Posted(k) ==
    \A r \in Request : mine[r] # 0 => \A l \in Due(k, r) :
        l \in todo[r] \/ pc[r] \in {"restock", "error", "crashed"} \/ RowOf(k, r, l) \in ledger
TodoDue(k) == \A r \in Request : todo[r] \subseteq Due(k, r)
\* No row is inserted that is there already.
FreshOK == \A e \in ledger : e.line \notin todo[e.by] /\ pc[e.by] # "restock"

IStock(k) == /\ MineOK /\ MineUnique /\ DocsMade /\ PlaceOK
             /\ RowsOK(k) /\ Posted(k) /\ TodoDue(k) /\ FreshOK

\* Nothing is in the ledger of an empty database.
LEMMA InitStock ==
  ASSUME NEW CONSTANT k, Init
  PROVE  IStock(k)
  BY DEF Init, IStock, MineOK, MineUnique, DocsMade, PlaceOK, RowsOK, Posted, TodoDue, FreshOK

\* What rows are about does not change while their request's argument does not.
LEMMA SameRows ==
  ASSUME NEW CONSTANT k, NEW r, arg'[r] = arg[r]
  PROVE  /\ Tenant(r)' = Tenant(r) /\ LinesOf(r)' = LinesOf(r) /\ Due(k, r)' = Due(k, r)
         /\ mine'[r] = mine[r] => \A l : RowOf(k, r, l)' = RowOf(k, r, l)
  BY DEF Tenant, LinesOf, Due, RowOf, StockRow

\* The places a request may go without touching the ledger.
Halts(r) == /\ pc[r] # "new" /\ todo'[r] \subseteq todo[r]
            /\ pc'[r] = "error" \/ (pc'[r] = "crashed" /\ todo'[r] = {})
Ends(r) == /\ pc'[r] = "ok" /\ todo'[r] = todo[r]
           /\ pc[r] \in {"update", "convert", "remove"} \/ (pc[r] = "settle" /\ todo[r] = {})
Stays(r) == pc'[r] = pc[r] /\ todo'[r] = todo[r]

\* Row d became row e, of which the number, the goods and the origin are those of
\* d, and which is not turned into a return.
Keeps(d, e) == /\ e.id = d.id /\ e.biz = d.biz /\ e.no = d.no /\ e.born = d.born
               /\ e.lines = d.lines /\ e.returnOf = d.returnOf
               /\ e.type = d.type \/ e.type # ReturnType
DocsKept == /\ \A e \in docs' : \E d \in docs : Keeps(d, e)
            /\ \A d \in docs : \E e \in docs' : Keeps(d, e)

\* Steps that add no rows to either table and keep what Made looks at.
LEMMA StockFrame ==
  ASSUME NEW CONSTANT k, IType, IStock(k), UNCHANGED <<ledger, lastId, arg, mine>>, DocsKept,
         \A r \in Request : Stays(r) \/ Halts(r) \/ Ends(r)
  PROVE  IStock(k)'
<1>1. \A r \in Request : /\ Tenant(r)' = Tenant(r) /\ Due(k, r)' = Due(k, r)
                         /\ \A l : RowOf(k, r, l)' = RowOf(k, r, l)
  BY SameRows
<1>2. \A r \in Request : \A d, e : Keeps(d, e) /\ Made(r, d) => Made(r, e)'
  BY <1>1 DEF Keeps, Made
<1>3. MineOK'
  BY <1>1, <1>2 DEF DocsKept, IStock, MineOK, Stays, Halts, Ends
<1>4. MineUnique'
  BY DEF IStock, MineUnique
<1>5. DocsMade'
  BY <1>2 DEF DocsKept, IStock, DocsMade
<1>6. PlaceOK'
  BY DEF IStock, PlaceOK, Stays, Halts, Ends
<1>7. RowsOK(k)'
  BY <1>1 DEF IStock, RowsOK
<1>8. Posted(k)'
  BY <1>1 DEF IStock, Posted, MineOK, Stays, Halts, Ends
<1>9. TodoDue(k)'
  BY <1>1 DEF IStock, TodoDue, Stays, Halts, Ends
<1>10. FreshOK'
  BY DEF IStock, RowsOK, FreshOK, Stays, Halts, Ends
<1> QED
  BY <1>3, <1>4, <1>5, <1>6, <1>7, <1>8, <1>9, <1>10 DEF IStock

\* A request that starts has inserted nothing.
LEMMA BeginStock ==
  ASSUME NEW CONSTANT k, IType, IStock(k), NEW r \in Request, NEW a \in Arg, NEW n, NEW next,
         Begin(r, a, n, next),
         \/ next = "insert" /\ a.target = 0
         \/ next = "count" /\ a.target # 0
         \/ next \in {"update", "convert", "remove"}
  PROVE  IStock(k)'
<1>1. /\ pc[r] = "new" /\ mine[r] = 0 /\ todo[r] = {}
      /\ pc'[r] = next /\ arg'[r] = a
  BY DEF Begin, IType, TypeOK, TableOK, TodoOK, IStock, MineOK
<1>2. \A x \in Request \ {r} : pc'[x] = pc[x] /\ arg'[x] = arg[x]
  BY DEF Begin, IType, TypeOK, TableOK
<1>3. UNCHANGED <<ledger, docs, lastId, mine, todo>>
  BY DEF Begin
<1>4. \A x \in Request \ {r} : /\ Tenant(x)' = Tenant(x) /\ Due(k, x)' = Due(k, x)
                               /\ \A l : RowOf(k, x, l)' = RowOf(k, x, l)
  BY <1>2, <1>3, SameRows
<1>5. MineOK'
  BY <1>1, <1>2, <1>3, <1>4 DEF IStock, MineOK, Made
<1>6. MineUnique'
  BY <1>3 DEF IStock, MineUnique
<1>7. DocsMade'
  BY <1>1, <1>2, <1>3, <1>4 DEF IStock, DocsMade, Made
<1>8. PlaceOK'
  BY <1>1, <1>2, <1>3 DEF IStock, PlaceOK
<1>9. RowsOK(k)'
  BY <1>1, <1>3, <1>4 DEF IStock, RowsOK
<1>10. Posted(k)' /\ TodoDue(k)' /\ FreshOK'
  BY <1>1, <1>2, <1>3, <1>4 DEF IStock, Posted, TodoDue, RowsOK, FreshOK
<1> QED
  BY <1>5, <1>6, <1>7, <1>8, <1>9, <1>10 DEF IStock

\* The number of a return changes nothing that matters here.
LEMMA CountStock ==
  ASSUME NEW CONSTANT k, IType, IStock(k), NEW r \in Request, NEW t, CountReturns(r, t)
  PROVE  IStock(k)'
<1>1. /\ pc[r] = "count" /\ pc'[r] = "insertReturn" /\ mine[r] = 0
      /\ \A x \in Request \ {r} : pc'[x] = pc[x]
      /\ UNCHANGED <<ledger, docs, lastId, arg, mine, todo>>
  BY DEF CountReturns, IType, TypeOK, TableOK, IStock, MineOK
<1>2. \A x \in Request : /\ Tenant(x)' = Tenant(x) /\ Due(k, x)' = Due(k, x)
                         /\ \A l : RowOf(k, x, l)' = RowOf(k, x, l)
  BY <1>1, SameRows
<1>3. MineOK' /\ MineUnique' /\ DocsMade'
  BY <1>1, <1>2 DEF IStock, MineOK, MineUnique, DocsMade, Made
<1>4. PlaceOK'
  BY <1>1 DEF IStock, PlaceOK
<1>5. RowsOK(k)' /\ Posted(k)' /\ TodoDue(k)' /\ FreshOK'
  BY <1>1, <1>2 DEF IStock, RowsOK, Posted, TodoDue, FreshOK
<1> QED
  BY <1>3, <1>4, <1>5 DEF IStock

\* Making: create or createReturn inserts its document.
Making(k, r) == \/ pc[r] = "insert" /\ InsertDoc(r, "settle", Due(k, r))
                \/ InsertReturn(r)

\* An insert makes a new document, with all of its rows to come.
LEMMA InsertStock ==
  ASSUME NEW CONSTANT k, IType, IStock(k), NEW r \in Request, Making(k, r)
  PROVE  IStock(k)'
<1>1. mine[r] = 0 /\ todo[r] = {}
  BY DEF Making, InsertReturn, IStock, MineOK, PlaceOK
<1>2. lastId \in Nat /\ lastId' = lastId + 1 /\ \A x \in Request : mine[x] \in Nat
  BY DEF Making, InsertReturn, InsertDoc, IType, TypeOK, TableOK
<1>3. UNCHANGED <<ledger, arg>>
  BY DEF Making, InsertReturn, InsertDoc
<1>4. \A x \in Request : /\ Tenant(x)' = Tenant(x) /\ Due(k, x)' = Due(k, x)
                         /\ mine'[x] = mine[x] => \A l : RowOf(k, x, l)' = RowOf(k, x, l)
  BY <1>3, SameRows
<1>5. \A x \in Request \ {r} :
         pc'[x] = pc[x] /\ mine'[x] = mine[x] /\ todo'[x] = todo[x]
  BY DEF Making, InsertReturn, InsertDoc, IType, TypeOK, TableOK
<1>6. CASE Taken(Tenant(r), number[r])
  <2>1. /\ pc'[r] = "error" /\ UNCHANGED <<docs, mine, todo>>
    BY <1>6 DEF Making, InsertReturn, InsertDoc, IType, TypeOK, TableOK
  <2>2. MineOK' /\ MineUnique' /\ DocsMade'
    BY <1>1, <1>2, <1>4, <1>3, <1>5, <2>1 DEF IStock, MineOK, MineUnique, DocsMade, Made
  <2>3. PlaceOK'
    BY <1>1, <1>3, <1>5, <2>1 DEF IStock, PlaceOK
  <2>4. RowsOK(k)' /\ Posted(k)' /\ TodoDue(k)' /\ FreshOK'
    BY <1>1, <1>3, <1>4, <1>5, <2>1 DEF IStock, RowsOK, Posted, TodoDue, FreshOK
  <2> QED
    BY <2>2, <2>3, <2>4 DEF IStock
<1>7. CASE ~Taken(Tenant(r), number[r])
  <2>1. /\ docs' = docs \cup {NewDoc(r)}
        /\ mine'[r] = lastId + 1
        /\ \/ /\ pc'[r] = "settle" /\ todo'[r] = Due(k, r) /\ arg[r].target = 0
           \/ /\ pc'[r] = "restock" /\ todo'[r] = {} /\ arg[r].target # 0
    BY <1>7 DEF Making, InsertReturn, InsertDoc, IType, TypeOK, TableOK, IStock, PlaceOK
  <2>0. PICK row : row = NewDoc(r)
    OBVIOUS
  <2>2. Made(r, row)'
    BY <1>3, <2>1, <2>0 DEF Made, NewDoc, Tenant
  <2>3. \A x \in Request \ {r} : \A d \in docs : Made(x, d)' <=> Made(x, d)
    BY <1>3, <1>4, <1>5 DEF Made
  <2>4. MineOK'
    BY <1>2, <1>5, <2>1, <2>0, <2>2, <2>3 DEF IStock, MineOK
  <2>5. MineUnique'
    BY <1>2, <1>5, <2>1 DEF IStock, MineOK, MineUnique
  <2>6. DocsMade'
    <3>1. ASSUME NEW d \in docs PROVE \E x \in Request : mine'[x] # 0 /\ Made(x, d)'
      BY <1>1, <1>5, <2>3 DEF IStock, DocsMade
    <3>2. mine'[r] # 0 /\ Made(r, row)'
      BY <1>2, <2>1, <2>2
    <3> QED
      BY <2>1, <2>0, <3>1, <3>2 DEF DocsMade
  <2>7. PlaceOK'
    BY <1>2, <1>3, <1>5, <2>1 DEF IStock, PlaceOK
  <2>8. RowsOK(k)'
    BY <1>1, <1>3, <1>4, <1>5 DEF IStock, RowsOK
  <2>9. Posted(k)' /\ TodoDue(k)' /\ FreshOK'
    BY <1>1, <1>3, <1>4, <1>5, <2>1 DEF IStock, Posted, TodoDue, RowsOK, FreshOK
  <2> QED
    BY <2>4, <2>5, <2>6, <2>7, <2>8, <2>9 DEF IStock
<1> QED
  BY <1>6, <1>7

\* Posting: rows of the request's own document enter the ledger.
Posting(k, r) == \/ \E l \in todo[r] : PostLine(r, l, k.made, k.sign)
                 \/ Restock(r, k.back, k.undo)

LEMMA RowsStock ==
  ASSUME NEW CONSTANT k, IType, IStock(k), NEW r \in Request, Posting(k, r)
  PROVE  IStock(k)'
<1>1. UNCHANGED <<docs, lastId, arg, mine>>
  BY DEF Posting, PostLine, Restock
<1>2. \A x \in Request : /\ Tenant(x)' = Tenant(x) /\ Due(k, x)' = Due(k, x)
                         /\ \A l : RowOf(k, x, l)' = RowOf(k, x, l)
  BY <1>1, SameRows
<1>3. \A x \in Request \ {r} : pc'[x] = pc[x] /\ todo'[x] = todo[x]
  BY DEF Posting, PostLine, Restock, IType, TypeOK, TableOK
<1>4. PICK L \in SUBSET Due(k, r) :
         /\ ledger' = ledger \cup {RowOf(k, r, l) : l \in L}
         /\ mine[r] # 0
         /\ \/ pc'[r] = pc[r] /\ pc[r] # "restock" /\ todo'[r] = todo[r] \ L
            \/ /\ pc'[r] = "ok" /\ pc[r] = "restock" /\ todo'[r] = todo[r]
               /\ todo[r] = {} /\ L = Due(k, r)
  <2>1. CASE \E l \in todo[r] : PostLine(r, l, k.made, k.sign)
    <3>1. PICK l \in todo[r] : PostLine(r, l, k.made, k.sign)
      BY <2>1
    <3>2. /\ l \in Due(k, r) /\ mine[r] # 0 /\ pc[r] # "restock"
          /\ RowOf(k, r, l) = StockRow(r, l, k.made, k.sign)
      BY DEF IStock, TodoDue, PlaceOK, RowOf
    <3>3. ledger' = ledger \cup {RowOf(k, r, l)} /\ pc'[r] = pc[r] /\ todo'[r] = todo[r] \ {l}
      BY <3>1, <3>2 DEF PostLine, IType, TypeOK, TableOK
    <3>4. {RowOf(k, r, m) : m \in {l}} = {RowOf(k, r, l)}
      OBVIOUS
    <3>5. /\ {l} \in SUBSET Due(k, r)
          /\ ledger' = ledger \cup {RowOf(k, r, m) : m \in {l}}
          /\ todo'[r] = todo[r] \ {l}
      BY <3>2, <3>3, <3>4
    <3> QED
      BY <3>2, <3>3, <3>5
  <2>2. CASE Restock(r, k.back, k.undo)
    <3>1. mine[r] # 0 /\ arg[r].target # 0 /\ pc[r] = "restock" /\ todo[r] = {}
      BY <2>2 DEF Restock, IStock, PlaceOK
    <3>2. Due(k, r) = LinesOf(r) /\ \A l : RowOf(k, r, l) = StockRow(r, l, k.back, k.undo)
      BY <3>1 DEF RowOf, Due
    <3>3. /\ ledger' = ledger \cup {RowOf(k, r, l) : l \in LinesOf(r)}
          /\ pc'[r] = "ok" /\ todo'[r] = todo[r]
      BY <2>2, <3>2 DEF Restock, IType, TypeOK, TableOK
    <3> QED
      BY <3>1, <3>2, <3>3
  <2> QED
    BY <2>1, <2>2 DEF Posting
<1>5. MineOK' /\ MineUnique' /\ DocsMade'
  BY <1>1, <1>2, <1>3, <1>4 DEF IStock, MineOK, MineUnique, DocsMade, Made
<1>6. PlaceOK'
  BY <1>1, <1>3, <1>4 DEF IStock, PlaceOK
<1>7. RowsOK(k)' /\ FreshOK'
  <2>1. \A l \in Due(k, r) : RowOf(k, r, l).by = r /\ RowOf(k, r, l).line = l
    BY DEF RowOf, StockRow
  <2>2. RowsOK(k)'
    BY <1>1, <1>2, <1>4, <2>1 DEF IStock, RowsOK
  <2>3. FreshOK'
    BY <1>3, <1>4, <2>1 DEF IStock, RowsOK, FreshOK
  <2> QED
    BY <2>2, <2>3
<1>8. Posted(k)' /\ TodoDue(k)'
  BY <1>1, <1>2, <1>3, <1>4 DEF IStock, Posted, TodoDue
<1> QED
  BY <1>5, <1>6, <1>7, <1>8 DEF IStock

\* A write by id of a row that keeps what Keeps says.
LEMMA OverwriteKeeps ==
  ASSUME NEW r, NEW op, NEW d \in docs, NEW row, Keeps(d, row), Overwrite(r, op, d, row)
  PROVE  DocsKept
<1>1. docs' = (docs \ {d}) \cup {row} /\ \A c : Keeps(c, c)
  BY DEF Overwrite, Keeps
<1> QED
  BY <1>1 DEF DocsKept

LEMMA OverwriteStock ==
  ASSUME NEW CONSTANT k, IType, IStock(k), NEW r \in Request,
         NEW op \in {"convert", "update", "remove"},
         NEW d \in docs, NEW row, Keeps(d, row), Overwrite(r, op, d, row)
  PROVE  IStock(k)'
<1>1. \A x \in Request : Stays(x) \/ Ends(x)
  BY DEF Overwrite, Stays, Ends, IType, TypeOK, TableOK
<1> QED
  BY <1>1, OverwriteKeeps, StockFrame DEF Overwrite

\* An update and a removal leave a row's number, goods and type.
LEMMA WriteById ==
  ASSUME IType, NEW r \in Request, Update(r) \/ Remove(r)
  PROVE  \E op \in {"update", "remove"}, d \in docs, row \in Doc :
            Keeps(d, row) /\ row.type = d.type /\ Overwrite(r, op, d, row)
<1>1. CASE Update(r)
  <2>1. PICK d \in docs : Overwrite(r, "update", d, [d EXCEPT !.status = arg[r].body.status])
    BY <1>1 DEF Update
  <2>2. arg[r].body.status \in DocStatus
    BY <2>1 DEF IType, ArgOK, Arg, Body, Overwrite
  <2> DEFINE row == [d EXCEPT !.status = arg[r].body.status]
  <2>3. row \in Doc /\ Keeps(d, row) /\ row.type = d.type
    BY <2>2 DEF IType, TypeOK, TableOK, Doc, Keeps
  <2> HIDE DEF row
  <2> QED
    BY <2>1, <2>3 DEF row
<1>2. CASE Remove(r)
  <2>1. PICK d \in docs : Overwrite(r, "remove", d, [d EXCEPT !.deleted = TRUE])
    BY <1>2 DEF Remove
  <2> DEFINE row == [d EXCEPT !.deleted = TRUE]
  <2>2. row \in Doc /\ Keeps(d, row) /\ row.type = d.type
    BY DEF IType, TypeOK, TableOK, Doc, Keeps
  <2> HIDE DEF row
  <2> QED
    BY <2>1, <2>2 DEF row
<1> QED
  BY <1>1, <1>2

\* The steps both services share, and crashes, keep IStock.
LEMMA CommonStepStock ==
  ASSUME NEW CONSTANT k, IType, IStock(k), NEW r \in Request, CommonStep(r)
  PROVE  IStock(k)'
<1>1. CASE FindOriginal(r)
  BY <1>1, FindOriginalBegin, BeginStock
<1>2. CASE FindToUpdate(r) \/ FindToRemove(r)
  <2>1. PICK d \in Live, s \in DocStatus, next \in {"update", "remove"} : FindOne(r, d, s, next)
    BY <1>2, RequestAssumption
       DEF FindToUpdate, FindToRemove, IType, TypeOK, TableOK, Live, Doc
  <2> QED
    BY <2>1, FindOneBegin, BeginStock
<1>3. CASE Update(r) \/ Remove(r)
  BY <1>3, WriteById, OverwriteStock
<1>4. CASE Answer(r) \/ DbError(r) \/ \E l \in todo[r] : LineError(r, l)
  <2>1. \A x \in Request : Stays(x) \/ Ends(x) \/ Halts(x)
    BY <1>4 DEF Answer, DbError, LineError, Stays, Ends, Halts, IType, TypeOK, TableOK,
                TodoOK, Waiting
  <2>2. DocsKept
    BY <1>4 DEF DocsKept, Keeps, Answer, DbError, LineError
  <2> QED
    BY <1>4, <2>1, <2>2, StockFrame DEF Answer, DbError, LineError
<1> QED
  BY <1>1, <1>2, <1>3, <1>4, InsertStock DEF CommonStep, Making

LEMMA CrashStock ==
  ASSUME NEW CONSTANT k, IType, IStock(k), Crash
  PROVE  IStock(k)'
<1>1. \A x \in Request : pc[x] \in {"new"} \cup Answered /\ todo[x] = {} => Stays(x)
  BY DEF Crash, Abandon, Stays, Waiting, Answered
<1>2. \A x \in Request : pc[x] \in Waiting \cup {"settle", "error"} => Halts(x)
  BY DEF Crash, Abandon, Halts, Waiting
<1>3. \A x \in Request : todo[x] # {} => pc[x] \in {"settle", "error"}
  BY DEF IStock, PlaceOK
<1>4. DocsKept
  BY DEF DocsKept, Keeps, Crash, Abandon
<1> QED
  BY <1>1, <1>2, <1>3, <1>4, StockFrame DEF Crash, Abandon, IType, TypeOK, TableOK, PC

-----------------------------------------------------------------------------
(***************************************************************************)
(* Where the numbers come from. MAX(id)+1, in series s, cannot pass the    *)
(* ids: the number of a saved row is at most its id, and one about to be   *)
(* inserted exceeds every id its tenant had when it was read. COUNT+1, in  *)
(* series t, cannot pass the count of the returns there are up to a row's  *)
(* id, as long as none is turned into something else.                      *)
(***************************************************************************)
IdsOK == \A d \in docs : d.id <= lastId /\ \A c \in docs : c.id = d.id => c = d

\* Some document of b that was entered as a return is not one any more.
Lost(b) == \E c \in docs : c.biz = b /\ c.born.type = ReturnType /\ c.type # ReturnType

\* The returns of b among the first n rows, and how many they are.
ReturnIds(b, n) == {i \in 1..n : \E c \in docs : c.id = i /\ c.biz = b /\ c.type = ReturnType}
Returns(b, n) == Cardinality(ReturnIds(b, n))

SeqOK(s) ==
    \A d \in docs : d.returnOf = 0 /\ d.born.no = NoNumber =>
        d.no.series = s /\ d.no.seq <= d.id

PendingOK(s) ==
    \A r \in Request : pc[r] = "insert" =>
        /\ arg[r].target = 0
        /\ arg[r].body.no = NoNumber =>
              /\ number[r].series = s
              /\ number[r].seq <= readAt[r] + 1
              /\ readAt[r] <= lastId
              /\ \A d \in docs : d.biz = Tenant(r) /\ d.id <= readAt[r] => d.id < number[r].seq

ReturnsOK(t) ==
    \A d \in docs :
        /\ d.type = ReturnType => d.born.type = ReturnType
        /\ d.returnOf # 0 =>
              d.no.series = t /\ (Lost(d.biz) \/ d.no.seq <= Returns(d.biz, d.id))

ReturningOK(t) ==
    \A r \in Request :
        /\ pc[r] \in {"count", "insertReturn"} =>
              arg[r].target # 0 /\ arg[r].body.type = ReturnType
        /\ pc[r] = "insertReturn" =>
              /\ number[r].series = t
              /\ readAt[r] <= lastId
              /\ Lost(Tenant(r)) \/ number[r].seq = Returns(Tenant(r), readAt[r]) + 1

INumbers(s, t) == IdsOK /\ SeqOK(s) /\ PendingOK(s) /\ ReturnsOK(t) /\ ReturningOK(t)

\* There are no numbers in an empty database.
LEMMA InitNumbers ==
  ASSUME NEW CONSTANT s, NEW CONSTANT t, Init
  PROVE  INumbers(s, t)
  BY DEF Init, INumbers, IdsOK, SeqOK, PendingOK, ReturnsOK, ReturningOK

\* Counts are numbers, and grow with the rows that are counted.
LEMMA ReturnsMonotone ==
  ASSUME NEW b, NEW n \in Nat, NEW m \in Nat, m <= n
  PROVE  /\ Returns(b, m) \in Nat /\ Returns(b, n) \in Nat
         /\ Returns(b, m) <= Returns(b, n)
<1>1. IsFiniteSet(1..n)
  BY FS_Interval
<1>2. ReturnIds(b, n) \in SUBSET (1..n) /\ ReturnIds(b, m) \in SUBSET ReturnIds(b, n)
  BY DEF ReturnIds
<1>3. IsFiniteSet(ReturnIds(b, n))
  BY <1>1, <1>2, FS_Subset
<1>4. IsFiniteSet(ReturnIds(b, m)) /\ Returns(b, m) <= Returns(b, n)
  BY <1>2, <1>3, FS_Subset DEF Returns
<1> QED
  BY <1>3, <1>4, FS_CardinalityType DEF Returns

\* What COUNT answers is the number of returns among all rows.
LEMMA CountIsReturns ==
  ASSUME IType, IdsOK, NEW b
  PROVE  ReturnCount(b) = Returns(b, lastId)
<1> DEFINE S == {d \in InBusiness(b) : d.type = ReturnType}
           T == ReturnIds(b, lastId)
           f == [d \in S |-> d.id]
<1>1. IsFiniteSet(S)
  BY FS_Subset DEF IType, InBusiness
<1>2. \A d \in S : d \in docs /\ d.id \in Nat \ {0} /\ d.id <= lastId
  BY DEF IType, TypeOK, TableOK, Doc, IdsOK, InBusiness
<1>3. f \in Injection(S, T)
  <2>1. \A d \in S : f[d] \in T
    BY <1>2 DEF ReturnIds, InBusiness, IType, TypeOK, TableOK
  <2>2. \A c, d \in S : f[c] = f[d] => c = d
    BY <1>2 DEF IdsOK
  <2> QED
    BY <2>1, <2>2 DEF Injection, IsInjective
<1>4. f \in Surjection(S, T)
  <2>1. \A i \in T : \E d \in S : f[d] = i
    BY DEF ReturnIds, InBusiness
  <2> QED
    BY <1>3, <2>1 DEF Injection, Surjection
<1> HIDE DEF S, T, f
<1>5. Cardinality(T) = Cardinality(S)
  BY <1>1, <1>3, <1>4, FS_Bijection DEF ExistsBijection, Bijection
<1> QED
  BY <1>5 DEF ReturnCount, Returns, S, T

\* Rows that are kept are counted as before, unless a return got lost.
LEMMA CountsKept ==
  ASSUME NEW CONSTANT t, ReturnsOK(t), DocsKept, NEW b
  PROVE  /\ Lost(b) => Lost(b)'
         /\ Lost(b)' \/ \A n : ReturnIds(b, n)' = ReturnIds(b, n)
<1>1. Lost(b) => Lost(b)'
  BY DEF Lost, DocsKept, Keeps
<1>2. ASSUME ~Lost(b)', NEW n PROVE ReturnIds(b, n)' = ReturnIds(b, n)
  <2>1. ASSUME NEW d \in docs, d.biz = b, d.type = ReturnType
        PROVE  \E e \in docs' : e.id = d.id /\ e.biz = b /\ e.type = ReturnType
    BY <1>2, <2>1 DEF DocsKept, Keeps, ReturnsOK, Lost
  <2>2. ASSUME NEW e \in docs', e.biz = b, e.type = ReturnType
        PROVE  \E d \in docs : d.id = e.id /\ d.biz = b /\ d.type = ReturnType
    BY <2>2 DEF DocsKept, Keeps
  <2> QED
    BY <2>1, <2>2 DEF ReturnIds
<1> QED
  BY <1>1, <1>2

\* A new row is counted only beyond the ids there were.
LEMMA CountsGrow ==
  ASSUME IType, IdsOK, NEW w, w.id = lastId + 1, docs' = docs \/ docs' = docs \cup {w}, NEW b
  PROVE  /\ Lost(b) => Lost(b)'
         /\ \A n \in Nat : n <= lastId => ReturnIds(b, n)' = ReturnIds(b, n)
<1>1. lastId \in Nat /\ \A d \in docs : d.id \in Nat
  BY DEF IType, TypeOK, TableOK, Doc
<1>2. ASSUME NEW n \in Nat, n <= lastId PROVE ReturnIds(b, n)' = ReturnIds(b, n)
  <2>1. \A i \in 1..n : i # w.id
    BY <1>1, <1>2
  <2> QED
    BY <2>1 DEF ReturnIds
<1> QED
  BY <1>2 DEF Lost

\* No request gets to an insert, and the rows keep what INumbers looks at.
LEMMA NumbersFrame ==
  ASSUME NEW CONSTANT s, NEW CONSTANT t, IType, INumbers(s, t), lastId' = lastId,
         DocsKept, IdsOK',
         \A r \in Request :
            /\ pc'[r] \in {"insert", "insertReturn"} =>
                  /\ pc'[r] = pc[r] /\ arg'[r] = arg[r]
                  /\ number'[r] = number[r] /\ readAt'[r] = readAt[r]
            /\ pc'[r] = "count" => arg'[r].target # 0 /\ arg'[r].body.type = ReturnType
  PROVE  INumbers(s, t)'
<1>1. \A b : /\ Lost(b) => Lost(b)'
             /\ Lost(b)' \/ \A n : Returns(b, n)' = Returns(b, n)
  BY CountsKept DEF INumbers, Returns
<1>2. SeqOK(s)'
  BY DEF INumbers, SeqOK, DocsKept, Keeps
<1>3. ReturnsOK(t)'
  <2> SUFFICES ASSUME NEW e \in docs'
               PROVE  /\ e.type = ReturnType => e.born.type = ReturnType
                      /\ e.returnOf # 0 =>
                            e.no.series = t /\ (Lost(e.biz)' \/ e.no.seq <= Returns(e.biz, e.id)')
    BY DEF ReturnsOK
  <2>1. PICK d \in docs : Keeps(d, e)
    BY DEF DocsKept
  <2> QED
    BY <1>1, <2>1 DEF Keeps, INumbers, ReturnsOK
<1>4. PendingOK(s)'
  BY DEF INumbers, PendingOK, Tenant, DocsKept, Keeps
<1>5. ReturningOK(t)'
  BY <1>1 DEF INumbers, ReturningOK, Tenant
<1> QED
  BY <1>2, <1>3, <1>4, <1>5 DEF INumbers

\* A request that starts may not have read a number yet.
LEMMA BeginNumbers ==
  ASSUME NEW CONSTANT s, NEW CONSTANT t, IType, INumbers(s, t), NEW r \in Request,
         NEW a, NEW next, Begin(r, a, NoNumber, next),
         \/ next = "count" /\ a.target # 0 /\ a.body.type = ReturnType
         \/ next \in {"update", "convert", "remove"}
  PROVE  INumbers(s, t)'
<1>1. UNCHANGED <<docs, lastId>> /\ DocsKept
  BY DEF Begin, DocsKept, Keeps
<1>2. pc'[r] = next /\ arg'[r] = a
  BY DEF Begin, IType, TypeOK, TableOK
<1>3. \A x \in Request \ {r} : /\ pc'[x] = pc[x] /\ arg'[x] = arg[x]
                               /\ number'[x] = number[x] /\ readAt'[x] = readAt[x]
  BY DEF Begin, IType, TypeOK, TableOK
<1> QED
  BY <1>1, <1>2, <1>3, NumbersFrame DEF INumbers, IdsOK, ReturningOK

\* The number just read exceeds every id of its tenant.
LEMMA CreateNumbers ==
  ASSUME NEW CONSTANT s, NEW CONSTANT t, IType, INumbers(s, t), NEW r \in Request,
         NEW a, NEW m \in 0..lastId, NEW n, a.target = 0, IsMaxId(a.body.biz, m),
         a.body.no = NoNumber => n = [series |-> s, seq |-> m + 1],
         Begin(r, a, n, "insert")
  PROVE  INumbers(s, t)'
<1>1. lastId \in Nat /\ \A d \in docs : d.id \in Nat
  BY DEF IType, TypeOK, TableOK, Doc
<1>2. /\ number'[r] = n /\ arg'[r] = a /\ readAt'[r] = lastId /\ pc'[r] = "insert"
      /\ UNCHANGED <<docs, lastId>>
  BY DEF Begin, IType, TypeOK, TableOK
<1>3. Tenant(r)' = a.body.biz
  BY <1>2 DEF Tenant
<1>4. \A x \in Request \ {r} : /\ pc'[x] = pc[x] /\ arg'[x] = arg[x] /\ Tenant(x)' = Tenant(x)
                               /\ number'[x] = number[x] /\ readAt'[x] = readAt[x]
  BY DEF Begin, IType, TypeOK, TableOK, Tenant
<1>5. \A d \in docs : d.biz = a.body.biz => d.id < m + 1
  BY <1>1 DEF IsMaxId, InBusiness
<1>6. m + 1 <= lastId + 1
  BY <1>1
<1>7. PendingOK(s)'
  BY <1>1, <1>2, <1>3, <1>4, <1>5, <1>6 DEF INumbers, PendingOK
<1>8. \A b : (Lost(b)' <=> Lost(b)) /\ \A i : Returns(b, i)' = Returns(b, i)
  BY <1>2 DEF Lost, Returns, ReturnIds
<1>9. IdsOK' /\ SeqOK(s)' /\ ReturnsOK(t)'
  BY <1>2, <1>8 DEF INumbers, IdsOK, SeqOK, ReturnsOK
<1>10. ReturningOK(t)'
  BY <1>2, <1>4, <1>8 DEF INumbers, ReturningOK
<1> QED
  BY <1>7, <1>9, <1>10 DEF INumbers

\* COUNT+1 is one more than the returns there are.
LEMMA CountNumbers ==
  ASSUME NEW CONSTANT s, NEW CONSTANT t, IType, INumbers(s, t), NEW r \in Request,
         CountReturns(r, t)
  PROVE  INumbers(s, t)'
<1>1. /\ pc[r] = "count" /\ pc'[r] = "insertReturn"
      /\ number'[r] = [series |-> t, seq |-> ReturnCount(Tenant(r)) + 1]
      /\ readAt'[r] = lastId
      /\ \A x \in Request \ {r} : /\ pc'[x] = pc[x] /\ number'[x] = number[x]
                                  /\ readAt'[x] = readAt[x]
      /\ UNCHANGED <<docs, lastId, arg>>
  BY DEF CountReturns, IType, TypeOK, TableOK
<1>2. \A x \in Request : Tenant(x)' = Tenant(x)
  BY <1>1 DEF Tenant
<1>3. \A b : (Lost(b)' <=> Lost(b)) /\ \A i : Returns(b, i)' = Returns(b, i)
  BY <1>1 DEF Lost, Returns, ReturnIds
<1>4. number'[r].series = t /\ number'[r].seq = Returns(Tenant(r), lastId) + 1
  BY <1>1, CountIsReturns DEF INumbers
<1>5. lastId \in Nat
  BY DEF IType, TypeOK, TableOK
<1>6. ReturningOK(t)'
  BY <1>1, <1>2, <1>3, <1>4, <1>5 DEF INumbers, ReturningOK
<1>7. IdsOK' /\ SeqOK(s)' /\ ReturnsOK(t)' /\ PendingOK(s)'
  BY <1>1, <1>2, <1>3 DEF INumbers, IdsOK, SeqOK, ReturnsOK, PendingOK
<1> QED
  BY <1>6, <1>7 DEF INumbers

\* Inserting a row: its number is at most its id, or at most the count of the
\* returns up to its id, and its id exceeds all numbers read before.
LEMMA InsertNumbers ==
  ASSUME NEW CONSTANT s, NEW CONSTANT t, IType, INumbers(s, t), NEW r \in Request,
         pc[r] \in {"insert", "insertReturn"},
         NEW next \in {"settle", "restock"}, NEW pending, InsertDoc(r, next, pending)
  PROVE  INumbers(s, t)'
<1>1. lastId \in Nat /\ lastId' = lastId + 1
  BY DEF IType, TypeOK, TableOK, InsertDoc
<1>2. /\ \A x \in Request : readAt[x] \in Nat
      /\ \A d \in docs : d.id \in Nat
  BY DEF IType, TypeOK, TableOK, Doc
<1>3. PICK w : /\ w.id = lastId + 1 /\ w.biz = Tenant(r) /\ w.no = number[r]
               /\ w.type = arg[r].body.type /\ w.born = arg[r].body
               /\ w.returnOf = arg[r].target
               /\ docs' = docs \/ docs' = docs \cup {w}
  <2>1. docs' = docs \/ docs' = docs \cup {NewDoc(r)}
    BY DEF InsertDoc
  <2> QED
    BY <2>1 DEF NewDoc, Tenant
<1>4. number[r] \in Number
  BY DEF IType, NumberOK
<1>5. \A b : /\ Lost(b) => Lost(b)'
             /\ \A n \in Nat : n <= lastId => Returns(b, n)' = Returns(b, n)
  BY <1>3, CountsGrow DEF INumbers, Returns
<1>6. IdsOK'
  BY <1>1, <1>2, <1>3 DEF INumbers, IdsOK
<1>7. SeqOK(s)'
  <2>1. w.returnOf = 0 /\ w.born.no = NoNumber => w.no.series = s /\ w.no.seq <= w.id
    <3>1. pc[r] = "insertReturn" => arg[r].target # 0
      BY DEF INumbers, ReturningOK
    <3>2. pc[r] = "insert" /\ arg[r].body.no = NoNumber =>
             number[r].series = s /\ number[r].seq <= readAt[r] + 1 /\ readAt[r] <= lastId
      BY DEF INumbers, PendingOK
    <3>3. number[r].seq \in Nat
      BY <1>4 DEF Number
    <3> QED
      BY <1>1, <1>2, <1>3, <3>1, <3>2, <3>3
  <2> QED
    BY <1>3, <2>1 DEF INumbers, SeqOK
<1>8. ReturnsOK(t)'
  <2>1. ASSUME NEW d \in docs
        PROVE  /\ d.type = ReturnType => d.born.type = ReturnType
               /\ d.returnOf # 0 =>
                     d.no.series = t /\ (Lost(d.biz)' \/ d.no.seq <= Returns(d.biz, d.id)')
    BY <1>2, <1>5 DEF INumbers, ReturnsOK, IdsOK
  <2>2. ASSUME w \in docs', w.returnOf # 0
        PROVE  w.no.series = t /\ (Lost(w.biz)' \/ w.no.seq <= Returns(w.biz, w.id)')
    <3>0. PICK b : b = Tenant(r)
      OBVIOUS
    <3> DEFINE S == ReturnIds(b, readAt[r])
    <3>1. /\ arg[r].body.type = ReturnType /\ number[r].series = t /\ readAt[r] <= lastId
          /\ Lost(b) \/ number[r].seq = Returns(b, readAt[r]) + 1
      BY <1>3, <2>2, <3>0 DEF INumbers, PendingOK, ReturningOK
    <3>2. /\ IsFiniteSet(S) /\ Cardinality(S \cup {w.id}) = Returns(b, readAt[r]) + 1
      <4>1. IsFiniteSet(1..readAt[r]) /\ S \in SUBSET (1..readAt[r])
        BY <1>2, FS_Interval DEF ReturnIds
      <4>2. IsFiniteSet(S)
        BY <4>1, FS_Subset
      <4>3. w.id \notin S
        BY <1>1, <1>2, <1>3, <3>1, <4>1
      <4> QED
        BY <4>2, <4>3, FS_AddElement DEF Returns
    <3>3. S \cup {w.id} \in SUBSET (ReturnIds(b, w.id)')
      <4>1. \A i \in S : i \in 1..w.id
        BY <1>1, <1>2, <1>3, <3>1 DEF ReturnIds
      <4> QED
        BY <1>1, <1>3, <2>2, <3>0, <3>1, <4>1 DEF ReturnIds
    <3>4. IsFiniteSet(ReturnIds(b, w.id)')
      <4>1. IsFiniteSet(1..w.id) /\ ReturnIds(b, w.id)' \in SUBSET (1..w.id)
        BY <1>1, <1>3, FS_Interval DEF ReturnIds
      <4> QED
        BY <4>1, FS_Subset
    <3>5. Returns(b, readAt[r]) + 1 <= Returns(b, w.id)'
      BY <3>2, <3>3, <3>4, FS_Subset DEF Returns
    <3> QED
      BY <1>3, <1>5, <3>0, <3>1, <3>5
  <2>3. w.type = ReturnType => w.born.type = ReturnType
    BY <1>3
  <2> QED
    BY <1>3, <2>1, <2>2, <2>3 DEF ReturnsOK
<1>9. /\ \A x \in Request : pc'[x] \in {"insert", "count", "insertReturn"} => pc'[x] = pc[x]
      /\ UNCHANGED <<arg, number, readAt>>
      /\ \A x \in Request : Tenant(x)' = Tenant(x)
  BY DEF InsertDoc, IType, TypeOK, TableOK, Tenant
<1>10. PendingOK(s)'
  BY <1>1, <1>2, <1>3, <1>9 DEF INumbers, PendingOK
<1>11. ReturningOK(t)'
  BY <1>1, <1>2, <1>5, <1>9 DEF INumbers, ReturningOK
<1> QED
  BY <1>6, <1>7, <1>8, <1>10, <1>11 DEF INumbers

\* Writes by id leave ids and numbers alone.
LEMMA OverwriteNumbers ==
  ASSUME NEW CONSTANT s, NEW CONSTANT t, IType, INumbers(s, t), NEW r \in Request, NEW op,
         NEW d \in docs, NEW row, Keeps(d, row), Overwrite(r, op, d, row)
  PROVE  INumbers(s, t)'
<1>1. IdsOK'
  BY DEF INumbers, IdsOK, Overwrite, Keeps
<1>2. \A x \in Request : pc'[x] \in {"insert", "count", "insertReturn"} => pc'[x] = pc[x]
  BY DEF Overwrite, IType, TypeOK, TableOK
<1> QED
  BY <1>1, <1>2, OverwriteKeeps, NumbersFrame DEF Overwrite, INumbers, ReturningOK

\* Steps that are not about documents, and crashes.
LEMMA OtherNumbers ==
  ASSUME NEW CONSTANT s, NEW CONSTANT t, IType, INumbers(s, t),
         \/ \E r \in Request : \/ Answer(r) \/ DbError(r)
                               \/ \E l \in todo[r] : LineError(r, l)
                               \/ \E l, type, sign : PostLine(r, l, type, sign)
                               \/ \E type, sign : Restock(r, type, sign)
         \/ Crash
         \/ UNCHANGED vars
  PROVE  INumbers(s, t)'
<1>1. UNCHANGED <<docs, lastId, arg, number, readAt>>
  BY DEF Answer, DbError, LineError, PostLine, Restock, Crash, Abandon, vars
<1>2. DocsKept
  BY <1>1 DEF DocsKept, Keeps
<1>3. \A x \in Request : pc'[x] \in {"insert", "count", "insertReturn"} => pc'[x] = pc[x]
  BY DEF Answer, DbError, LineError, PostLine, Restock, Crash, Abandon, vars,
         IType, TypeOK, TableOK, Waiting
<1> QED
  BY <1>1, <1>2, <1>3, NumbersFrame DEF INumbers, IdsOK, ReturningOK

\* The steps both services share keep INumbers.
LEMMA CommonStepNumbers ==
  ASSUME NEW CONSTANT s, NEW CONSTANT t, IType, INumbers(s, t), NEW r \in Request,
         CommonStep(r)
  PROVE  INumbers(s, t)'
<1>1. CASE FindOriginal(r)
  BY <1>1, FindOriginalBegin, BeginNumbers
<1>2. CASE FindToUpdate(r) \/ FindToRemove(r)
  <2>1. PICK d \in Live, status \in DocStatus, next \in {"update", "remove"} :
           FindOne(r, d, status, next)
    BY <1>2, RequestAssumption
       DEF FindToUpdate, FindToRemove, IType, TypeOK, TableOK, Live, Doc
  <2> QED
    BY <2>1, FindOneBegin, BeginNumbers
<1>3. CASE Update(r) \/ Remove(r)
  BY <1>3, WriteById, OverwriteNumbers
<1>4. CASE InsertReturn(r)
  BY <1>4, InsertNumbers DEF InsertReturn
<1> QED
  BY <1>1, <1>2, <1>3, <1>4, OtherNumbers DEF CommonStep

\* A number that is taken was taken after it was read, unless somebody typed it
\* or a return got lost.
LEMMA ClashExplained ==
  ASSUME NEW CONSTANT s, NEW CONSTANT t, s # t, IType, INumbers(s, t),
         NEW r \in Request, NEW d \in docs, d.biz = Tenant(r), d.no = number[r],
         pc[r] = "insertReturn" \/ (pc[r] = "insert" /\ arg[r].body.no = NoNumber)
  PROVE  \/ d.id > readAt[r]
         \/ d.returnOf = 0 /\ d.born.no # NoNumber
         \/ pc[r] = "insertReturn" /\ Lost(d.biz)
<1>1. /\ d.id \in Nat /\ readAt[r] \in Nat /\ number[r] \in Number
  BY DEF IType, TypeOK, TableOK, NumberOK, Doc
<1>2. CASE pc[r] = "insert"
  <2>1. d.returnOf = 0 /\ d.born.no = NoNumber => d.no.seq <= d.id
    BY DEF INumbers, SeqOK
  <2>2. number[r].series = s /\ (d.id <= readAt[r] => d.id < number[r].seq)
    BY <1>2 DEF INumbers, PendingOK
  <2>3. d.returnOf # 0 => d.no.series = t
    BY DEF INumbers, ReturnsOK
  <2> QED
    BY <1>1, <2>1, <2>2, <2>3 DEF Number
<1>3. CASE pc[r] = "insertReturn" /\ d.id <= readAt[r] /\ ~Lost(d.biz)
  <2>1. number[r].series = t /\ number[r].seq = Returns(d.biz, readAt[r]) + 1
    BY <1>3 DEF INumbers, ReturningOK
  <2>2. d.returnOf # 0 => d.no.seq <= Returns(d.biz, d.id)
    BY <1>3 DEF INumbers, ReturnsOK
  <2>3. /\ Returns(d.biz, d.id) \in Nat /\ Returns(d.biz, readAt[r]) \in Nat
        /\ Returns(d.biz, d.id) <= Returns(d.biz, readAt[r])
    BY <1>1, <1>3, ReturnsMonotone
  <2>4. d.returnOf = 0
    BY <1>1, <2>1, <2>2, <2>3 DEF Number
  <2> QED
    BY <2>1, <2>4 DEF INumbers, SeqOK
<1> QED
  BY <1>1, <1>2, <1>3

-----------------------------------------------------------------------------
(***************************************************************************)
(* The number book that both tables implement.                             *)
(***************************************************************************)
Issued == {[id |-> d.id, biz |-> d.biz, no |-> d.no] : d \in docs}

\* An insert issues one fresh number, or none if the index refuses it.
LEMMA InsertIssues ==
  ASSUME IType, IdsOK, NEW r \in Request, NEW next, NEW pending, InsertDoc(r, next, pending)
  PROVE  \/ Issued' = Issued
         \/ \E x \in Issued' : /\ \A y \in Issued : x.id # y.id /\ ~(x.biz = y.biz /\ x.no = y.no)
                               /\ Issued' = Issued \cup {x}
<1>1. CASE docs' = docs
  BY <1>1 DEF Issued
<1>2. CASE ~Taken(Tenant(r), number[r]) /\ docs' = docs \cup {NewDoc(r)}
  <2> DEFINE x == [id |-> lastId + 1, biz |-> Tenant(r), no |-> number[r]]
  <2>1. NewDoc(r).id = lastId + 1 /\ NewDoc(r).biz = Tenant(r) /\ NewDoc(r).no = number[r]
    BY DEF NewDoc, Tenant
  <2>2. Issued' = Issued \cup {x}
    BY <1>2, <2>1 DEF Issued
  <2>3. \A d \in docs : d.id # lastId + 1 /\ ~(Tenant(r) = d.biz /\ number[r] = d.no)
    <3>1. lastId \in Nat /\ \A d \in docs : d.id \in Nat /\ d.id <= lastId
      BY DEF IType, TypeOK, TableOK, Doc, IdsOK
    <3> QED
      BY <1>2, <3>1 DEF Taken
  <2>4. \A y \in Issued : x.id # y.id /\ ~(x.biz = y.biz /\ x.no = y.no)
    BY <2>3 DEF Issued
  <2> HIDE DEF x
  <2> QED
    BY <2>2, <2>4
<1> QED
  BY <1>1, <1>2 DEF InsertDoc

\* Overwriting a row issues and withdraws nothing.
LEMMA OverwriteIssues ==
  ASSUME DocsKept
  PROVE  Issued' = Issued
<1>1. \A e \in docs' : \E d \in docs : e.id = d.id /\ e.biz = d.biz /\ e.no = d.no
  BY DEF DocsKept, Keeps
<1>2. \A d \in docs : \E e \in docs' : e.id = d.id /\ e.biz = d.biz /\ e.no = d.no
  BY DEF DocsKept, Keeps
<1> QED
  BY <1>1, <1>2 DEF Issued

\* Nor do the steps that write no document.
LEMMA CommonStepIssues ==
  ASSUME IType, NEW r \in Request, CommonStep(r), ~InsertReturn(r)
  PROVE  Issued' = Issued
<1>1. CASE docs' = docs
  BY <1>1 DEF Issued
<1>2. CASE Update(r) \/ Remove(r)
  BY <1>2, WriteById, OverwriteKeeps, OverwriteIssues
<1> QED
  BY <1>1, <1>2 DEF CommonStep, FindOriginal, FindToUpdate, FindToRemove, FindOne, Begin,
                    Answer, DbError, LineError

-----------------------------------------------------------------------------
(***************************************************************************)
(* What the ledger owes to the documents, for either kind.                 *)
(***************************************************************************)
Sign(k, d) == IF d.returnOf = 0 THEN k.sign ELSE k.undo
Moves(k, d) == d.returnOf # 0 \/ k.always \/ d.born.status = "received"

\* A row of the ledger restates a line of a document that moves stock.
LEMMA BackedRow ==
  ASSUME NEW CONSTANT k, IStock(k), NEW e \in ledger
  PROVE  \E d \in docs :
            /\ d.id = e.doc /\ e.doc = mine[e.by] /\ d.biz = e.biz /\ Moves(k, d)
            /\ e.line \in DOMAIN d.lines
            /\ e.product = d.lines[e.line].product
            /\ e.qty = Sign(k, d) * d.lines[e.line].qty
<1> DEFINE r == e.by  l == e.line
<1>1. r \in Request /\ mine[r] # 0 /\ l \in Due(k, r) /\ e = RowOf(k, r, l)
  BY DEF IStock, RowsOK
<1>2. PICK d \in docs : Made(r, d)
  BY <1>1 DEF IStock, MineOK
<1>3. l \in DOMAIN d.lines /\ Moves(k, d)
  BY <1>1, <1>2 DEF Made, Due, LinesOf, Moves
<1>4. CASE arg[r].target = 0
  BY <1>1, <1>2, <1>3, <1>4 DEF RowOf, StockRow, Made, Sign, Tenant
<1>5. CASE arg[r].target # 0
  BY <1>1, <1>2, <1>3, <1>5 DEF RowOf, StockRow, Made, Sign, Tenant
<1> QED
  BY <1>4, <1>5

\* No line has two rows.
LEMMA OneRowPerLine ==
  ASSUME NEW CONSTANT k, IStock(k), NEW e \in ledger, NEW f \in ledger,
         f.doc = e.doc, f.line = e.line
  PROVE  f = e
<1>1. \A x \in ledger : /\ x.by \in Request /\ mine[x.by] # 0
                        /\ x = RowOf(k, x.by, x.line)
  BY DEF IStock, RowsOK
<1>2. \A x \in ledger : x.doc = mine[x.by]
  BY <1>1 DEF RowOf, StockRow
<1>3. e.by = f.by
  BY <1>1, <1>2 DEF IStock, MineUnique
<1> QED
  BY <1>1, <1>3

\* A line without a row is still to come, or its request was cut short.
LEMMA MissingRow ==
  ASSUME NEW CONSTANT k, IStock(k), NEW d \in docs, Moves(k, d), NEW l \in DOMAIN d.lines,
         \A e \in ledger : ~(e.doc = d.id /\ e.line = l)
  PROVE  \E r \in Request : /\ mine[r] = d.id
                            /\ l \in todo[r] \/ pc[r] \in {"restock", "error", "crashed"}
<1>1. PICK r \in Request : mine[r] # 0 /\ Made(r, d)
  BY DEF IStock, DocsMade
<1>2. mine[r] = d.id /\ l \in Due(k, r)
  BY <1>1 DEF Made, Due, LinesOf, Moves
<1>3. RowOf(k, r, l).doc = d.id /\ RowOf(k, r, l).line = l
  BY <1>2 DEF RowOf, StockRow
<1>4. RowOf(k, r, l) \notin ledger
  BY <1>3
<1> QED
  BY <1>1, <1>2, <1>4 DEF IStock, Posted
\* What a line of d comes to, and what d comes to for a product.
LinesOfProduct(d, p) == {i \in DOMAIN d.lines : d.lines[i].product = p}
QtyOf(d, p) == SumFunction([l \in LinesOfProduct(d, p) |-> d.lines[l].qty])

\* Of a document all of whose rows are there, the rows come to what it comes to.
LEMMA DocBooked ==
  ASSUME NEW CONSTANT k, k.sign \in {-1, 1}, k.undo \in {-1, 1},
         IType, IStock(k), IdsOK, NEW d \in docs, NEW p, Moves(k, d),
         \A l \in DOMAIN d.lines : \E e \in ledger : e.doc = d.id /\ e.line = l,
         NEW v, \A e \in ledger : v[e] = e.qty
  PROVE  /\ Sum(v, {e \in ledger : e.doc = d.id /\ e.product = p}) = Sign(k, d) * QtyOf(d, p)
         /\ QtyOf(d, p) \in Int
<1> DEFINE S == LinesOfProduct(d, p)
           u == [l \in S |-> d.lines[l].qty]
           f == [l \in S |-> CHOOSE e \in ledger : e.doc = d.id /\ e.line = l]
           T == {e \in ledger : e.doc = d.id /\ e.product = p}
<1>1. d.lines \in Seq(Line)
  BY DEF IType, TypeOK, TableOK, Doc, Cart
<1>2. IsFiniteSet(S)
  <2>1. Len(d.lines) \in Nat /\ S \subseteq 1..Len(d.lines)
    BY <1>1 DEF LinesOfProduct
  <2>2. IsFiniteSet(1..Len(d.lines))
    BY <2>1, FS_Interval
  <2> QED
    BY <2>1, <2>2, FS_Subset
<1>3. \A l \in S : u[l] = d.lines[l].qty /\ u[l] \in Int
  <2>1. \A l \in S : d.lines[l] \in Line
    BY <1>1 DEF LinesOfProduct
  <2> QED
    BY <2>1 DEF Line, Quantity
<1>4. \A e \in ledger : e.doc = d.id =>
         /\ e.biz = d.biz /\ e.line \in DOMAIN d.lines
         /\ e.product = d.lines[e.line].product
         /\ e.qty = Sign(k, d) * d.lines[e.line].qty
  BY BackedRow DEF IdsOK
<1>5. \A l \in S : f[l] \in ledger /\ f[l].doc = d.id /\ f[l].line = l
  BY DEF LinesOfProduct
<1>6. \A l \in S : v[f[l]] = Sign(k, d) * u[l]
  BY <1>3, <1>4, <1>5
<1>7. \A l, m \in S : f[l] = f[m] => l = m
  BY <1>5
<1>8. {f[l] : l \in S} = T
  <2>1. ASSUME NEW l \in S PROVE f[l] \in T
    BY <1>4, <1>5 DEF LinesOfProduct
  <2>2. ASSUME NEW e \in T PROVE e.line \in S /\ f[e.line] = e
    <3>1. e.line \in S
      BY <1>4 DEF LinesOfProduct
    <3>2. e \in ledger /\ f[e.line] \in ledger /\ f[e.line].doc = e.doc /\ f[e.line].line = e.line
      BY <1>5, <3>1
    <3> QED
      BY <3>1, <3>2, OneRowPerLine
  <2> HIDE DEF f, S, T
  <2> QED
    BY <2>1, <2>2
<1>9. Sign(k, d) \in {-1, 1}
  BY DEF Sign
<1>10. QtyOf(d, p) = Sum(u, S)
  BY DEF QtyOf, Sum, SumFunction
<1> HIDE DEF S, u, f, T
<1>11. Sum(v, {f[l] : l \in S}) = Sign(k, d) * Sum(u, S)
  <2>1. PICK c \in {-1, 1} : c = Sign(k, d)
    BY <1>9
  <2>2. \A l \in S : u[l] \in Int /\ v[f[l]] = c * u[l]
    BY <1>3, <1>6, <2>1
  <2> QED
    BY <1>2, <1>7, <2>1, <2>2, SumOfImages
<1>12. Sum(u, S) \in Int
  BY <1>2, <1>3, SumIsInt
<1> QED
  BY <1>8, <1>10, <1>11, <1>12 DEF T

\* When all rows are there, the rows of a product come to what the documents do.
LEMMA DocsBooked ==
  ASSUME NEW CONSTANT k, k.sign \in {-1, 1}, k.undo \in {-1, 1},
         IType, IStock(k), IdsOK, IsFiniteSet(ledger), NEW b, NEW p,
         \A r \in Request : mine[r] # 0 =>
            todo[r] = {} /\ pc[r] \notin {"restock", "error", "crashed"}
  PROVE  StockOf(b, p) = SumFunction([d \in {x \in docs : Moves(k, x) /\ x.biz = b} |->
                                        Sign(k, d) * QtyOf(d, p)])
<1> DEFINE T == {e \in ledger : e.biz = b /\ e.product = p}
           D == {x \in docs : Moves(k, x) /\ x.biz = b}
           v == [e \in ledger |-> e.qty]
           key == [e \in ledger |-> CHOOSE d \in docs : d.id = e.doc]
           g == [d \in D |-> Sign(k, d) * QtyOf(d, p)]
<1>1. IsFiniteSet(T) /\ IsFiniteSet(D)
  BY FS_Subset DEF IType
<1>2. \A e \in ledger : v[e] = e.qty /\ v[e] \in Int
  BY DEF IType, TypeOK, Entry
<1>3. \A e \in ledger : key[e] \in docs /\ key[e].id = e.doc /\ Moves(k, key[e]) /\ key[e].biz = e.biz
  BY BackedRow DEF IdsOK
<1>4. \A e \in T : e \in ledger /\ v[e] \in Int /\ key[e] \in D
  BY <1>2, <1>3
<1>5. ASSUME NEW d \in D PROVE g[d] = Sum(v, {e \in T : key[e] = d})
  <2>1. \A l \in DOMAIN d.lines : \E e \in ledger : e.doc = d.id /\ e.line = l
    <3>1. d.id # 0
      BY DEF IType, TypeOK, TableOK, Doc
    <3> QED
      BY <3>1, MissingRow
  <2>2. {e \in T : key[e] = d} = {e \in ledger : e.doc = d.id /\ e.product = p}
    BY <1>3 DEF IdsOK
  <2>3. g[d] = Sign(k, d) * QtyOf(d, p) /\ d \in docs /\ Moves(k, d)
    OBVIOUS
  <2> HIDE DEF T, D, v, key, g
  <2>4. Sum(v, {e \in ledger : e.doc = d.id /\ e.product = p}) = Sign(k, d) * QtyOf(d, p)
    BY <1>2, <2>1, <2>3, DocBooked
  <2> QED
    BY <2>2, <2>3, <2>4
<1>6. StockOf(b, p) = Sum([e \in T |-> e.qty], T) /\ \A e \in T : [x \in T |-> x.qty][e] = v[e]
  BY DEF StockOf, Sum, SumFunction
<1>7. SumFunction(g) = Sum(g, D)
  BY DEF Sum, SumFunction
<1>8. Sum([e \in T |-> e.qty], T) = Sum(v, T)
  <2>1. PICK u : u = [e \in T |-> e.qty]
    OBVIOUS
  <2>2. \A e \in T : u[e] = v[e]
    BY <1>6, <2>1
  <2> HIDE DEF T, D, v, key, g
  <2>3. Sum(u, T) = Sum(v, T)
    BY <1>1, <2>2, SumOfSame
  <2> QED
    BY <2>1, <2>3
<1> HIDE DEF T, v, key, g
<1>9. Sum(v, T) = Sum(g, D)
  <2> DEFINE group == [d \in D |-> {e \in T : key[e] = d}]
  <2>1. ASSUME NEW d \in D
        PROVE  /\ group[d] \subseteq T /\ \A e \in T : e \in group[d] <=> key[e] = d
               /\ g[d] = Sum(v, group[d])
    BY <1>5
  <2> HIDE DEF D, group
  <2>2. Grouped(v, T, key, D, group, g)
    BY <1>1, <1>4, <2>1 DEF Grouped
  <2> QED
    BY <2>2, SumOfGroups
<1> QED
  BY <1>6, <1>7, <1>8, <1>9 DEF g
=============================================================================
