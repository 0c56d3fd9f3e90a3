---------------------------- MODULE DocumentTable ----------------------------
(***************************************************************************)
(* What the sales and the purchases services have in common: a table of    *)
(* numbered documents, the requests in flight on it, and the stock rows a  *)
(* document gives rise to.                                                 *)
(*                                                                         *)
(* The API is one Node process. A handler runs without interruption from   *)
(* one await to the next, and no handler of these services opens a         *)
(* database transaction, so a step is what happens up to and including one *)
(* SQL statement (a nested Prisma create is a single transaction, hence a  *)
(* single step). Between two steps of a request every other request may    *)
(* run, the database may refuse a statement (DbError, LineError) or the    *)
(* process may die (Crash).                                                *)
(*                                                                         *)
(* Amounts, contacts, notes and dates are left out. All documents are of   *)
(* one calendar day: numbers carry the date, so numbers of different days  *)
(* never clash.                                                            *)
(***************************************************************************)
EXTENDS StockLedger

CONSTANTS CreateBody,  \* bodies of POST /
          ReturnCart,  \* the lines of POST /:id/return
          StatusPatch, \* statuses of PATCH /:id
          ReturnType,  \* "sale_return" or "purchase_return"
          Series,      \* prefixes of the numbers
          MaxFaults    \* bound on refused statements

VARIABLES docs,   \* the rows of the table
          lastId, \* AUTO_INCREMENT: the last id given out
          pc,     \* where each request stands
          arg,    \* what it is working on
          number, \* the number it is about to insert
          mine,   \* the id of the row it inserted, 0 before
          todo,   \* lines whose stock row is still to be inserted
          readAt, \* history: lastId when the number was computed
          faults  \* statements refused so far

tableVars == <<docs, lastId, pc, arg, number, mine, todo, readAt, faults>>
vars == <<ledger, docs, lastId, pc, arg, number, mine, todo, readAt, faults>>

\* The types and statuses of both tables; "" where a request brings none.
DocType == {"", "sale", "quotation", "sale_return",
            "purchase", "requisition", "purchase_return"}
DocStatus == {"", "draft", "final", "pending", "completed", "return",
              "ordered", "received", "cancelled"}

Number == [series : Series, seq : Nat]
NoNumber == [series |-> "", seq |-> 0]

\* no is the number the body brings, NoNumber if it is to be generated; target
\* is the row a request is about, 0 if it makes a new one of its own.
Body == [biz : Business, type : DocType, status : DocStatus, lines : Cart,
         no : Number \cup {NoNumber}]
Arg == [body : Body, target : Nat]
NoBody == [biz |-> "", type |-> "", status |-> "", lines |-> <<>>, no |-> NoNumber]
NoArg == [body |-> NoBody, target |-> 0]

\* born is history: the body the row was inserted with.
Doc == [id : Nat \ {0}, biz : Business, no : Number, type : DocType, status : DocStatus,
        born : Body, lines : Cart, returnOf : Nat, deleted : BOOLEAN]

\* pc names the statement the request issues next, or how it was answered.
Waiting  == {"insert", "count", "insertReturn", "restock", "update", "convert", "remove"}
Answered == {"ok", "error", "crashed"}
PC == {"new", "settle"} \cup Waiting \cup Answered

ASSUME RequestAssumption == /\ MaxFaults \in Nat
                            /\ ReturnCart \subseteq Cart
                            /\ StatusPatch \subseteq DocStatus
                            /\ ReturnType \in DocType
ASSUME BodyAssumption == CreateBody \subseteq Body

TableOK ==
    /\ docs \subseteq Doc
    /\ lastId \in Nat
    /\ pc \in [Request -> PC]
    /\ arg \in [Request -> Arg \cup {NoArg}]
    /\ number \in [Request -> Number \cup {NoNumber}]
    /\ mine \in [Request -> Nat]
    /\ todo \in [Request -> SUBSET Nat]
    /\ readAt \in [Request -> Nat]
    /\ faults \in 0..MaxFaults

\* Rows, requests and ledger are what their declarations say: ids are positive,
\* numbers have a known prefix, quantities are whole, pc is a known place.
TypeOK == ledger \subseteq Entry /\ TableOK

Init ==
    /\ ledger = {}
    /\ docs = {}
    /\ lastId = 0
    /\ pc = [r \in Request |-> "new"]
    /\ arg = [r \in Request |-> NoArg]
    /\ number = [r \in Request |-> NoNumber]
    /\ mine = [r \in Request |-> 0]
    /\ todo = [r \in Request |-> {}]
    /\ readAt = [r \in Request |-> 0]
    /\ faults = 0
-----------------------------------------------------------------------------
(***************************************************************************)
(* The statements.                                                         *)
(***************************************************************************)
Tenant(r) == arg[r].body.biz
LinesOf(r) == DOMAIN arg[r].body.lines

InBusiness(b) == {d \in docs : d.biz = b}

\* Mutant: numbers from the count of the rows that are not deleted.
IsLiveCount(b, n) == n = Cardinality({d \in InBusiness(b) : ~d.deleted})

\* SELECT COALESCE(MAX(id), 0) WHERE business_id = b answers n.
IsMaxId(b, n) ==
    /\ \A d \in InBusiness(b) : d.id <= n
    /\ n = 0 \/ \E d \in InBusiness(b) : d.id = n

\* Mutant: deleted returns are not counted.
LiveReturnCount(b) ==
    Cardinality({d \in InBusiness(b) : d.type = ReturnType /\ ~d.deleted})

\* prisma.count({ businessId, type: ReturnType }): deleted rows count as well.
ReturnCount(b) == Cardinality({d \in InBusiness(b) : d.type = ReturnType})

\* findOne: rows that are not soft-deleted.
Live == {d \in docs : ~d.deleted}

\* Mutant: the migration that adds the unique index is not applied.
NoUniqueIndex(b, no) == FALSE

\* The unique index on (business_id, number).
Taken(b, no) == \E d \in docs : d.biz = b /\ d.no = no

\* The request r starts with argument a and number n, and stops before next.
Begin(r, a, n, next) ==
    /\ pc[r] = "new"
    /\ pc' = [pc EXCEPT ![r] = next]
    /\ arg' = [arg EXCEPT ![r] = a]
    /\ number' = [number EXCEPT ![r] = n]
    /\ readAt' = [readAt EXCEPT ![r] = lastId]
    /\ UNCHANGED <<ledger, docs, lastId, mine, todo, faults>>

\* Mutant: the id is read before it is incremented.
NewDocBeforeIncrement(r) ==
    LET b == arg[r].body
    IN  [id |-> lastId, biz |-> b.biz, no |-> number[r], type |-> b.type,
         status |-> b.status, born |-> b, lines |-> b.lines,
         returnOf |-> arg[r].target, deleted |-> FALSE]

\* The row request r inserts.
NewDoc(r) ==
    LET b == arg[r].body
    IN  [id |-> lastId + 1, biz |-> b.biz, no |-> number[r], type |-> b.type,
         status |-> b.status, born |-> b, lines |-> b.lines,
         returnOf |-> arg[r].target, deleted |-> FALSE]

\* INSERT of the document and its lines. An id is spent even when the unique
\* index refuses the row (P2002): nobody catches that error.
InsertDoc(r, next, pending) ==
    /\ lastId' = lastId + 1
    /\ \/ /\ Taken(Tenant(r), number[r])
          /\ pc' = [pc EXCEPT ![r] = "error"]
          /\ UNCHANGED <<docs, mine, todo>>
       \/ /\ ~Taken(Tenant(r), number[r])
          /\ docs' = docs \cup {NewDoc(r)}
          /\ mine' = [mine EXCEPT ![r] = lastId + 1]
          /\ todo' = [todo EXCEPT ![r] = pending]
          /\ pc' = [pc EXCEPT ![r] = next]
    /\ UNCHANGED <<ledger, arg, number, readAt, faults>>

StockRow(r, l, type, sign) ==
    LET b == arg[r].body
    IN  [biz |-> b.biz, product |-> b.lines[l].product, type |-> type,
         qty |-> sign * b.lines[l].qty, by |-> r, doc |-> mine[r], line |-> l]

\* One of the inserts under Promise.all, in any order. It goes on after
\* another one has failed and the request has been answered 500.
PostLine(r, l, type, sign) ==
    /\ l \in todo[r]
    /\ ledger' = ledger \cup {StockRow(r, l, type, sign)}
    /\ todo' = [todo EXCEPT ![r] = @ \ {l}]
    /\ UNCHANGED <<docs, lastId, pc, arg, number, mine, readAt, faults>>

\* All inserts done, the handler drops the caches and answers 201.
Answer(r) ==
    /\ pc[r] = "settle"
    /\ todo[r] = {}
    /\ pc' = [pc EXCEPT ![r] = "ok"]
    /\ UNCHANGED <<ledger, docs, lastId, arg, number, mine, todo, readAt, faults>>

\* createReturn, first await: the original, which must not be a return.
FindOriginal(r) ==
    \E d \in Live, c \in ReturnCart :
        /\ d.type # ReturnType
        /\ c # <<>>
        /\ Begin(r, [body |-> [biz |-> d.biz, type |-> ReturnType, status |-> "return",
                              lines |-> c, no |-> NoNumber],
                     target |-> d.id], NoNumber, "count")

\* createReturn, second await: the number of returns so far, plus one.
CountReturns(r, series) ==
    /\ pc[r] = "count"
    /\ number' = [number EXCEPT ![r] =
                    [series |-> series, seq |-> ReturnCount(Tenant(r)) + 1]]
    /\ readAt' = [readAt EXCEPT ![r] = lastId]
    /\ pc' = [pc EXCEPT ![r] = "insertReturn"]
    /\ UNCHANGED <<ledger, docs, lastId, arg, mine, todo, faults>>

InsertReturn(r) ==
    /\ pc[r] = "insertReturn"
    /\ InsertDoc(r, "restock", {})

\* createReturn, last await: one createMany for all lines.
Restock(r, type, sign) ==
    /\ pc[r] = "restock"
    /\ ledger' = ledger \cup {StockRow(r, l, type, sign) : l \in LinesOf(r)}
    /\ pc' = [pc EXCEPT ![r] = "ok"]
    /\ UNCHANGED <<docs, lastId, arg, number, mine, todo, readAt, faults>>

\* update, remove and the conversions: findOne, then a write by id.
FindOne(r, d, status, next) ==
    Begin(r, [body |-> [NoBody EXCEPT !.biz = d.biz, !.status = status], target |-> d.id],
          NoNumber, next)

\* The write replaces row d, found again by its id whatever happened to it since.
Overwrite(r, op, d, row) ==
    /\ pc[r] = op
    /\ d.id = arg[r].target
    /\ docs' = (docs \ {d}) \cup {row}
    /\ pc' = [pc EXCEPT ![r] = "ok"]
    /\ UNCHANGED <<ledger, lastId, arg, number, mine, todo, readAt, faults>>

\* PATCH /:id writes the header; of it only the status is modelled.
FindToUpdate(r) == \E d \in Live, s \in StatusPatch : FindOne(r, d, s, "update")
Update(r) == \E d \in docs : Overwrite(r, "update", d, [d EXCEPT !.status = arg[r].body.status])

\* Mutant: a hard delete.
HardDelete(r) ==
    \E d \in docs :
        /\ pc[r] = "remove"
        /\ d.id = arg[r].target
        /\ docs' = docs \ {d}
        /\ pc' = [pc EXCEPT ![r] = "ok"]
        /\ UNCHANGED <<ledger, lastId, arg, number, mine, todo, readAt, faults>>

\* DELETE /:id sets deletedAt: the stock rows stay.
FindToRemove(r) == \E d \in Live : FindOne(r, d, d.status, "remove")
Remove(r) == \E d \in docs : Overwrite(r, "remove", d, [d EXCEPT !.deleted = TRUE])
-----------------------------------------------------------------------------
(***************************************************************************)
(* Failures.                                                               *)
(***************************************************************************)
\* The database refuses a statement: the request ends, what it wrote stays. Once
\* the lines are in, dropping the caches and looking the customer up may fail too.
DbError(r) ==
    /\ pc[r] \in Waiting \/ (pc[r] = "settle" /\ todo[r] = {})
    /\ faults < MaxFaults
    /\ faults' = faults + 1
    /\ pc' = [pc EXCEPT ![r] = "error"]
    /\ UNCHANGED <<ledger, docs, lastId, arg, number, mine, todo, readAt>>

\* One insert under Promise.all fails: the answer is 500, the others run on.
LineError(r, l) ==
    /\ l \in todo[r]
    /\ faults < MaxFaults
    /\ faults' = faults + 1
    /\ todo' = [todo EXCEPT ![r] = @ \ {l}]
    /\ pc' = [pc EXCEPT ![r] = "error"]
    /\ UNCHANGED <<ledger, docs, lastId, arg, number, mine, readAt>>

Active(r) == pc[r] \in Waiting \cup {"settle"} \/ todo[r] # {}

\* The process dies and comes back. Nothing is resumed.
Abandon ==
    /\ pc' = [r \in Request |-> IF pc[r] \in Waiting \cup {"settle"} THEN "crashed" ELSE pc[r]]
    /\ todo' = [r \in Request |-> {}]
    /\ UNCHANGED <<docs, lastId, arg, number, mine, readAt, faults>>

Crash == (\E r \in Request : Active(r)) /\ Abandon /\ UNCHANGED ledger

\* The steps both services share.
CommonStep(r) ==
    \/ FindOriginal(r)
    \/ InsertReturn(r)
    \/ FindToUpdate(r)
    \/ Update(r)
    \/ FindToRemove(r)
    \/ Remove(r)
    \/ Answer(r)
    \/ DbError(r)
    \/ \E l \in todo[r] : LineError(r, l)
=============================================================================
