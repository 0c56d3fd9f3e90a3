----------------------------- MODULE StockMoves ------------------------------
(***************************************************************************)
(* The stock movements that no sale or purchase is behind: transfers       *)
(* between locations (StockTransfersService) and rows entered or deleted   *)
(* by hand (InventoryService). A row says nothing about the location, so a *)
(* transfer is two rows that cancel out. Steps and failures are those of   *)
(* DocumentTable: one SQL statement at a time, no transaction.             *)
(***************************************************************************)
EXTENDS StockLedger

CONSTANTS TransferBody, \* bodies of POST /stock-transfers: [biz, product, qty, status]
          EntryBody,    \* bodies of POST /inventory/entry: [biz, product, type, qty]
          StockTracked, \* products with enableStock
          MaxFaults     \* bound on refused statements

VARIABLES transfers,    \* the rows of stock_transfers
          lastTransfer, \* AUTO_INCREMENT
          removed,      \* history: rows deleted by hand
          pc, arg, mine, todo, faults  \* as in DocumentTable

vars == <<ledger, transfers, lastTransfer, removed, pc, arg, mine, todo, faults>>

TransferStatus == {"pending", "completed", "cancelled"}
Transfer == [id : Nat \ {0}, biz : Business, product : Product, qty : Quantity,
             status : TransferStatus]

\* arg is the body of a create, the new status and the id of an update, or the
\* row to delete.
NoArg == [id |-> 0]
Waiting  == {"insertTransfer", "setStatus", "insertEntry", "deleteEntry"}
Answered == {"ok", "error", "crashed"}
Out == 1  \* the two lines of a transfer
In  == 2

\* What Stock assumes of the constants.
TransferAssumption ==
    /\ MaxFaults \in Nat
    /\ StockTracked \subseteq Product
    /\ TransferBody \subseteq [biz : Business, product : Product, qty : Quantity,
                               status : TransferStatus]
    /\ EntryBody \subseteq [biz : Business, product : Product, qty : Int,
                            type : EntryType \ {"transfer_out", "transfer_in"}]

MovesOK ==
    /\ transfers \subseteq Transfer
    /\ lastTransfer \in Nat
    /\ pc \in [Request -> {"new", "settle"} \cup Waiting \cup Answered]
    /\ mine \in [Request -> Nat]
    /\ todo \in [Request -> SUBSET {Out, In}]
    /\ faults \in 0..MaxFaults

Init ==
    /\ ledger = {}
    /\ transfers = {}
    /\ lastTransfer = 0
    /\ removed = {}
    /\ pc = [r \in Request |-> "new"]
    /\ arg = [r \in Request |-> NoArg]
    /\ mine = [r \in Request |-> 0]
    /\ todo = [r \in Request |-> {}]
    /\ faults = 0
-----------------------------------------------------------------------------
\* Every handler begins with a lookup, which changes nothing. (A body naming a
\* product of another tenant gets a 404 there, and is left out.)
Begin(r, a, next) ==
    /\ pc[r] = "new"
    /\ pc' = [pc EXCEPT ![r] = next]
    /\ arg' = [arg EXCEPT ![r] = a]
    /\ UNCHANGED <<ledger, transfers, lastTransfer, removed, mine, todo, faults>>

Finish(r, now, answer) ==
    /\ pc[r] = now
    /\ pc' = [pc EXCEPT ![r] = answer]

\* StockTransfersService.create. The stock at the source is not looked at.
CreateTransfer(r) == \E b \in TransferBody : Begin(r, b, "insertTransfer")

NewTransfer(b) == [id |-> lastTransfer + 1, biz |-> b.biz, product |-> b.product,
                   qty |-> b.qty, status |-> b.status]

InsertTransfer(r) ==
    /\ Finish(r, "insertTransfer", "settle")
    /\ lastTransfer' = lastTransfer + 1
    /\ transfers' = transfers \cup {NewTransfer(arg[r])}
    /\ mine' = [mine EXCEPT ![r] = lastTransfer + 1]
    /\ todo' = [todo EXCEPT ![r] = IF arg[r].status = "completed" THEN {Out, In} ELSE {}]
    /\ UNCHANGED <<ledger, removed, arg, faults>>

\* The row request r writes on behalf of document d, from the body of the create.
Row(r, type, qty, d, line) ==
    [biz |-> arg[r].biz, product |-> arg[r].product, type |-> type, qty |-> qty,
     by |-> r, doc |-> d, line |-> line]

PostLeg(r, leg, type, sign) ==
    /\ leg \in todo[r]
    /\ todo' = [todo EXCEPT ![r] = @ \ {leg}]
    /\ ledger' = ledger \cup {Row(r, type, sign * arg[r].qty, mine[r], leg)}
    /\ UNCHANGED <<transfers, lastTransfer, removed, pc, arg, mine, faults>>

\* Mutant: both legs are negative.
PostInNegative(r) == PostLeg(r, In, "transfer_in", -1)

PostOut(r) == PostLeg(r, Out, "transfer_out", -1)
PostIn(r) == PostLeg(r, In, "transfer_in", 1)

AnswerTransfer(r) ==
    /\ todo[r] = {}
    /\ Finish(r, "settle", "ok")
    /\ UNCHANGED <<ledger, transfers, lastTransfer, removed, arg, mine, todo, faults>>

\* updateStatus writes the status and nothing else: completing a pending
\* transfer moves no stock, cancelling a completed one moves none back.
FindTransfer(r) ==
    \E t \in transfers, s \in TransferStatus :
        Begin(r, [id |-> t.id, status |-> s], "setStatus")

SetStatus(r) ==
    \E t \in transfers :
        /\ Finish(r, "setStatus", "ok")
        /\ t.id = arg[r].id
        /\ transfers' = (transfers \ {t}) \cup {[t EXCEPT !.status = arg[r].status]}
        /\ UNCHANGED <<ledger, lastTransfer, removed, arg, mine, todo, faults>>

\* InventoryService.createEntry, for products whose stock is tracked.
FindProduct(r) ==
    \E b \in EntryBody :
        /\ b.product \in StockTracked
        /\ Begin(r, b, "insertEntry")

InsertEntry(r) ==
    /\ Finish(r, "insertEntry", "ok")
    /\ ledger' = ledger \cup {Row(r, arg[r].type, arg[r].qty, 0, 0)}
    /\ UNCHANGED <<transfers, lastTransfer, removed, arg, mine, todo, faults>>

\* InventoryService.deleteEntry: any row, those of documents too. The delete
\* itself fails (P2025) if somebody else deleted the row since it was found.
FindEntry(r) == \E e \in ledger : Begin(r, e, "deleteEntry")

DeleteEntry(r) ==
    /\ Finish(r, "deleteEntry", IF arg[r] \in ledger THEN "ok" ELSE "error")
    /\ ledger' = ledger \ {arg[r]}
    /\ removed' = removed \cup (ledger \cap {arg[r]})
    /\ UNCHANGED <<transfers, lastTransfer, arg, mine, todo, faults>>
-----------------------------------------------------------------------------
DbError(r) ==
    /\ faults < MaxFaults
    /\ faults' = faults + 1
    /\ \E now \in Waiting : Finish(r, now, "error")
    /\ UNCHANGED <<ledger, transfers, lastTransfer, removed, arg, mine, todo>>

LegError(r, leg) ==
    /\ leg \in todo[r]
    /\ faults < MaxFaults
    /\ faults' = faults + 1
    /\ todo' = [todo EXCEPT ![r] = @ \ {leg}]
    /\ pc' = [pc EXCEPT ![r] = "error"]
    /\ UNCHANGED <<ledger, transfers, lastTransfer, removed, arg, mine>>

Active(r) == pc[r] \in Waiting \cup {"settle"} \/ todo[r] # {}

Abandon ==
    /\ pc' = [r \in Request |-> IF pc[r] \in Waiting \cup {"settle"} THEN "crashed" ELSE pc[r]]
    /\ todo' = [r \in Request |-> {}]
    /\ UNCHANGED <<transfers, lastTransfer, removed, arg, mine, faults>>

Crash == (\E r \in Request : Active(r)) /\ Abandon /\ UNCHANGED ledger

Step(r) ==
    \/ CreateTransfer(r)
    \/ InsertTransfer(r)
    \/ PostOut(r)
    \/ PostIn(r)
    \/ AnswerTransfer(r)
    \/ FindTransfer(r)
    \/ SetStatus(r)
    \/ FindProduct(r)
    \/ InsertEntry(r)
    \/ FindEntry(r)
    \/ DeleteEntry(r)
    \/ DbError(r)
    \/ \E leg \in todo[r] : LegError(r, leg)

Next == (\E r \in Request : Step(r)) \/ Crash

Spec == Init /\ [][Next]_vars
-----------------------------------------------------------------------------
\* A transfer never creates or destroys stock: if one of its two rows is in
\* the ledger without the other, the request is still at it, was cut short by a
\* refused statement or a crash, or somebody deleted the other row by hand.
HalfTransferExplained ==
    \A e \in ledger : e.type \in {"transfer_out", "transfer_in"} /\ e.doc # 0 =>
        LET Other(f) == f.doc = e.doc /\ f.type \in {"transfer_out", "transfer_in"} /\ f # e
        IN  \/ \E f \in ledger : Other(f) /\ f.qty = -e.qty /\ f.product = e.product
            \/ \E f \in removed : Other(f)
            \/ Active(e.by) \/ pc[e.by] \in {"error", "crashed"}
=============================================================================
