------------------------------ MODULE Payments -------------------------------
(***************************************************************************)
(* PaymentsService: payments of sales and purchases, and the paid amount   *)
(* and payment status every change of them recomputes on the document. As  *)
(* in DocumentTable a step ends with one SQL statement, the steps of       *)
(* several requests interleave, and nothing is in a transaction: the sum   *)
(* of a document's payments is read by one statement and stored by         *)
(* another.                                                                *)
(*                                                                         *)
(* A document is a sale or a purchase; both are treated alike. Documents   *)
(* exist from the start, with what was paid when they were made (the POS   *)
(* terminal takes the money with the sale) and the status their create     *)
(* stored: the one the body brings, or else the one that goes with the     *)
(* amount. Their totals never change: no update writes totalAmount, so the *)
(* statement that reads it back between the two above is left out.         *)
(***************************************************************************)
EXTENDS Integers, Sequences, FiniteSetsExt

CONSTANTS Document,  \* ids of sales and purchases
          Total,     \* totalAmount of each
          UpFront,   \* the paidAmount each was created with
          Sent,      \* the paymentStatus each was created with ("none": left to the service)
          Body,      \* bodies of POST /payments
          Selection, \* the sales ticked in the list for a bulk payment
          Patch,     \* bodies of PATCH of a document: a paid amount, a status or both
          Request,
          MaxFaults  \* bound on refused statements

VARIABLES paid, status, deleted, \* of each document
          payments, lastId,      \* the rows of payments, AUTO_INCREMENT
          pc,      \* where each request stands
          queue,   \* bodies it has still to record
          left,    \* documents of the current one still to check or recompute
          arg,     \* payment to delete, or document to patch or delete
          sum,     \* the aggregate it has read
          overlap, \* history: documents two requests recomputed at a time
          patched, \* history: documents whose paid amount was set by hand
          marked,  \* history: documents whose status or amount a body wrote last
          faults   \* statements refused so far

vars == <<paid, status, deleted, payments, lastId, pc, queue, left, arg, sum,
          overlap, patched, marked, faults>>

Status == {"due", "partial", "paid", "overdue"}
Payment == [id : Nat \ {0}, docs : Seq(Document) \ {<<>>}, amount : Nat \ {0}, by : Request]

NoArg == [id |-> 0]
Waiting  == {"check", "insert", "delete", "sum", "write", "patch", "remove"}
Answered == {"ok", "error", "crashed"}

\* A body names a sale, a purchase or one of each, in this order.
ASSUME PaymentAssumption ==
    /\ Total \in [Document -> Nat] /\ UpFront \in [Document -> Nat]
    /\ Sent \subseteq [Document -> Status \cup {"none"}]
    /\ Body \subseteq [docs : Seq(Document) \ {<<>>}, amount : Nat \ {0}]
    /\ Selection \subseteq Seq(Document) \ {<<>>}
    /\ Patch \subseteq [paid : Nat, status : Status] \cup [paid : Nat] \cup [status : Status]
    /\ MaxFaults \in Nat

\* Documents, payments and requests are well typed.
TypeOK ==
    /\ paid \in [Document -> Nat]
    /\ status \in [Document -> Status]
    /\ deleted \in [Document -> BOOLEAN]
    /\ payments \subseteq Payment
    /\ lastId \in Nat
    /\ pc \in [Request -> {"new"} \cup Waiting \cup Answered]
    /\ left \in [Request -> Seq(Document)]
    /\ sum \in [Request -> Nat]
    /\ overlap \subseteq Document
    /\ patched \subseteq Document
    /\ marked \subseteq Document
    /\ faults \in 0..MaxFaults
-----------------------------------------------------------------------------
\* Mutant: a balance of exactly zero is not enough.
StatusForMore(d, amount) ==
    IF amount > Total[d] THEN "paid" ELSE IF amount > 0 THEN "partial" ELSE "due"

\* The payment status that goes with a paid amount.
StatusFor(d, amount) ==
    IF amount >= Total[d] THEN "paid" ELSE IF amount > 0 THEN "partial" ELSE "due"

On(p, d) == \E i \in DOMAIN p.docs : p.docs[i] = d

AmountOf(rows) == SumFunctionOnSet([p \in rows |-> p.amount], rows)

\* The aggregate of a document's payments.
SumOf(d) == AmountOf({p \in payments : On(p, d)})

Init ==
    /\ paid = UpFront
    /\ \E sent \in Sent :
           /\ status = [d \in Document |-> IF sent[d] = "none" THEN StatusFor(d, UpFront[d])
                                          ELSE sent[d]]
           /\ marked = {d \in Document : sent[d] # "none"}
    /\ deleted = [d \in Document |-> FALSE]
    /\ payments = {}
    /\ lastId = 0
    /\ pc = [r \in Request |-> "new"]
    /\ queue = [r \in Request |-> <<>>]
    /\ left = [r \in Request |-> <<>>]
    /\ arg = [r \in Request |-> NoArg]
    /\ sum = [r \in Request |-> 0]
    /\ overlap = {}
    /\ patched = {}
    /\ faults = 0

Goto(r, now, next) == pc[r] = now /\ pc' = [pc EXCEPT ![r] = next]

\* create and createBulk record the bodies one after the other.
Record(r, bodies) ==
    /\ Goto(r, "new", "check")
    /\ queue' = [queue EXCEPT ![r] = bodies]
    /\ left' = [left EXCEPT ![r] = Head(bodies).docs]
    /\ UNCHANGED <<paid, status, deleted, payments, lastId, arg, sum, overlap,
                   patched, marked, faults>>

Create(r) == \E b \in Body : Record(r, <<b>>)

\* The sales list lets the user tick unpaid sales and pays the balance it shows
\* for each (the list is one query; what it shows may be stale when it is sent).
CreateBulk(r) ==
    \E s \in Selection :
        LET Unpaid(d) == ~deleted[d] /\ status[d] # "paid" /\ paid[d] < Total[d]
        IN  /\ \A i \in DOMAIN s : Unpaid(s[i])
            /\ Record(r, [i \in DOMAIN s |-> [docs |-> <<s[i]>>,
                                              amount |-> Total[s[i]] - paid[s[i]]]])

\* findFirst of the sale, then of the purchase: 404 if it is deleted. What a
\* bulk has recorded before stays recorded.
Check(r) ==
    LET gone == deleted[Head(left[r])]
        rest == IF gone THEN <<>> ELSE Tail(left[r])
    IN  /\ pc[r] = "check"
        /\ left' = [left EXCEPT ![r] = rest]
        /\ pc' = [pc EXCEPT ![r] = IF gone THEN "error"
                                   ELSE IF rest = <<>> THEN "insert" ELSE "check"]
        /\ UNCHANGED <<paid, status, deleted, payments, lastId, queue, arg, sum,
                       overlap, patched, marked, faults>>

\* The requests between a change of d's payments and the storing of the sum.
Recomputing(d) == {r \in Request : /\ pc[r] \in {"sum", "write"}
                                   /\ \E i \in DOMAIN left[r] : left[r][i] = d}

\* Request r has changed the payments of docs and goes on to recompute them.
Recompute(r, docs) ==
    /\ left' = [left EXCEPT ![r] = docs]
    /\ overlap' = overlap \cup {d \in Document : /\ \E i \in DOMAIN docs : docs[i] = d
                                                 /\ Recomputing(d) # {}}

InsertPayment(r) ==
    LET b == Head(queue[r])
    IN  /\ Goto(r, "insert", "sum")
        /\ lastId' = lastId + 1
        /\ payments' = payments \cup {[id |-> lastId + 1, docs |-> b.docs,
                                       amount |-> b.amount, by |-> r]}
        /\ queue' = [queue EXCEPT ![r] = Tail(@)]
        /\ Recompute(r, b.docs)
        /\ UNCHANGED <<paid, status, deleted, arg, sum, patched, marked, faults>>

SumPayments(r) ==
    /\ Goto(r, "sum", "write")
    /\ sum' = [sum EXCEPT ![r] = SumOf(Head(left[r]))]
    /\ UNCHANGED <<paid, status, deleted, payments, lastId, queue, left, arg,
                   overlap, patched, marked, faults>>

\* Mutant: the sum is added to the paid amount instead of replacing it.
AddPaid(r) ==
    LET d == Head(left[r])
    IN  /\ Goto(r, "write", "ok")
        /\ paid' = [paid EXCEPT ![d] = @ + sum[r]]
        /\ status' = [status EXCEPT ![d] = StatusFor(d, paid[d] + sum[r])]
        /\ left' = [left EXCEPT ![r] = <<>>]
        /\ marked' = marked \ {d}
        /\ UNCHANGED <<deleted, payments, lastId, queue, arg, sum, overlap, patched, faults>>

\* The sum is stored, whoever changed the payments or the document meanwhile;
\* then the purchase of the same payment, the next payment, or the answer.
WritePaid(r) ==
    LET d    == Head(left[r])
        rest == Tail(left[r])
    IN  /\ pc[r] = "write"
        /\ paid' = [paid EXCEPT ![d] = sum[r]]
        /\ status' = [status EXCEPT ![d] = StatusFor(d, sum[r])]
        /\ \/ /\ rest # <<>>
              /\ pc' = [pc EXCEPT ![r] = "sum"]
              /\ left' = [left EXCEPT ![r] = rest]
           \/ /\ rest = <<>> /\ queue[r] # <<>>
              /\ pc' = [pc EXCEPT ![r] = "check"]
              /\ left' = [left EXCEPT ![r] = Head(queue[r]).docs]
           \/ /\ rest = <<>> /\ queue[r] = <<>>
              /\ pc' = [pc EXCEPT ![r] = "ok"]
              /\ left' = [left EXCEPT ![r] = <<>>]
        /\ marked' = marked \ {d}
        /\ UNCHANGED <<deleted, payments, lastId, queue, arg, sum, overlap, patched, faults>>

\* A lookup before a write by id.
Find(r, a, next) ==
    /\ Goto(r, "new", next)
    /\ arg' = [arg EXCEPT ![r] = a]
    /\ UNCHANGED <<paid, status, deleted, payments, lastId, queue, left, sum,
                   overlap, patched, marked, faults>>

FindPayment(r) == \E p \in payments : Find(r, p, "delete")

\* remove: the delete fails if the row is gone since (P2025).
DeletePayment(r) ==
    /\ IF arg[r] \in payments
       THEN /\ Goto(r, "delete", "sum")
            /\ payments' = payments \ {arg[r]}
            /\ Recompute(r, arg[r].docs)
       ELSE /\ Goto(r, "delete", "error")
            /\ UNCHANGED <<payments, left, overlap>>
    /\ UNCHANGED <<paid, status, deleted, lastId, queue, arg, sum, patched, marked, faults>>

\* PATCH of a sale or purchase writes what it brings (SalesService.update).
FindToPatch(r) ==
    \E d \in Document, b \in Patch : ~deleted[d] /\ Find(r, [doc |-> d, body |-> b], "patch")

PatchDocument(r) ==
    LET d == arg[r].doc
        b == arg[r].body
    IN  /\ Goto(r, "patch", "ok")
        /\ paid' = IF "paid" \in DOMAIN b THEN [paid EXCEPT ![d] = b.paid] ELSE paid
        /\ status' = IF "status" \in DOMAIN b THEN [status EXCEPT ![d] = b.status] ELSE status
        /\ patched' = IF "paid" \in DOMAIN b THEN patched \cup {d} ELSE patched
        /\ marked' = marked \cup {d}
        /\ UNCHANGED <<deleted, payments, lastId, queue, left, arg, sum, overlap, faults>>

\* Soft delete of the document. Its payments stay and can still be removed.
FindToRemove(r) == \E d \in Document : ~deleted[d] /\ Find(r, [doc |-> d], "remove")

RemoveDocument(r) ==
    /\ Goto(r, "remove", "ok")
    /\ deleted' = [deleted EXCEPT ![arg[r].doc] = TRUE]
    /\ UNCHANGED <<paid, status, payments, lastId, queue, left, arg, sum, overlap,
                   patched, marked, faults>>

\* A statement is refused. What the request wrote stays; left keeps the
\* documents it has changed the payments of and not recomputed.
DbError(r) ==
    /\ faults < MaxFaults
    /\ faults' = faults + 1
    /\ \E now \in Waiting : Goto(r, now, "error")
    /\ left' = [left EXCEPT ![r] = IF pc[r] = "check" THEN <<>> ELSE @]
    /\ UNCHANGED <<paid, status, deleted, payments, lastId, queue, arg, sum, overlap,
                   patched, marked>>

Crash ==
    /\ \E r \in Request : pc[r] \in Waiting
    /\ pc' = [r \in Request |-> IF pc[r] \in Waiting THEN "crashed" ELSE pc[r]]
    /\ left' = [r \in Request |-> IF pc[r] = "check" THEN <<>> ELSE left[r]]
    /\ UNCHANGED <<paid, status, deleted, payments, lastId, queue, arg, sum, overlap,
                   patched, marked, faults>>

Step(r) ==
    \/ Create(r)
    \/ CreateBulk(r)
    \/ Check(r)
    \/ InsertPayment(r)
    \/ SumPayments(r)
    \/ WritePaid(r)
    \/ FindPayment(r)
    \/ DeletePayment(r)
    \/ FindToPatch(r)
    \/ PatchDocument(r)
    \/ FindToRemove(r)
    \/ RemoveDocument(r)
    \/ DbError(r)

Next == (\E r \in Request : Step(r)) \/ Crash

Spec == Init /\ [][Next]_vars
-----------------------------------------------------------------------------
(***************************************************************************)
(* Properties.                                                             *)
(***************************************************************************)
\* A request changed d's payments and was cut short before it stored the sum.
CutShort(d) == \E r \in Request : /\ pc[r] \in {"error", "crashed"}
                                  /\ \E i \in DOMAIN left[r] : left[r][i] = d

\* Nothing but payments one at a time ever happened to d, and none is going on.
Undisturbed(d) == Recomputing(d) = {} /\ ~CutShort(d) /\ d \notin overlap \cup patched

\* Whatever payments are recorded and deleted, alone or in bulk, a document's
\* paid amount is the sum of its payments (or still what was paid up front),
\* unless two requests recomputed it at a time (the later write may store the
\* older sum), one was cut short in between, or somebody set the amount by hand.
DriftExplained ==
    \A d \in Document : Undisturbed(d) =>
        paid[d] = SumOf(d) \/ (paid[d] = UpFront[d] /\ SumOf(d) = 0)

\* The status, which the sales and contacts lists go by, agrees with the paid
\* amount next to it, overlapping requests, refusals and crashes included: paid
\* exactly when nothing is due, partial exactly when a part is. What a body wrote,
\* at creation or later, may disagree, but only until a payment recomputes it.
StatusAgrees ==
    \A d \in Document \ marked :
        /\ status[d] = "paid" <=> paid[d] >= Total[d]
        /\ status[d] = "partial" <=> paid[d] > 0 /\ paid[d] < Total[d]

\* "Record Full Payments": when what was paid up front and the payments recorded
\* since cover the total, the document is paid (unless a body says otherwise).
FullPaymentSettles ==
    \A d \in Document : Undisturbed(d) /\ d \notin marked /\ UpFront[d] + SumOf(d) >= Total[d]
                          => status[d] = "paid"
=============================================================================
