------------------------------ MODULE BooksProofs -----------------------------
(***************************************************************************)
(* What holds of the two books that are sums of rows: what is paid on a    *)
(* document, and what is in stock of a product, whatever the documents,    *)
(* products, requests and bodies.                                          *)
(*                                                                         *)
(* Payments: the invariant says what each request holds, that a status     *)
(* no body wrote last goes with the paid amount next to it, and of a       *)
(* document nothing has happened to but payments one at a time: at most    *)
(* one request is recomputing it, what that one has read is still the sum, *)
(* and when none is, the sum is what is stored.                            *)
(*                                                                         *)
(* Stock: over the rows there are and were, split by who inserted them,    *)
(* the two services behave as they do alone (a refinement), so all that    *)
(* SalesProofs and PurchasesProofs say of them carries over; a transfer's  *)
(* rows and entries by hand are accounted for here; and the sum of all the *)
(* parts is the stock.                                                     *)
(***************************************************************************)
EXTENDS Payments, Stock, SumProofs

ABody == [docs : Seq(Document) \ {<<>>}, amount : Nat \ {0}]

\* What a request holds.
Holds(r) ==
    /\ queue[r] \in Seq(ABody)
    /\ pc[r] \in {"check", "insert"} => queue[r] # <<>>
    /\ pc[r] \in {"check", "sum", "write"} => left[r] # <<>>
    /\ pc[r] = "delete" => arg[r] \in Payment
    /\ pc[r] = "patch" => arg[r].doc \in Document /\ arg[r].body \in Patch

StatusGoes == \A d \in Document \ marked : status[d] = StatusFor(d, paid[d])

\* The document d lies among s.
Among(d, s) == \E i \in DOMAIN s : s[i] = d

Drift(d) ==
    /\ \A r, q \in Recomputing(d) : r = q
    /\ \A r \in Recomputing(d) : pc[r] = "write" /\ Head(left[r]) = d => sum[r] = SumOf(d)
    /\ Recomputing(d) = {} => paid[d] = SumOf(d) \/ (paid[d] = UpFront[d] /\ SumOf(d) = 0)

\* Each request has its own.
Kept == queue = [r \in Request |-> queue[r]] /\ arg = [r \in Request |-> arg[r]]

IPayments ==
    /\ TypeOK /\ Kept
    /\ IsFiniteSet(payments)
    /\ \A r \in Request : Holds(r)
    /\ StatusGoes
    /\ \A d \in Document : CutShort(d) \/ d \in overlap \cup patched \/ Drift(d)
-----------------------------------------------------------------------------
\* The aggregate is a natural number.
LEMMA AmountIsNat ==
  ASSUME NEW rows, IsFiniteSet(rows), \A p \in rows : p.amount \in Nat
  PROVE  AmountOf(rows) \in Nat
BY SumIsNat DEF AmountOf, Sum

LEMMA AmountOfNone == AmountOf({}) = 0
BY SumOfNone DEF AmountOf, Sum

LEMMA SumOfIsNat == TypeOK /\ IsFiniteSet(payments) => \A d : SumOf(d) \in Nat
<1> SUFFICES ASSUME TypeOK, IsFiniteSet(payments), NEW d PROVE SumOf(d) \in Nat
  OBVIOUS
<1>1. \A p \in {p \in payments : On(p, d)} : p.amount \in Nat
  BY DEF TypeOK, Payment
<1>2. IsFiniteSet({p \in payments : On(p, d)})
  BY FS_Subset
<1> QED
  BY <1>1, <1>2, AmountIsNat DEF SumOf

LEMMA PaymentsImply == IPayments => DriftExplained /\ StatusAgrees
<1> SUFFICES ASSUME IPayments PROVE DriftExplained /\ StatusAgrees
  OBVIOUS
<1>1. DriftExplained
  BY DEF IPayments, DriftExplained, Undisturbed, Drift
<1>2. StatusAgrees
  <2>1. ASSUME NEW d \in Document \ marked
        PROVE  /\ status[d] = "paid" <=> paid[d] >= Total[d]
               /\ status[d] = "partial" <=> paid[d] > 0 /\ paid[d] < Total[d]
    <3>1. status[d] = StatusFor(d, paid[d]) /\ paid[d] \in Nat
      BY <2>1 DEF IPayments, StatusGoes, TypeOK
    <3> QED
      BY <3>1, PaymentAssumption DEF StatusFor
  <2> QED
    BY <2>1 DEF StatusAgrees
<1> QED
  BY <1>1, <1>2

LEMMA PaymentsInitial == Init => IPayments
<1> SUFFICES ASSUME Init PROVE IPayments
  OBVIOUS
<1>0. PICK sent \in Sent :
         /\ status = [d \in Document |-> IF sent[d] = "none" THEN StatusFor(d, UpFront[d])
                                        ELSE sent[d]]
         /\ marked = {d \in Document : sent[d] # "none"}
  BY DEF Init
<1>1. TypeOK
  <2>1. \A d \in Document : sent[d] \in Status \cup {"none"}
    BY <1>0, PaymentAssumption
  <2>2. status \in [Document -> Status] /\ marked \subseteq Document
    BY <1>0, <2>1 DEF StatusFor, Status
  <2> QED
    BY <2>2, PaymentAssumption DEF Init, TypeOK, Waiting, Answered
<1>2. IsFiniteSet(payments)
  BY FS_EmptySet DEF Init
<1>3. \A r \in Request : Holds(r)
  BY DEF Init, Holds
<1>4. StatusGoes /\ Kept
  BY <1>0, PaymentAssumption DEF Init, StatusGoes, Kept
<1>5. ASSUME NEW d \in Document PROVE Drift(d)
  <2>1. SumOf(d) = 0
    <3>1. {p \in payments : On(p, d)} = {}
      BY DEF Init
    <3> QED
      BY <3>1, AmountOfNone DEF SumOf
  <2> QED
    BY <2>1 DEF Init, Drift, Recomputing
<1> QED
  BY <1>1, <1>2, <1>3, <1>4, <1>5 DEF IPayments
-----------------------------------------------------------------------------
\* Only request r moves.
Alone(r) ==
    \A q \in Request \ {r} :
        /\ pc'[q] = pc[q] /\ left'[q] = left[q] /\ sum'[q] = sum[q]
        /\ queue'[q] = queue[q] /\ arg'[q] = arg[q]

\* What is to be known of a document.
Known(d) == CutShort(d) \/ d \in overlap \cup patched \/ Drift(d)

LEMMA HoldsStays ==
  ASSUME NEW r \in Request, Alone(r), \A q \in Request : Holds(q), Holds(r)'
  PROVE  \A q \in Request : Holds(q)'
<1>1. ASSUME NEW q \in Request, q # r PROVE Holds(q)'
  BY <1>1 DEF Alone, Holds
<1> QED
  BY <1>1

\* A request that recomputes nothing leaves what is known of a document.
LEMMA KnownStays ==
  ASSUME NEW r \in Request, Alone(r), NEW d \in Document, Known(d),
         pc[r] \notin {"sum", "write", "error", "crashed"}, pc'[r] \notin {"sum", "write"},
         payments' = payments, overlap' = overlap, patched \subseteq patched',
         d \in patched' \/ paid'[d] = paid[d]
  PROVE  Known(d)'
<1>1. CutShort(d) => CutShort(d)'
  BY DEF Alone, CutShort
<1>2. Recomputing(d)' = Recomputing(d)
  BY DEF Alone, Recomputing
<1>3. SumOf(d)' = SumOf(d)
  BY DEF SumOf, On
<1>4. \A q \in Recomputing(d) : pc'[q] = pc[q] /\ left'[q] = left[q] /\ sum'[q] = sum[q]
  BY DEF Alone, Recomputing
<1>5. Drift(d) /\ paid'[d] = paid[d] => Drift(d)'
  BY <1>2, <1>3, <1>4 DEF Drift
<1> QED
  BY <1>1, <1>5 DEF Known

LEMMA StepsAlone == ASSUME IPayments, NEW r \in Request, Step(r) PROVE Alone(r) /\ Kept'
<1> USE DEF IPayments, TypeOK, Kept, Alone, Goto, Find
<1>1. CASE Create(r) \/ CreateBulk(r)
  BY <1>1 DEF Create, CreateBulk, Record
<1>2. CASE Check(r)
  BY <1>2 DEF Check
<1>3. CASE InsertPayment(r)
  BY <1>3 DEF InsertPayment, Recompute
<1>4. CASE SumPayments(r) \/ WritePaid(r)
  BY <1>4 DEF SumPayments, WritePaid
<1>5. CASE FindPayment(r) \/ FindToPatch(r) \/ FindToRemove(r)
  BY <1>5 DEF FindPayment, FindToPatch, FindToRemove
<1>6. CASE DeletePayment(r)
  BY <1>6 DEF DeletePayment, Recompute
<1>7. CASE PatchDocument(r) \/ RemoveDocument(r)
  BY <1>7 DEF PatchDocument, RemoveDocument
<1>8. CASE DbError(r)
  BY <1>8 DEF DbError
<1> QED
  BY <1>1, <1>2, <1>3, <1>4, <1>5, <1>6, <1>7, <1>8 DEF Step

LEMMA CreateKeeps ==
  ASSUME IPayments, NEW r \in Request, Alone(r), Kept', NEW bodies \in Seq(ABody) \ {<<>>},
         Record(r, bodies)
  PROVE  IPayments'
<1>1. Head(bodies) \in ABody
  OBVIOUS
<1>2. TypeOK'
  <2>1. left' \in [Request -> Seq(Document)]
    BY <1>1 DEF Record, IPayments, TypeOK, ABody
  <2>2. pc' \in [Request -> {"new"} \cup Waiting \cup Answered]
    BY DEF Record, Goto, IPayments, TypeOK, Waiting
  <2> QED
    BY <2>1, <2>2 DEF Record, IPayments, TypeOK
<1>3. /\ pc[r] = "new" /\ pc'[r] = "check" /\ queue'[r] = bodies
      /\ left'[r] = Head(bodies).docs
  BY DEF Record, Goto, IPayments, TypeOK, Kept
<1>4. \A q \in Request : Holds(q)'
  <2>1. Holds(r)'
    BY <1>1, <1>3 DEF Holds, ABody
  <2> QED
    BY <2>1, HoldsStays DEF IPayments
<1>5. StatusGoes'
  BY DEF Record, IPayments, StatusGoes
<1>6. \A d \in Document : Known(d)'
  BY <1>3, KnownStays DEF IPayments, Known, Record
<1> QED
  BY <1>2, <1>4, <1>5, <1>6 DEF IPayments, Known, Record

LEMMA CreatesKeep ==
  ASSUME IPayments, NEW r \in Request, Alone(r), Kept', Create(r) \/ CreateBulk(r)
  PROVE  IPayments'
<1>1. ASSUME Create(r) PROVE IPayments'
  <2>1. PICK b \in Body : Record(r, <<b>>)
    BY <1>1 DEF Create
  <2>2. b \in ABody
    BY PaymentAssumption DEF ABody
  <2>3. <<b>> \in Seq(ABody) \ {<<>>}
    BY <2>2
  <2> QED
    BY <2>1, <2>3, CreateKeeps
<1>2. ASSUME CreateBulk(r) PROVE IPayments'
  <2> DEFINE B(s) == [i \in DOMAIN s |-> [docs |-> <<s[i]>>, amount |-> Total[s[i]] - paid[s[i]]]]
  <2>1. PICK s \in Selection : /\ \A i \in DOMAIN s : paid[s[i]] < Total[s[i]]
                               /\ Record(r, B(s))
    BY <1>2 DEF CreateBulk
  <2>2. s \in Seq(Document) /\ s # <<>>
    BY PaymentAssumption
  <2>3. ASSUME NEW i \in DOMAIN s PROVE B(s)[i] \in ABody
    <3>1. s[i] \in Document
      BY <2>2
    <3>2. paid[s[i]] \in Nat /\ Total[s[i]] \in Nat
      BY <3>1, PaymentAssumption DEF IPayments, TypeOK
    <3>3. Total[s[i]] - paid[s[i]] \in Nat \ {0}
      BY <2>1, <3>2
    <3>4. <<s[i]>> \in Seq(Document) \ {<<>>}
      BY <3>1
    <3> QED
      BY <3>3, <3>4 DEF ABody
  <2>4. B(s) \in Seq(ABody) \ {<<>>}
    <3>1. DOMAIN B(s) = 1..Len(s) /\ Len(s) \in Nat
      BY <2>2
    <3>2. B(s) \in [1..Len(s) -> ABody]
      BY <2>3, <3>1
    <3>3. B(s) \in Seq(ABody)
      BY <3>1, <3>2
    <3>4. B(s) # <<>>
      BY <2>2, <3>1
    <3> QED
      BY <3>3, <3>4
  <2> HIDE DEF B
  <2> QED
    BY <2>1, <2>4, CreateKeeps
<1> QED
  BY <1>1, <1>2
LEMMA CheckKeeps ==
  ASSUME IPayments, NEW r \in Request, Alone(r), Kept', Check(r)
  PROVE  IPayments'
<1>1. /\ pc[r] = "check" /\ pc'[r] \in {"check", "insert", "error"} /\ queue'[r] = queue[r]
      /\ queue[r] # <<>> /\ left[r] \in Seq(Document) \ {<<>>}
      /\ left'[r] \in Seq(Document) /\ (pc'[r] = "check" => left'[r] # <<>>)
  <2>1. left[r] \in Seq(Document) \ {<<>>} /\ queue[r] # <<>>
    BY DEF IPayments, TypeOK, Holds, Check
  <2>2. Tail(left[r]) \in Seq(Document)
    BY <2>1
  <2> QED
    BY <2>1, <2>2 DEF Check, IPayments, TypeOK
<1>2. TypeOK'
  BY <1>1 DEF Check, IPayments, TypeOK, Waiting, Answered
<1>3. \A q \in Request : Holds(q)'
  <2>1. Holds(r)'
    BY <1>1 DEF IPayments, Holds
  <2> QED
    BY <2>1, HoldsStays DEF IPayments
<1>4. StatusGoes'
  BY DEF Check, IPayments, StatusGoes
<1>5. \A d \in Document : Known(d)'
  BY <1>1, KnownStays DEF IPayments, Known, Check
<1> QED
  BY <1>2, <1>3, <1>4, <1>5 DEF IPayments, Known, Check

\* The lookups before a write by id.
LEMMA FindsKeep ==
  ASSUME IPayments, NEW r \in Request, Alone(r), Kept',
         FindPayment(r) \/ FindToPatch(r) \/ FindToRemove(r)
  PROVE  IPayments'
<1> DEFINE Found(a, next) == /\ Find(r, a, next) /\ next \in {"delete", "patch", "remove"}
                             /\ next = "delete" => a \in Payment
                             /\ next = "patch" => a.doc \in Document /\ a.body \in Patch
<1>1. PICK a, next : Found(a, next)
  <2>1. ASSUME FindPayment(r) PROVE \E a, next : Found(a, next)
    <3>1. PICK p \in payments : Find(r, p, "delete")
      BY <2>1 DEF FindPayment
    <3>2. Found(p, "delete")
      BY <3>1 DEF IPayments, TypeOK
    <3> QED
      BY <3>2
  <2>2. ASSUME FindToPatch(r) PROVE \E a, next : Found(a, next)
    <3>1. PICK d \in Document, b \in Patch : Find(r, [doc |-> d, body |-> b], "patch")
      BY <2>2 DEF FindToPatch
    <3>2. Found([doc |-> d, body |-> b], "patch")
      BY <3>1
    <3> QED
      BY <3>2
  <2>3. ASSUME FindToRemove(r) PROVE \E a, next : Found(a, next)
    <3>1. PICK d \in Document : Find(r, [doc |-> d], "remove")
      BY <2>3 DEF FindToRemove
    <3>2. Found([doc |-> d], "remove")
      BY <3>1
    <3> QED
      BY <3>2
  <2> QED
    BY <2>1, <2>2, <2>3
<1>2. pc[r] = "new" /\ pc'[r] = next /\ arg'[r] = a /\ queue'[r] = queue[r]
  BY <1>1 DEF Find, Goto, IPayments, TypeOK, Kept
<1>3. TypeOK'
  BY <1>1 DEF Find, Goto, IPayments, TypeOK, Waiting
<1>4. \A q \in Request : Holds(q)'
  <2>1. Holds(r)'
    BY <1>1, <1>2 DEF IPayments, Holds
  <2> QED
    BY <2>1, HoldsStays DEF IPayments
<1>5. StatusGoes'
  BY <1>1 DEF Find, IPayments, StatusGoes
<1>6. \A d \in Document : Known(d)'
  BY <1>1, <1>2, KnownStays DEF IPayments, Known, Find
<1> QED
  BY <1>1, <1>3, <1>4, <1>5, <1>6 DEF IPayments, Known, Find

LEMMA PatchKeeps ==
  ASSUME IPayments, NEW r \in Request, Alone(r), Kept', PatchDocument(r)
  PROVE  IPayments'
<1>1. PICK d \in Document, b \in Patch : d = arg[r].doc /\ b = arg[r].body
  BY DEF PatchDocument, Goto, IPayments, Holds
<1>2. /\ "paid" \in DOMAIN b => b.paid \in Nat
      /\ "status" \in DOMAIN b => b.status \in Status
  BY PaymentAssumption
<1>3. /\ paid' \in [Document -> Nat] /\ status' \in [Document -> Status]
      /\ \A e \in Document \ {d} : paid'[e] = paid[e] /\ status'[e] = status[e]
      /\ patched \subseteq patched' /\ patched' \subseteq patched \cup {d}
      /\ d \in patched' \/ paid'[d] = paid[d]
      /\ marked' = marked \cup {d}
  BY <1>1, <1>2 DEF PatchDocument, IPayments, TypeOK
<1>4. pc[r] = "patch" /\ pc'[r] = "ok" /\ queue'[r] = queue[r]
  BY DEF PatchDocument, Goto, IPayments, TypeOK
<1>5. TypeOK'
  BY <1>1, <1>3 DEF PatchDocument, Goto, IPayments, TypeOK, Answered
<1>6. \A q \in Request : Holds(q)'
  <2>1. Holds(r)'
    BY <1>4 DEF IPayments, Holds
  <2> QED
    BY <2>1, HoldsStays DEF IPayments
<1>7. StatusGoes'
  BY <1>1, <1>3 DEF IPayments, StatusGoes
<1>8. \A e \in Document : Known(e)'
  BY <1>1, <1>3, <1>4, KnownStays DEF IPayments, Known, PatchDocument
<1> QED
  BY <1>5, <1>6, <1>7, <1>8 DEF IPayments, Known, PatchDocument

LEMMA RemoveKeeps ==
  ASSUME IPayments, NEW r \in Request, Alone(r), Kept', RemoveDocument(r)
  PROVE  IPayments'
<1>1. pc[r] = "remove" /\ pc'[r] = "ok" /\ queue'[r] = queue[r]
  BY DEF RemoveDocument, Goto, IPayments, TypeOK
<1>2. TypeOK'
  BY DEF RemoveDocument, Goto, IPayments, TypeOK, Answered
<1>3. \A q \in Request : Holds(q)'
  <2>1. Holds(r)'
    BY <1>1 DEF IPayments, Holds
  <2> QED
    BY <2>1, HoldsStays DEF IPayments
<1>4. StatusGoes'
  BY DEF RemoveDocument, IPayments, StatusGoes
<1>5. \A d \in Document : Known(d)'
  BY <1>1, KnownStays DEF IPayments, Known, RemoveDocument
<1> QED
  BY <1>2, <1>3, <1>4, <1>5 DEF IPayments, Known, RemoveDocument
-----------------------------------------------------------------------------
\* Request r has changed the payments of docs and goes on to recompute them; of
\* the other documents the payments are what they were.
LEMMA RecomputeKeeps ==
  ASSUME IPayments, NEW r \in Request, Alone(r), NEW docs, Recompute(r, docs),
         pc[r] \notin {"sum", "write", "error", "crashed"}, pc'[r] = "sum",
         \A d \in Document : ~Among(d, docs) => SumOf(d)' = SumOf(d),
         paid' = paid, patched' = patched, NEW d \in Document, Known(d)
  PROVE  Known(d)'
<1>1. CutShort(d) => CutShort(d)'
  BY DEF Alone, CutShort
<1>2. left'[r] = docs
  BY DEF Recompute, IPayments, TypeOK
<1>3. overlap \subseteq overlap'
  BY DEF Recompute
<1>4. ASSUME ~Among(d, docs), Drift(d) PROVE Drift(d)'
  <2>1. Recomputing(d)' = Recomputing(d)
    BY <1>2, <1>4 DEF Alone, Recomputing, Among
  <2>2. \A q \in Recomputing(d) : pc'[q] = pc[q] /\ left'[q] = left[q] /\ sum'[q] = sum[q]
    BY DEF Alone, Recomputing
  <2> QED
    BY <1>4, <2>1, <2>2 DEF Drift
<1>5. ASSUME Among(d, docs), Recomputing(d) # {} PROVE d \in overlap'
  BY <1>5 DEF Recompute, Among
<1>6. ASSUME Among(d, docs), Recomputing(d) = {} PROVE Drift(d)'
  <2>1. Recomputing(d)' = {r}
    BY <1>2, <1>6 DEF Alone, Recomputing, Among
  <2> QED
    BY <2>1 DEF Drift
<1> QED
  BY <1>1, <1>3, <1>4, <1>5, <1>6 DEF Known

LEMMA InsertKeeps ==
  ASSUME IPayments, NEW r \in Request, Alone(r), Kept', InsertPayment(r)
  PROVE  IPayments'
<1>1. PICK b \in ABody : b = Head(queue[r]) /\ Tail(queue[r]) \in Seq(ABody)
  BY DEF InsertPayment, Goto, IPayments, Holds
<1>2. PICK p \in Payment : /\ p.docs = b.docs /\ p.amount = b.amount
                           /\ payments' = payments \cup {p}
  <2>1. [id |-> lastId + 1, docs |-> b.docs, amount |-> b.amount, by |-> r] \in Payment
    <3>1. lastId + 1 \in Nat \ {0}
      BY DEF IPayments, TypeOK
    <3> QED
      BY <1>1, <3>1 DEF Payment, ABody
  <2> QED
    BY <1>1, <2>1 DEF InsertPayment
<1>3. /\ pc[r] = "insert" /\ pc'[r] = "sum" /\ queue'[r] = Tail(queue[r])
      /\ left'[r] = b.docs /\ Recompute(r, b.docs)
  BY <1>1 DEF InsertPayment, Goto, Recompute, IPayments, TypeOK, Kept
<1>4. TypeOK'
  <2>1. left' \in [Request -> Seq(Document)] /\ overlap' \subseteq Document
    BY <1>1, <1>3 DEF Recompute, IPayments, TypeOK, ABody
  <2>2. lastId' \in Nat /\ payments' \subseteq Payment
    BY <1>2 DEF InsertPayment, IPayments, TypeOK
  <2>3. pc' \in [Request -> {"new"} \cup Waiting \cup Answered]
    BY DEF InsertPayment, Goto, IPayments, TypeOK, Waiting
  <2> QED
    BY <2>1, <2>2, <2>3 DEF InsertPayment, IPayments, TypeOK
<1>5. IsFiniteSet(payments')
  BY <1>2, FS_AddElement DEF IPayments
<1>6. \A q \in Request : Holds(q)'
  <2>1. Holds(r)'
    BY <1>1, <1>3 DEF Holds, ABody
  <2> QED
    BY <2>1, HoldsStays DEF IPayments
<1>7. StatusGoes'
  BY DEF InsertPayment, IPayments, StatusGoes
<1>8. \A d \in Document : Known(d)'
  <2>1. ASSUME NEW d \in Document, ~Among(d, b.docs) PROVE SumOf(d)' = SumOf(d)
    <3>1. ~On(p, d)
      BY <1>2, <2>1 DEF On, Among
    <3>2. {q \in payments' : On(q, d)} = {q \in payments : On(q, d)}
      BY <1>2, <3>1
    <3> QED
      BY <3>2 DEF SumOf
  <2>2. paid' = paid /\ patched' = patched
    BY DEF InsertPayment
  <2> QED
    BY <1>3, <2>1, <2>2, RecomputeKeeps DEF IPayments, Known
<1> QED
  BY <1>4, <1>5, <1>6, <1>7, <1>8 DEF IPayments, Known

LEMMA DeleteKeeps ==
  ASSUME IPayments, NEW r \in Request, Alone(r), Kept', DeletePayment(r)
  PROVE  IPayments'
<1>1. PICK p \in Payment : p = arg[r]
  BY DEF DeletePayment, Goto, IPayments, Holds
<1>2. ASSUME p \notin payments PROVE IPayments'
  <2>1. /\ pc[r] = "delete" /\ pc'[r] = "error" /\ queue'[r] = queue[r]
        /\ UNCHANGED <<payments, left, overlap>>
    BY <1>1, <1>2 DEF DeletePayment, Goto, IPayments, TypeOK
  <2>2. TypeOK'
    BY <2>1 DEF DeletePayment, Goto, IPayments, TypeOK, Answered
  <2>3. \A q \in Request : Holds(q)'
    <3>1. Holds(r)'
      BY <2>1 DEF IPayments, Holds
    <3> QED
      BY <3>1, HoldsStays DEF IPayments
  <2>4. StatusGoes'
    BY DEF DeletePayment, IPayments, StatusGoes
  <2>5. \A d \in Document : Known(d)'
    BY <2>1, KnownStays DEF IPayments, Known, DeletePayment
  <2> QED
    BY <2>1, <2>2, <2>3, <2>4, <2>5 DEF IPayments, Known
<1>3. ASSUME p \in payments PROVE IPayments'
  <2>1. /\ pc[r] = "delete" /\ pc'[r] = "sum" /\ queue'[r] = queue[r]
        /\ left'[r] = p.docs /\ Recompute(r, p.docs) /\ payments' = payments \ {p}
    BY <1>1, <1>3 DEF DeletePayment, Goto, Recompute, IPayments, TypeOK
  <2>2. TypeOK'
    <3>1. left' \in [Request -> Seq(Document)] /\ overlap' \subseteq Document
      BY <1>1, <2>1 DEF Recompute, IPayments, TypeOK, Payment
    <3>2. pc' \in [Request -> {"new"} \cup Waiting \cup Answered]
      BY DEF DeletePayment, Goto, IPayments, TypeOK, Waiting, Answered
    <3> QED
      BY <2>1, <3>1, <3>2 DEF DeletePayment, IPayments, TypeOK
  <2>3. IsFiniteSet(payments')
    BY <2>1, FS_Subset DEF IPayments
  <2>4. \A q \in Request : Holds(q)'
    <3>1. Holds(r)'
      BY <1>1, <2>1 DEF IPayments, Holds, Payment
    <3> QED
      BY <3>1, HoldsStays DEF IPayments
  <2>5. StatusGoes'
    BY DEF DeletePayment, IPayments, StatusGoes
  <2>6. \A d \in Document : Known(d)'
    <3>1. ASSUME NEW d \in Document, ~Among(d, p.docs) PROVE SumOf(d)' = SumOf(d)
      <4>1. ~On(p, d)
        BY <3>1 DEF On, Among
      <4>2. {q \in payments' : On(q, d)} = {q \in payments : On(q, d)}
        BY <2>1, <4>1
      <4> QED
        BY <4>2 DEF SumOf
    <3>2. paid' = paid /\ patched' = patched
      BY DEF DeletePayment
    <3> QED
      BY <2>1, <3>1, <3>2, RecomputeKeeps DEF IPayments, Known
  <2> QED
    BY <2>2, <2>3, <2>4, <2>5, <2>6 DEF IPayments, Known
<1> QED
  BY <1>2, <1>3
-----------------------------------------------------------------------------
LEMMA SumKeeps ==
  ASSUME IPayments, NEW r \in Request, Alone(r), Kept', SumPayments(r)
  PROVE  IPayments'
<1>1. /\ pc[r] = "sum" /\ pc'[r] = "write" /\ queue'[r] = queue[r] /\ left'[r] = left[r]
      /\ sum'[r] = SumOf(Head(left[r])) /\ left[r] # <<>>
  BY DEF SumPayments, Goto, IPayments, TypeOK, Holds
<1>2. TypeOK'
  <2>1. SumOf(Head(left[r])) \in Nat
    BY SumOfIsNat DEF IPayments
  <2>2. sum' \in [Request -> Nat]
    BY <2>1 DEF SumPayments, IPayments, TypeOK
  <2>3. pc' \in [Request -> {"new"} \cup Waiting \cup Answered]
    BY DEF SumPayments, Goto, IPayments, TypeOK, Waiting
  <2> QED
    BY <2>2, <2>3 DEF SumPayments, IPayments, TypeOK
<1>3. \A q \in Request : Holds(q)'
  <2>1. Holds(r)'
    BY <1>1 DEF IPayments, Holds
  <2> QED
    BY <2>1, HoldsStays DEF IPayments
<1>4. StatusGoes'
  BY DEF SumPayments, IPayments, StatusGoes
<1>5. ASSUME NEW d \in Document PROVE Known(d)'
  <2>1. CutShort(d) => CutShort(d)'
    BY <1>1 DEF Alone, CutShort
  <2>2. Recomputing(d)' = Recomputing(d)
    BY <1>1 DEF Alone, Recomputing
  <2>3. SumOf(d)' = SumOf(d)
    BY DEF SumPayments, SumOf, On
  <2>4. ASSUME Drift(d) PROVE Drift(d)'
    <3>1. ASSUME NEW q \in Recomputing(d), pc'[q] = "write", Head(left'[q]) = d
          PROVE  sum'[q] = SumOf(d)
      BY <1>1, <2>4, <3>1 DEF Alone, Recomputing, Drift
    <3> QED
      BY <2>2, <2>3, <2>4, <3>1 DEF Drift, SumPayments
  <2> QED
    BY <2>1, <2>4 DEF Known, SumPayments, IPayments
<1> QED
  BY <1>2, <1>3, <1>4, <1>5 DEF IPayments, Known, SumPayments

LEMMA WriteKeeps ==
  ASSUME IPayments, NEW r \in Request, Alone(r), Kept', WritePaid(r)
  PROVE  IPayments'
<1>1. PICK d \in Document : d = Head(left[r])
  BY DEF WritePaid, IPayments, TypeOK, Holds
<1> DEFINE rest == Tail(left[r])
<1>2. /\ pc[r] = "write" /\ queue'[r] = queue[r]
      /\ left[r] \in Seq(Document) \ {<<>>} /\ rest \in Seq(Document) /\ queue[r] \in Seq(ABody)
  BY DEF WritePaid, IPayments, TypeOK, Holds
<1>3. \/ rest # <<>> /\ pc'[r] = "sum" /\ left'[r] = rest
      \/ /\ rest = <<>> /\ pc'[r] = "check" /\ queue[r] # <<>>
         /\ left'[r] = Head(queue[r]).docs
      \/ rest = <<>> /\ pc'[r] = "ok" /\ left'[r] = <<>>
  BY <1>2 DEF WritePaid, IPayments, TypeOK
<1>4. queue[r] # <<>> => Head(queue[r]).docs \in Seq(Document) \ {<<>>}
  <2>1. queue[r] # <<>> => Head(queue[r]) \in ABody
    BY <1>2
  <2> QED
    BY <2>1 DEF ABody
<1>5. /\ paid' = [paid EXCEPT ![d] = sum[r]]
      /\ status' = [status EXCEPT ![d] = StatusFor(d, sum[r])]
      /\ marked' = marked \ {d}
      /\ UNCHANGED <<payments, overlap, patched>>
  BY <1>1 DEF WritePaid
<1>6. TypeOK'
  <2>1. paid' \in [Document -> Nat] /\ status' \in [Document -> Status]
    BY <1>5 DEF IPayments, TypeOK, StatusFor, Status
  <2>2. left' \in [Request -> Seq(Document)]
    BY <1>2, <1>4 DEF WritePaid, IPayments, TypeOK
  <2>3. pc' \in [Request -> {"new"} \cup Waiting \cup Answered]
    BY DEF WritePaid, IPayments, TypeOK, Waiting, Answered
  <2> QED
    BY <2>1, <2>2, <2>3 DEF WritePaid, IPayments, TypeOK
<1>7. \A q \in Request : Holds(q)'
  <2>1. Holds(r)'
    BY <1>2, <1>3, <1>4 DEF Holds
  <2> QED
    BY <2>1, HoldsStays DEF IPayments
<1>8. StatusGoes'
  BY <1>5 DEF IPayments, StatusGoes, TypeOK
<1>9. \A i : i \in DOMAIN rest => i + 1 \in DOMAIN left[r] /\ rest[i] = left[r][i + 1]
  BY <1>2
<1>10. \A i \in DOMAIN left[r] : i = 1 \/ (i - 1 \in DOMAIN rest /\ rest[i - 1] = left[r][i])
  BY <1>2
<1> HIDE DEF rest
<1>11. ASSUME NEW e \in Document PROVE Known(e)'
  <2>1. CutShort(e) => CutShort(e)'
    BY <1>2 DEF Alone, CutShort
  <2>2. SumOf(e)' = SumOf(e)
    BY <1>5 DEF SumOf, On
  <2>3. Among(e, rest) => Among(e, left[r])
    BY <1>9 DEF Among
  <2>4. ASSUME Among(e, left[r]), e # d PROVE Among(e, rest)
    <3>1. PICK i \in DOMAIN left[r] : left[r][i] = e
      BY <2>4 DEF Among
    <3>2. left[r][1] = d
      BY <1>1, <1>2
    <3>3. i - 1 \in DOMAIN rest /\ rest[i - 1] = e
      BY <1>10, <2>4, <3>1, <3>2
    <3> QED
      BY <3>3 DEF Among
  <2>5. Among(d, left[r])
    BY <1>1, <1>2 DEF Among
  <2>6. \A q \in Request \ {r} : q \in Recomputing(e)' <=> q \in Recomputing(e)
    BY DEF Alone, Recomputing
  <2>7. (r \in Recomputing(e) <=> Among(e, left[r])) /\ (r \in Recomputing(e)' <=> Among(e, rest))
    <3>1. r \in Recomputing(e) <=> Among(e, left[r])
      BY <1>2 DEF Recomputing, Among
    <3>2. ~Among(e, <<>>)
      BY DEF Among
    <3>3. r \in Recomputing(e)' <=> pc'[r] = "sum" /\ Among(e, left'[r])
      BY <1>3 DEF Recomputing, Among
    <3> QED
      BY <1>3, <3>1, <3>2, <3>3
  <2>8. ASSUME Drift(e) PROVE Drift(e)'
    <3>1. Recomputing(e)' \subseteq Recomputing(e)
      BY <2>3, <2>6, <2>7 DEF Recomputing
    <3>2. ASSUME NEW q \in Recomputing(e)', pc'[q] = "write", Head(left'[q]) = e
          PROVE  sum'[q] = SumOf(e)
      BY <1>3, <2>8, <3>1, <3>2 DEF Alone, Recomputing, Drift
    <3>3. ASSUME Recomputing(e)' = {}
          PROVE  paid'[e] = SumOf(e) \/ (paid'[e] = UpFront[e] /\ SumOf(e) = 0)
      <4>1. CASE e = d
        BY <1>1, <1>2, <1>5, <2>5, <2>7, <2>8, <4>1 DEF Drift, IPayments, TypeOK
      <4>2. CASE e # d
        <5>1. Recomputing(e) = {}
          BY <2>4, <2>6, <2>7, <3>3, <4>2 DEF Recomputing
        <5> QED
          BY <1>5, <2>8, <4>2, <5>1 DEF Drift, IPayments, TypeOK
      <4> QED
        BY <4>1, <4>2
    <3> QED
      BY <2>2, <2>8, <3>1, <3>2, <3>3 DEF Drift
  <2> QED
    BY <1>5, <2>1, <2>8 DEF Known, IPayments
<1> QED
  BY <1>5, <1>6, <1>7, <1>8, <1>11 DEF IPayments, Known
-----------------------------------------------------------------------------
LEMMA ErrorKeeps ==
  ASSUME IPayments, NEW r \in Request, Alone(r), Kept', DbError(r)
  PROVE  IPayments'
<1>1. /\ pc[r] \in Waiting /\ pc'[r] = "error" /\ queue'[r] = queue[r]
      /\ pc[r] # "check" => left'[r] = left[r]
      /\ UNCHANGED <<payments, overlap, patched, marked, paid, status, sum>>
  BY DEF DbError, Goto, IPayments, TypeOK
<1>2. TypeOK'
  <2>1. left' \in [Request -> Seq(Document)]
    BY DEF DbError, IPayments, TypeOK
  <2>2. pc' \in [Request -> {"new"} \cup Waiting \cup Answered]
    BY DEF DbError, Goto, IPayments, TypeOK, Answered
  <2>3. faults' \in 0..MaxFaults
    BY PaymentAssumption DEF DbError, IPayments, TypeOK
  <2> QED
    BY <2>1, <2>2, <2>3 DEF DbError, IPayments, TypeOK
<1>3. \A q \in Request : Holds(q)'
  <2>1. Holds(r)'
    BY <1>1 DEF IPayments, Holds
  <2> QED
    BY <2>1, HoldsStays DEF IPayments
<1>4. StatusGoes'
  BY <1>1 DEF IPayments, StatusGoes
<1>5. ASSUME NEW d \in Document PROVE Known(d)'
  <2>1. CASE r \notin Recomputing(d)
    <3>1. Recomputing(d)' = Recomputing(d)
      BY <1>1, <2>1 DEF Alone, Recomputing
    <3>2. CutShort(d) => CutShort(d)'
      BY <1>1 DEF Alone, CutShort, Waiting
    <3>3. SumOf(d)' = SumOf(d)
      BY <1>1 DEF SumOf, On
    <3>4. \A q \in Recomputing(d) : pc'[q] = pc[q] /\ left'[q] = left[q] /\ sum'[q] = sum[q]
      BY <2>1 DEF Alone, Recomputing
    <3>5. Drift(d) => Drift(d)'
      BY <1>1, <3>1, <3>3, <3>4 DEF Drift
    <3> QED
      BY <1>1, <3>2, <3>5 DEF Known, IPayments
  <2>2. CASE r \in Recomputing(d)
    <3>1. CutShort(d)'
      BY <1>1, <2>2 DEF Recomputing, CutShort
    <3> QED
      BY <3>1 DEF Known
  <2> QED
    BY <2>1, <2>2
<1> QED
  BY <1>1, <1>2, <1>3, <1>4, <1>5 DEF IPayments, Known

LEMMA CrashKeeps == IPayments /\ Crash => IPayments'
<1> SUFFICES ASSUME IPayments, Crash PROVE IPayments'
  OBVIOUS
<1>1. \A r \in Request :
         /\ pc'[r] = IF pc[r] \in Waiting THEN "crashed" ELSE pc[r]
         /\ left'[r] = IF pc[r] = "check" THEN <<>> ELSE left[r]
  BY DEF Crash
<1>2. UNCHANGED <<payments, overlap, patched, marked, paid, status, sum, queue, arg>>
  BY DEF Crash
<1>3. TypeOK'
  <2>1. left' \in [Request -> Seq(Document)]
    BY DEF Crash, IPayments, TypeOK
  <2>2. pc' \in [Request -> {"new"} \cup Waiting \cup Answered]
    BY DEF Crash, IPayments, TypeOK, Answered
  <2> QED
    BY <2>1, <2>2 DEF Crash, IPayments, TypeOK
<1>4. \A r \in Request : Holds(r)'
  BY <1>1, <1>2 DEF IPayments, Holds, TypeOK, Waiting, Answered
<1>5. StatusGoes' /\ Kept'
  BY <1>2 DEF IPayments, StatusGoes, Kept
<1>6. ASSUME NEW d \in Document PROVE Known(d)'
  <2>1. \A r \in Recomputing(d) : pc'[r] = "crashed" /\ left'[r] = left[r]
    BY <1>1 DEF Recomputing, Waiting
  <2>2. Recomputing(d) # {} => CutShort(d)'
    BY <2>1 DEF Recomputing, CutShort
  <2>3. CutShort(d) => CutShort(d)'
    BY <1>1 DEF CutShort, Waiting
  <2>4. Recomputing(d)' = {}
    BY <1>1 DEF Recomputing, Waiting
  <2>5. SumOf(d)' = SumOf(d)
    BY <1>2 DEF SumOf, On
  <2>6. Drift(d) /\ Recomputing(d) = {} => Drift(d)'
    BY <1>2, <2>4, <2>5 DEF Drift
  <2> QED
    BY <1>2, <2>2, <2>3, <2>6 DEF Known, IPayments
<1> QED
  BY <1>2, <1>3, <1>4, <1>5, <1>6 DEF IPayments, Known

LEMMA PaymentsStepKeeps == IPayments /\ [Next]_vars => IPayments'
<1> SUFFICES ASSUME IPayments, [Next]_vars PROVE IPayments'
  OBVIOUS
<1>1. ASSUME NEW r \in Request, Step(r) PROVE IPayments'
  <2>1. Alone(r) /\ Kept'
    BY <1>1, StepsAlone
  <2> QED
    BY <1>1, <2>1, CreatesKeep, CheckKeeps, InsertKeeps, SumKeeps, WriteKeeps, FindsKeep,
       DeleteKeeps, PatchKeeps, RemoveKeeps, ErrorKeeps DEF Step
<1>2. CASE UNCHANGED vars
  <2>1. TypeOK' /\ Kept' /\ IsFiniteSet(payments') /\ StatusGoes'
    BY <1>2 DEF vars, IPayments, TypeOK, Kept, StatusGoes
  <2>2. \A r \in Request : Holds(r)'
    BY <1>2 DEF vars, IPayments, Holds
  <2>3. ASSUME NEW d \in Document PROVE Known(d)'
    <3>1. /\ Recomputing(d)' = Recomputing(d) /\ SumOf(d)' = SumOf(d)
          /\ CutShort(d) => CutShort(d)'
      BY <1>2 DEF vars, Recomputing, SumOf, On, CutShort
    <3>2. Drift(d) => Drift(d)'
      BY <1>2, <3>1 DEF vars, Drift
    <3> QED
      BY <1>2, <3>1, <3>2 DEF vars, Known, IPayments
  <2> QED
    BY <2>1, <2>2, <2>3 DEF IPayments, Known
<1> QED
  BY <1>1, <1>2, CrashKeeps DEF Next

LEMMA PaymentsInvariant == Spec => []IPayments
<1>1. Init => IPayments
  BY PaymentsInitial
<1>2. IPayments /\ [Next]_vars => IPayments'
  BY PaymentsStepKeeps
<1> QED
  BY <1>1, <1>2, PTL DEF Spec
-----------------------------------------------------------------------------
\* Documents, payments and requests are well typed.
THEOREM TypeCorrect == Spec => []TypeOK
<1>1. IPayments => TypeOK
  BY DEF IPayments
<1> QED
  BY <1>1, PaymentsInvariant, PTL

\* Whatever is paid, deleted and paid again, alone or in bulk, the amount stored on a
\* document is the sum of its payments or what was paid up front, unless two requests
\* recomputed it at a time, one was cut short, or somebody set it by hand
\* (PaymentsService.recalculateSalePayment, recalculatePurchasePayment).
THEOREM AmountsAreExplained == Spec => []DriftExplained
<1>1. IPayments => DriftExplained
  BY PaymentsImply
<1> QED
  BY <1>1, PaymentsInvariant, PTL

\* The payment status of a document goes with the amount next to it, whatever overlaps,
\* is refused or crashes, except where a body wrote one of the two (at creation too) and
\* no payment has recomputed them since.
THEOREM StatusesAgree == Spec => []StatusAgrees
<1>1. IPayments => StatusAgrees
  BY PaymentsImply
<1> QED
  BY <1>1, PaymentsInvariant, PTL
-----------------------------------------------------------------------------
(***************************************************************************)
(* Stock.                                                                  *)
(***************************************************************************)
\* The rows there are and were, and those that requests in R inserted.
Rows == ledger \cup removed
By(R) == {e \in Rows : e.by \in R}

\* The two services, over the rows of their own requests.
SP == INSTANCE SalesProofs WITH
        Request <- SaleRequest, CreateBody <- SaleBody, ReturnCart <- SaleReturnCart,
        StatusPatch <- {"draft"}, ReturnType <- "sale_return", Series <- {"SALE", "RET"},
        MaxFaults <- DocFaults, ledger <- By(SaleRequest),
        docs <- sales, lastId <- lastSale, pc <- sPc, arg <- sArg, number <- sNumber,
        mine <- sMine, todo <- sTodo, readAt <- sReadAt, faults <- sFaults
PP == INSTANCE PurchasesProofs WITH
        Request <- PurchaseRequest, CreateBody <- PurchaseBody,
        ReturnCart <- PurchaseReturnCart, StatusPatch <- {"received"},
        ReturnType <- "purchase_return", Series <- {"PO", "PRR"}, MaxFaults <- DocFaults,
        ledger <- By(PurchaseRequest),
        docs <- purchases, lastId <- lastPurchase, pc <- pPc, arg <- pArg,
        number <- pNumber, mine <- pMine, todo <- pTodo, readAt <- pReadAt,
        faults <- pFaults

\* What the two rows of a transfer are, and the row of an entry by hand.
Completed(r) == mMine[r] # 0 /\ mArg[r].status = "completed"
Leg(r, l) == IF l = M!Out THEN M!Row(r, "transfer_out", -1 * mArg[r].qty, mMine[r], l)
                          ELSE M!Row(r, "transfer_in", 1 * mArg[r].qty, mMine[r], l)
EntryOf(r) == M!Row(r, mArg[r].type, mArg[r].qty, 0, 0)

\* Where a request by hand stands tells what it works on.
MoveArgs ==
    /\ DOMAIN mArg = MoveRequest
    /\ \A r \in MoveRequest :
        /\ mPc[r] = "insertTransfer" => mArg[r] \in TransferBody
        /\ mPc[r] = "setStatus" => mArg[r].status \in M!TransferStatus
        /\ mPc[r] = "insertEntry" => mArg[r] \in EntryBody
        /\ mMine[r] # 0 => /\ mArg[r] \in TransferBody
                           /\ mPc[r] \in {"settle", "ok", "error", "crashed"}
        /\ mTodo[r] # {} => Completed(r) /\ mPc[r] \in {"settle", "error"}
\* Both rows of a completed transfer are inserted, but those still to come or cut off.
LegsOK ==
    \A r \in MoveRequest : Completed(r) => \A l \in {M!Out, M!In} :
        l \in mTodo[r] \/ mPc[r] \in {"error", "crashed"} \/ Leg(r, l) \in Rows
\* Whatever a request by hand inserted is a row of its transfer, or its entry.
HandRowsOK ==
    \A e \in By(MoveRequest) :
        \/ /\ Completed(e.by) /\ e.line \in {M!Out, M!In} \ mTodo[e.by]
           /\ e = Leg(e.by, e.line)
        \/ /\ mMine[e.by] = 0 /\ mPc[e.by] = "ok" /\ mArg[e.by] \in EntryBody
           /\ e = EntryOf(e.by)
\* No row comes back.
RowsOK == /\ IsFiniteSet(Rows) /\ ledger \cap removed = {}
          /\ \A e \in Rows : e.by \in SaleRequest \cup PurchaseRequest \cup MoveRequest

IMoves == M!MovesOK /\ MoveArgs /\ LegsOK /\ HandRowsOK
IStocked == SP!ISales /\ PP!IPurchases /\ IMoves /\ RowsOK

-----------------------------------------------------------------------------
\* The assumptions of the two services hold.
LEMMA SalesAssume ==
  /\ DocFaults \in Nat /\ SaleReturnCart \subseteq SP!Cart /\ {"draft"} \subseteq SP!DocStatus
  /\ "sale_return" \in SP!DocType /\ SaleBody \subseteq SP!Body
  /\ \A b \in SaleBody : b.no = SP!NoNumber
<1>1. SP!Body = S!Body
  BY DEF SP!Body, S!Body, S!DocType, SP!DocType, S!DocStatus, SP!DocStatus, S!Cart, SP!Cart,
     S!Line, SP!Line, S!Quantity, SP!Quantity, S!Number, SP!Number, S!NoNumber, SP!NoNumber
<1>2. SP!Cart = S!Cart /\ SP!NoNumber = S!NoNumber
  BY DEF S!Cart, SP!Cart, S!Line, SP!Line, S!Quantity, SP!Quantity, S!NoNumber, SP!NoNumber
<1>3. {"draft"} \subseteq SP!DocStatus /\ "sale_return" \in SP!DocType
  BY DEF SP!DocStatus, SP!DocType
<1> QED
  BY <1>1, <1>2, <1>3, BodiesAssumption

LEMMA PurchasesAssume ==
  /\ DocFaults \in Nat /\ PurchaseReturnCart \subseteq PP!Cart
  /\ {"received"} \subseteq PP!DocStatus
  /\ "purchase_return" \in PP!DocType /\ PurchaseBody \subseteq PP!Body
<1>1. PP!Body = P!Body
  BY DEF PP!Body, P!Body, P!DocType, PP!DocType, P!DocStatus, PP!DocStatus, P!Cart, PP!Cart,
     P!Line, PP!Line, P!Quantity, PP!Quantity, P!Number, PP!Number, P!NoNumber, PP!NoNumber
<1>2. PP!Cart = P!Cart
  BY DEF P!Cart, PP!Cart, P!Line, PP!Line, P!Quantity, PP!Quantity
<1>3. {"received"} \subseteq PP!DocStatus /\ "purchase_return" \in PP!DocType
  BY DEF PP!DocStatus, PP!DocType
<1> QED
  BY <1>1, <1>2, <1>3, BodiesAssumption

LEMMA SalesKeep == SP!ISales /\ [SP!Next]_(SP!vars) => SP!ISales'
BY SalesAssume, SP!StepType, SP!StepStock, SP!StepNumbers, SP!StepGenerated DEF SP!ISales

LEMMA PurchasesKeep == PP!IPurchases /\ [PP!Next]_(PP!vars) => PP!IPurchases'
BY PurchasesAssume, PP!StepType, PP!StepStock, PP!StepNumbers, PP!StepReturns DEF PP!IPurchases
-----------------------------------------------------------------------------
\* New rows of requests in R come to the rows of R and to no others.
Adds(R, new) == /\ ledger' = ledger \cup new /\ removed' = removed
                /\ new \cap Rows = {} /\ IsFiniteSet(new) /\ \A e \in new : e.by \in R

LEMMA RowsAdded ==
  ASSUME NEW R, NEW new, R \subseteq SaleRequest \cup PurchaseRequest \cup MoveRequest,
         RowsOK, Adds(R, new)
  PROVE  /\ RowsOK' /\ Rows' = Rows \cup new
         /\ By(R)' = By(R) \cup new
         /\ \A Q : Q \cap R = {} => By(Q)' = By(Q)
<1>1. Rows' = Rows \cup new
  BY DEF Rows, Adds
<1>2. IsFiniteSet(Rows \cup new)
  BY FS_Union DEF Adds, RowsOK
<1>3. ledger' \cap removed' = {}
  BY DEF Adds, RowsOK, Rows
<1>4. RowsOK'
  <2>1. IsFiniteSet(Rows')
    BY <1>1, <1>2
  <2>2. \A e \in Rows' : e.by \in SaleRequest \cup PurchaseRequest \cup MoveRequest
    BY <1>1 DEF Adds, RowsOK
  <2> QED
    BY <1>3, <2>1, <2>2 DEF RowsOK
<1> QED
  BY <1>1, <1>4 DEF By, Adds

\* Rows that stay where they are, and rows that are deleted, count as before.
LEMMA RowsSame ==
  ASSUME RowsOK, Rows' = Rows, ledger' \cap removed' = {}
  PROVE  RowsOK' /\ \A Q : By(Q)' = By(Q)
BY DEF RowsOK, By

\* The steps of the sales service that write no rows.
SaleOther(r) ==
    \/ S!CreateSale(r) \/ S!InsertSale(r) \/ S!CountSaleReturns(r) \/ S!FindToConvert(r)
    \/ S!ConvertToInvoice(r) \/ S!CommonStep(r)

LEMMA SameCardinality == \A X : S!Cardinality(X) = SP!Cardinality(X)
BY DEF S!Cardinality, SP!Cardinality

LEMMA SaleOtherSteps ==
  ASSUME NEW r \in SaleRequest, By(SaleRequest)' = By(SaleRequest), SaleOther(r)
  PROVE  SP!Step(r) /\ ledger' = ledger
<1>1. ASSUME NEW a, NEW n, NEW next, S!Begin(r, a, n, next)
      PROVE  SP!Begin(r, a, n, next) /\ ledger' = ledger
  BY <1>1 DEF S!Begin, SP!Begin
<1>2. ASSUME NEW op, NEW d, NEW row, S!Overwrite(r, op, d, row)
      PROVE  SP!Overwrite(r, op, d, row) /\ ledger' = ledger
  BY <1>2 DEF S!Overwrite, SP!Overwrite
<1>3. ASSUME NEW next, NEW pending, S!InsertDoc(r, next, pending)
      PROVE  SP!InsertDoc(r, next, pending) /\ ledger' = ledger
  BY <1>3 DEF S!InsertDoc, SP!InsertDoc, S!Taken, SP!Taken, S!Tenant, SP!Tenant, S!NewDoc, SP!NewDoc
<1>4. /\ S!NoNumber = SP!NoNumber /\ S!NoBody = SP!NoBody /\ S!Live = SP!Live
      /\ S!LinesOf(r) = SP!LinesOf(r) /\ \A b, n : S!IsMaxId(b, n) => SP!IsMaxId(b, n)
      /\ S!Waiting = SP!Waiting
  BY DEF S!NoNumber, SP!NoNumber, S!NoBody, SP!NoBody, S!Live, SP!Live, S!LinesOf, SP!LinesOf,
     S!IsMaxId, SP!IsMaxId, S!InBusiness, SP!InBusiness, S!Waiting, SP!Waiting
<1>5. ASSUME NEW d, NEW given, NEW next, S!FindOne(r, d, given, next)
      PROVE  SP!FindOne(r, d, given, next) /\ ledger' = ledger
  BY <1>1, <1>4, <1>5 DEF S!FindOne, SP!FindOne
<1>6. CASE S!CreateSale(r)
  BY <1>1, <1>4, <1>6 DEF S!CreateSale, SP!CreateSale, SP!Step
<1>7. CASE S!InsertSale(r)
  BY <1>3, <1>4, <1>7 DEF S!InsertSale, SP!InsertSale, SP!Step
<1>8. CASE S!CountSaleReturns(r)
  BY <1>8, SameCardinality DEF S!CountSaleReturns, SP!CountSaleReturns, S!CountReturns,
     SP!CountReturns,
     S!ReturnCount, SP!ReturnCount, S!InBusiness, SP!InBusiness, S!Tenant, SP!Tenant, SP!Step
<1>9. CASE S!FindToConvert(r)
  BY <1>4, <1>5, <1>9 DEF S!FindToConvert, SP!FindToConvert, SP!Step
<1>10. CASE S!ConvertToInvoice(r)
  BY <1>2, <1>10 DEF S!ConvertToInvoice, SP!ConvertToInvoice, SP!Step
<1>11. CASE S!CommonStep(r)
  <2>1. CASE S!FindOriginal(r)
    BY <1>1, <1>4, <2>1 DEF S!FindOriginal, SP!FindOriginal, SP!CommonStep, SP!Step
  <2>2. CASE S!InsertReturn(r)
    BY <1>3, <2>2 DEF S!InsertReturn, SP!InsertReturn, SP!CommonStep, SP!Step
  <2>3. CASE S!FindToUpdate(r) \/ S!FindToRemove(r)
    BY <1>4, <1>5, <2>3 DEF S!FindToUpdate, SP!FindToUpdate, S!FindToRemove, SP!FindToRemove,
       SP!CommonStep, SP!Step
  <2>4. CASE S!Update(r) \/ S!Remove(r)
    BY <1>2, <2>4 DEF S!Update, SP!Update, S!Remove, SP!Remove, SP!CommonStep, SP!Step
  <2>5. CASE S!Answer(r) \/ S!DbError(r)
    BY <1>4, <2>5 DEF S!Answer, SP!Answer, S!DbError, SP!DbError, SP!CommonStep, SP!Step
  <2>6. CASE \E l \in sTodo[r] : S!LineError(r, l)
    BY <2>6 DEF S!LineError, SP!LineError, SP!CommonStep, SP!Step
  <2> QED
    BY <1>11, <2>1, <2>2, <2>3, <2>4, <2>5, <2>6 DEF S!CommonStep
<1> QED
  BY <1>6, <1>7, <1>8, <1>9, <1>10, <1>11 DEF SaleOther
\* A posting step of a sale writes fresh rows of that request.
LEMMA SalePosting ==
  ASSUME SP!ISales, RowsOK, NEW r \in SaleRequest,
         S!PostSaleOut(r) \/ S!RestockSaleReturn(r), removed' = removed
  PROVE  SP!Step(r) /\ \E new : Adds(SaleRequest, new)
<1>1. \A e \in By(SaleRequest) : e.line \notin sTodo[e.by] /\ sPc[e.by] # "restock"
  BY DEF SP!ISales, SP!IStock, SP!FreshOK
<1>2. \A e \in Rows : e.by = r => e \in By(SaleRequest)
  BY DEF By
<1>3. CASE S!PostSaleOut(r)
  <2>1. PICK l \in sTodo[r] : S!PostLine(r, l, "sale_out", -1)
    BY <1>3 DEF S!PostSaleOut
  <2>2. PICK w : w = S!StockRow(r, l, "sale_out", -1)
    OBVIOUS
  <2>3. w = SP!StockRow(r, l, "sale_out", -1) /\ w.by = r /\ w.line = l
    BY <2>2 DEF S!StockRow, SP!StockRow
  <2>4. w \notin Rows
    BY <1>1, <1>2, <2>3
  <2>5. ledger' = ledger \cup {w}
    BY <2>1, <2>2 DEF S!PostLine
  <2>6. Adds(SaleRequest, {w})
    <3>1. IsFiniteSet({w})
      BY FS_Singleton
    <3> QED
      BY <2>3, <2>4, <2>5, <3>1 DEF Adds
  <2>7. By(SaleRequest)' = By(SaleRequest) \cup {w}
    BY <2>6, RowsAdded
  <2>8. SP!PostLine(r, l, "sale_out", -1)
    BY <2>1, <2>3, <2>7 DEF S!PostLine, SP!PostLine
  <2> QED
    BY <2>6, <2>8 DEF SP!PostSaleOut, SP!Step
<1>4. CASE S!RestockSaleReturn(r)
  <2>1. S!Restock(r, "sale_return", 1) /\ sPc[r] = "restock"
    BY <1>4 DEF S!RestockSaleReturn, S!Restock
  <2>2. PICK new : new = {S!StockRow(r, l, "sale_return", 1) : l \in S!LinesOf(r)}
    OBVIOUS
  <2>3. /\ new = {SP!StockRow(r, l, "sale_return", 1) : l \in SP!LinesOf(r)}
        /\ \A e \in new : e.by = r
    BY <2>2 DEF S!StockRow, SP!StockRow, S!LinesOf, SP!LinesOf
  <2>4. new \cap Rows = {}
    BY <1>1, <1>2, <2>1, <2>3
  <2>5. IsFiniteSet(new)
    <3>1. sArg[r].body.lines \in Seq(SP!Line)
      BY <2>1 DEF SP!ISales, SP!IType, SP!ArgOK, SP!Arg, SP!Body, SP!Cart
    <3>2. S!LinesOf(r) = 1..Len(sArg[r].body.lines) /\ Len(sArg[r].body.lines) \in Nat
      BY <3>1 DEF S!LinesOf
    <3>3. IsFiniteSet(S!LinesOf(r))
      BY <3>2, FS_Interval
    <3> DEFINE row == [l \in S!LinesOf(r) |-> S!StockRow(r, l, "sale_return", 1)]
    <3>4. new = {row[l] : l \in S!LinesOf(r)}
      BY <2>2
    <3> HIDE DEF row
    <3> QED
      BY <3>3, <3>4, ImageIsFinite
  <2>6. ledger' = ledger \cup new
    BY <2>1, <2>2 DEF S!Restock
  <2>7. Adds(SaleRequest, new)
    BY <2>3, <2>4, <2>5, <2>6 DEF Adds
  <2>8. By(SaleRequest)' = By(SaleRequest) \cup new
    BY <2>7, RowsAdded
  <2>9. SP!Restock(r, "sale_return", 1)
    BY <2>1, <2>3, <2>8 DEF S!Restock, SP!Restock
  <2> QED
    BY <2>7, <2>9 DEF SP!RestockSaleReturn, SP!Step
<1> QED
  BY <1>3, <1>4

\* A step of the sales service is one over the rows of its own requests.
LEMMA SaleSteps ==
  ASSUME IStocked, SaleStep
  PROVE  /\ \E r \in SaleRequest : SP!Step(r)
         /\ RowsOK' /\ UNCHANGED moveVars /\ UNCHANGED PP!vars
         /\ \A Q : Q \cap SaleRequest = {} => By(Q)' = By(Q)
<1>1. PICK r \in SaleRequest : S!Step(r) /\ UNCHANGED <<purchaseVars, moveVars>>
  BY DEF SaleStep
<1>2. removed' = removed
  BY <1>1 DEF moveVars
<1>3. CASE S!PostSaleOut(r) \/ S!RestockSaleReturn(r)
  <2>1. PICK new : Adds(SaleRequest, new) /\ SP!Step(r)
    BY <1>2, <1>3, SalePosting DEF IStocked
  <2>2. RowsOK' /\ \A Q : Q \cap SaleRequest = {} => By(Q)' = By(Q)
    BY <2>1, RowsAdded DEF IStocked
  <2> QED
    BY <1>1, <2>1, <2>2, RequestsAssumption DEF purchaseVars, PP!vars
<1>4. CASE SaleOther(r)
  <2>1. ledger' = ledger
    BY <1>4 DEF SaleOther, S!CreateSale, S!InsertSale, S!CountSaleReturns, S!CountReturns,
       S!FindToConvert,
       S!ConvertToInvoice, S!CommonStep, S!FindOriginal, S!InsertReturn, S!FindToUpdate,
       S!FindToRemove,
       S!Update, S!Remove, S!Answer, S!DbError, S!LineError, S!FindOne, S!Begin, S!Overwrite,
       S!InsertDoc
  <2>2. Rows' = Rows /\ RowsOK' /\ \A Q : By(Q)' = By(Q)
    BY <1>2, <2>1 DEF IStocked, RowsOK, Rows, By
  <2>3. SP!Step(r)
    BY <1>4, <2>2, SaleOtherSteps
  <2> QED
    BY <1>1, <2>2, <2>3 DEF purchaseVars, PP!vars
<1> QED
  BY <1>1, <1>3, <1>4 DEF S!Step, SaleOther
-----------------------------------------------------------------------------
\* The steps of the purchases service that write no rows.
PurchaseOther(r) ==
    \/ P!CreatePurchase(r) \/ P!InsertPurchase(r) \/ P!CountPurchaseReturns(r)
    \/ P!FindRequisition(r)
    \/ P!ConvertToOrder(r) \/ P!CommonStep(r)

LEMMA SameCount == \A X : P!Cardinality(X) = PP!Cardinality(X)
BY DEF P!Cardinality, PP!Cardinality

LEMMA PurchaseOtherSteps ==
  ASSUME NEW r \in PurchaseRequest, By(PurchaseRequest)' = By(PurchaseRequest), PurchaseOther(r)
  PROVE  PP!Step(r) /\ ledger' = ledger
<1>1. ASSUME NEW a, NEW n, NEW next, P!Begin(r, a, n, next)
      PROVE  PP!Begin(r, a, n, next) /\ ledger' = ledger
  BY <1>1 DEF P!Begin, PP!Begin
<1>2. ASSUME NEW op, NEW d, NEW row, P!Overwrite(r, op, d, row)
      PROVE  PP!Overwrite(r, op, d, row) /\ ledger' = ledger
  BY <1>2 DEF P!Overwrite, PP!Overwrite
<1>3. ASSUME NEW next, NEW pending, P!InsertDoc(r, next, pending)
      PROVE  PP!InsertDoc(r, next, pending) /\ ledger' = ledger
  BY <1>3 DEF P!InsertDoc, PP!InsertDoc, P!Taken, PP!Taken, P!Tenant, PP!Tenant, P!NewDoc, PP!NewDoc
<1>4. /\ P!NoNumber = PP!NoNumber /\ P!NoBody = PP!NoBody /\ P!Live = PP!Live
      /\ P!LinesOf(r) = PP!LinesOf(r) /\ \A b, n : P!IsMaxId(b, n) => PP!IsMaxId(b, n)
      /\ P!Waiting = PP!Waiting
  BY DEF P!NoNumber, PP!NoNumber, P!NoBody, PP!NoBody, P!Live, PP!Live, P!LinesOf, PP!LinesOf,
     P!IsMaxId, PP!IsMaxId, P!InBusiness, PP!InBusiness, P!Waiting, PP!Waiting
<1>5. ASSUME NEW d, NEW given, NEW next, P!FindOne(r, d, given, next)
      PROVE  PP!FindOne(r, d, given, next) /\ ledger' = ledger
  BY <1>1, <1>4, <1>5 DEF P!FindOne, PP!FindOne
<1>6. CASE P!CreatePurchase(r)
  BY <1>1, <1>4, <1>6 DEF P!CreatePurchase, PP!CreatePurchase, PP!Step
<1>7. CASE P!InsertPurchase(r)
  BY <1>3, <1>4, <1>7 DEF P!InsertPurchase, PP!InsertPurchase, PP!Step
<1>8. CASE P!CountPurchaseReturns(r)
  BY <1>8, SameCount DEF P!CountPurchaseReturns, PP!CountPurchaseReturns, P!CountReturns,
     PP!CountReturns,
     P!ReturnCount, PP!ReturnCount, P!InBusiness, PP!InBusiness, P!Tenant, PP!Tenant, PP!Step
<1>9. CASE P!FindRequisition(r)
  BY <1>4, <1>5, <1>9 DEF P!FindRequisition, PP!FindRequisition, PP!Step
<1>10. CASE P!ConvertToOrder(r)
  BY <1>2, <1>10 DEF P!ConvertToOrder, PP!ConvertToOrder, PP!Step
<1>11. CASE P!CommonStep(r)
  <2>1. CASE P!FindOriginal(r)
    BY <1>1, <1>4, <2>1 DEF P!FindOriginal, PP!FindOriginal, PP!CommonStep, PP!Step
  <2>2. CASE P!InsertReturn(r)
    BY <1>3, <2>2 DEF P!InsertReturn, PP!InsertReturn, PP!CommonStep, PP!Step
  <2>3. CASE P!FindToUpdate(r) \/ P!FindToRemove(r)
    BY <1>4, <1>5, <2>3 DEF P!FindToUpdate, PP!FindToUpdate, P!FindToRemove, PP!FindToRemove,
       PP!CommonStep, PP!Step
  <2>4. CASE P!Update(r) \/ P!Remove(r)
    BY <1>2, <2>4 DEF P!Update, PP!Update, P!Remove, PP!Remove, PP!CommonStep, PP!Step
  <2>5. CASE P!Answer(r) \/ P!DbError(r)
    BY <1>4, <2>5 DEF P!Answer, PP!Answer, P!DbError, PP!DbError, PP!CommonStep, PP!Step
  <2>6. CASE \E l \in pTodo[r] : P!LineError(r, l)
    BY <2>6 DEF P!LineError, PP!LineError, PP!CommonStep, PP!Step
  <2> QED
    BY <1>11, <2>1, <2>2, <2>3, <2>4, <2>5, <2>6 DEF P!CommonStep
<1> QED
  BY <1>6, <1>7, <1>8, <1>9, <1>10, <1>11 DEF PurchaseOther

\* A posting step of a purchase writes fresh rows of that request.
LEMMA PurchasePosting ==
  ASSUME PP!IPurchases, RowsOK, NEW r \in PurchaseRequest,
         P!PostPurchaseIn(r) \/ P!TakeOutPurchaseReturn(r), removed' = removed
  PROVE  PP!Step(r) /\ \E new : Adds(PurchaseRequest, new)
<1>1. \A e \in By(PurchaseRequest) : e.line \notin pTodo[e.by] /\ pPc[e.by] # "restock"
  BY DEF PP!IPurchases, PP!IStock, PP!FreshOK
<1>2. \A e \in Rows : e.by = r => e \in By(PurchaseRequest)
  BY DEF By
<1>3. CASE P!PostPurchaseIn(r)
  <2>1. PICK l \in pTodo[r] : P!PostLine(r, l, "purchase_in", 1)
    BY <1>3 DEF P!PostPurchaseIn
  <2>2. PICK w : w = P!StockRow(r, l, "purchase_in", 1)
    OBVIOUS
  <2>3. w = PP!StockRow(r, l, "purchase_in", 1) /\ w.by = r /\ w.line = l
    BY <2>2 DEF P!StockRow, PP!StockRow
  <2>4. w \notin Rows
    BY <1>1, <1>2, <2>3
  <2>5. ledger' = ledger \cup {w}
    BY <2>1, <2>2 DEF P!PostLine
  <2>6. Adds(PurchaseRequest, {w})
    <3>1. IsFiniteSet({w})
      BY FS_Singleton
    <3> QED
      BY <2>3, <2>4, <2>5, <3>1 DEF Adds
  <2>7. By(PurchaseRequest)' = By(PurchaseRequest) \cup {w}
    BY <2>6, RowsAdded
  <2>8. PP!PostLine(r, l, "purchase_in", 1)
    BY <2>1, <2>3, <2>7 DEF P!PostLine, PP!PostLine
  <2> QED
    BY <2>6, <2>8 DEF PP!PostPurchaseIn, PP!Step
<1>4. CASE P!TakeOutPurchaseReturn(r)
  <2>1. P!Restock(r, "adjustment_out", -1) /\ pPc[r] = "restock"
    BY <1>4 DEF P!TakeOutPurchaseReturn, P!Restock
  <2>2. PICK new : new = {P!StockRow(r, l, "adjustment_out", -1) : l \in P!LinesOf(r)}
    OBVIOUS
  <2>3. /\ new = {PP!StockRow(r, l, "adjustment_out", -1) : l \in PP!LinesOf(r)}
        /\ \A e \in new : e.by = r
    BY <2>2 DEF P!StockRow, PP!StockRow, P!LinesOf, PP!LinesOf
  <2>4. new \cap Rows = {}
    BY <1>1, <1>2, <2>1, <2>3
  <2>5. IsFiniteSet(new)
    <3>1. pArg[r].body.lines \in Seq(PP!Line)
      BY <2>1 DEF PP!IPurchases, PP!IType, PP!ArgOK, PP!Arg, PP!Body, PP!Cart
    <3>2. P!LinesOf(r) = 1..Len(pArg[r].body.lines) /\ Len(pArg[r].body.lines) \in Nat
      BY <3>1 DEF P!LinesOf
    <3>3. IsFiniteSet(P!LinesOf(r))
      BY <3>2, FS_Interval
    <3> DEFINE row == [l \in P!LinesOf(r) |-> P!StockRow(r, l, "adjustment_out", -1)]
    <3>4. new = {row[l] : l \in P!LinesOf(r)}
      BY <2>2
    <3> HIDE DEF row
    <3> QED
      BY <3>3, <3>4, ImageIsFinite
  <2>6. ledger' = ledger \cup new
    BY <2>1, <2>2 DEF P!Restock
  <2>7. Adds(PurchaseRequest, new)
    BY <2>3, <2>4, <2>5, <2>6 DEF Adds
  <2>8. By(PurchaseRequest)' = By(PurchaseRequest) \cup new
    BY <2>7, RowsAdded
  <2>9. PP!Restock(r, "adjustment_out", -1)
    BY <2>1, <2>3, <2>8 DEF P!Restock, PP!Restock
  <2> QED
    BY <2>7, <2>9 DEF PP!TakeOutPurchaseReturn, PP!Step
<1> QED
  BY <1>3, <1>4

\* A step of the purchases service is one over the rows of its own requests.
LEMMA PurchaseSteps ==
  ASSUME IStocked, PurchaseStep
  PROVE  /\ \E r \in PurchaseRequest : PP!Step(r)
         /\ RowsOK' /\ UNCHANGED moveVars /\ UNCHANGED SP!vars
         /\ \A Q : Q \cap PurchaseRequest = {} => By(Q)' = By(Q)
<1>1. PICK r \in PurchaseRequest : P!Step(r) /\ UNCHANGED <<saleVars, moveVars>>
  BY DEF PurchaseStep
<1>2. removed' = removed
  BY <1>1 DEF moveVars
<1>3. CASE P!PostPurchaseIn(r) \/ P!TakeOutPurchaseReturn(r)
  <2>1. PICK new : Adds(PurchaseRequest, new) /\ PP!Step(r)
    BY <1>2, <1>3, PurchasePosting DEF IStocked
  <2>2. RowsOK' /\ \A Q : Q \cap PurchaseRequest = {} => By(Q)' = By(Q)
    BY <2>1, RowsAdded DEF IStocked
  <2> QED
    BY <1>1, <2>1, <2>2, RequestsAssumption DEF saleVars, SP!vars
<1>4. CASE PurchaseOther(r)
  <2>1. ledger' = ledger
    BY <1>4 DEF PurchaseOther, P!CreatePurchase, P!InsertPurchase, P!CountPurchaseReturns,
       P!CountReturns, P!FindRequisition,
       P!ConvertToOrder, P!CommonStep, P!FindOriginal, P!InsertReturn, P!FindToUpdate,
       P!FindToRemove,
       P!Update, P!Remove, P!Answer, P!DbError, P!LineError, P!FindOne, P!Begin, P!Overwrite,
       P!InsertDoc
  <2>2. Rows' = Rows /\ RowsOK' /\ \A Q : By(Q)' = By(Q)
    BY <1>2, <2>1 DEF IStocked, RowsOK, Rows, By
  <2>3. PP!Step(r)
    BY <1>4, <2>2, PurchaseOtherSteps
  <2> QED
    BY <1>1, <2>2, <2>3 DEF saleVars, SP!vars
<1> QED
  BY <1>1, <1>3, <1>4 DEF P!Step, PurchaseOther
-----------------------------------------------------------------------------
\* What a row by hand restates changes with its request's argument or id only.
LEMMA SameLegs ==
  ASSUME NEW x, mArg'[x] = mArg[x], mMine'[x] = mMine[x]
  PROVE  /\ Completed(x)' <=> Completed(x)
         /\ \A l : Leg(x, l)' = Leg(x, l)
         /\ EntryOf(x)' = EntryOf(x)
BY DEF Completed, Leg, EntryOf, M!Row

\* Only request r moves.
OnlyHand(r) == \A x \in MoveRequest \ {r} : /\ mPc'[x] = mPc[x] /\ mArg'[x] = mArg[x]
                                         /\ mMine'[x] = mMine[x] /\ mTodo'[x] = mTodo[x]

LEMMA MovesAlone == ASSUME IMoves, NEW r \in MoveRequest, M!Step(r)
                    PROVE  OnlyHand(r) /\ DOMAIN mArg' = MoveRequest
BY DEF IMoves, MoveArgs, M!MovesOK, M!Step, M!CreateTransfer, M!InsertTransfer, M!PostOut, M!PostIn,
   M!PostLeg, M!AnswerTransfer, M!FindTransfer, M!SetStatus, M!FindProduct, M!InsertEntry,
   M!FindEntry, M!DeleteEntry, M!DbError, M!LegError, M!Begin, M!Finish, OnlyHand

\* A request that has written nothing, and writes nothing.
LEMMA IdleKeeps ==
  ASSUME IMoves, NEW r \in MoveRequest, OnlyHand(r),
         By(MoveRequest)' = By(MoveRequest), Rows' = Rows,
         mMine[r] = 0, mPc[r] # "ok", mMine'[r] = 0 \/ mTodo'[r] = {M!Out, M!In} \/ ~Completed(r)'
  PROVE  LegsOK' /\ HandRowsOK'
<1>1. \A x \in MoveRequest \ {r} : /\ Completed(x)' <=> Completed(x)
                                   /\ \A l : Leg(x, l)' = Leg(x, l)
                                   /\ EntryOf(x)' = EntryOf(x)
  BY SameLegs DEF OnlyHand
<1>2. \A e \in By(MoveRequest) : e.by \in MoveRequest \ {r}
  BY DEF IMoves, HandRowsOK, Completed, By
<1>3. LegsOK'
  <2>1. ASSUME NEW x \in MoveRequest \ {r}, Completed(x)', NEW l \in {M!Out, M!In}
        PROVE  l \in mTodo'[x] \/ mPc'[x] \in {"error", "crashed"} \/ Leg(x, l)' \in Rows'
    BY <1>1, <2>1 DEF IMoves, LegsOK, OnlyHand
  <2>2. Completed(r)' => mTodo'[r] = {M!Out, M!In}
    BY DEF Completed
  <2> QED
    BY <2>1, <2>2 DEF LegsOK, M!Out, M!In
<1>4. HandRowsOK'
  <2>1. ASSUME NEW e \in By(MoveRequest)
        PROVE  \/ /\ Completed(e.by)' /\ e.line \in {M!Out, M!In} \ mTodo'[e.by]
                  /\ e = Leg(e.by, e.line)'
               \/ /\ mMine'[e.by] = 0 /\ mPc'[e.by] = "ok" /\ mArg'[e.by] \in EntryBody
                  /\ e = EntryOf(e.by)'
    <3>1. PICK x \in MoveRequest \ {r} : x = e.by
      BY <1>2
    <3>2. /\ Completed(x)' <=> Completed(x)
          /\ Leg(x, e.line)' = Leg(x, e.line) /\ EntryOf(x)' = EntryOf(x)
      BY <1>1
    <3>3. \/ /\ Completed(x) /\ e.line \in {M!Out, M!In} \ mTodo[x] /\ e = Leg(x, e.line)
          \/ /\ mMine[x] = 0 /\ mPc[x] = "ok" /\ mArg[x] \in EntryBody /\ e = EntryOf(x)
      BY <3>1 DEF IMoves, HandRowsOK
    <3> QED
      BY <3>1, <3>2, <3>3 DEF OnlyHand
  <2> QED
    BY <2>1 DEF HandRowsOK, M!Out, M!In
<1> QED
  BY <1>3, <1>4
\* Requests that go on with what they have, writing some rows of theirs.
LEMMA LegsKeep ==
  ASSUME IMoves, NEW new, Rows' = Rows \cup new, By(MoveRequest)' = By(MoveRequest) \cup new,
         UNCHANGED <<mArg, mMine>>,
         \A x \in MoveRequest :
            /\ mTodo'[x] \subseteq mTodo[x] /\ (mPc[x] = "ok" => mPc'[x] = "ok")
            /\ mPc[x] \in {"error", "crashed"} => mPc'[x] \in {"error", "crashed"}
            /\ \A l \in mTodo[x] \ mTodo'[x] :
                  mPc'[x] \in {"error", "crashed"} \/ Leg(x, l) \in new,
         \A e \in new :
            /\ e.by \in MoveRequest
            /\ \/ /\ Completed(e.by) /\ e.line \in {M!Out, M!In} \ mTodo'[e.by]
                  /\ e = Leg(e.by, e.line)
               \/ /\ mMine[e.by] = 0 /\ mPc'[e.by] = "ok" /\ mArg[e.by] \in EntryBody
                  /\ e = EntryOf(e.by)
  PROVE  LegsOK' /\ HandRowsOK'
<1>1. \A x : /\ Completed(x)' <=> Completed(x)
             /\ \A l : Leg(x, l)' = Leg(x, l)
             /\ EntryOf(x)' = EntryOf(x)
  BY SameLegs
<1>2. LegsOK'
  <2>1. ASSUME NEW x \in MoveRequest, Completed(x), NEW l \in {M!Out, M!In}
        PROVE  l \in mTodo'[x] \/ mPc'[x] \in {"error", "crashed"} \/ Leg(x, l) \in Rows'
    BY <2>1 DEF IMoves, LegsOK
  <2> QED
    BY <1>1, <2>1 DEF LegsOK, M!Out, M!In
<1>3. HandRowsOK'
  <2>1. ASSUME NEW e \in By(MoveRequest) \cup new
        PROVE  \/ /\ Completed(e.by) /\ e.line \in {M!Out, M!In} \ mTodo'[e.by]
                  /\ e = Leg(e.by, e.line)
               \/ /\ mMine[e.by] = 0 /\ mPc'[e.by] = "ok" /\ mArg[e.by] \in EntryBody
                  /\ e = EntryOf(e.by)
    BY DEF IMoves, HandRowsOK, By
  <2> QED
    BY <1>1, <2>1 DEF HandRowsOK, M!Out, M!In
<1> QED
  BY <1>2, <1>3

\* Such a step of one request.
LEMMA WriteAlone ==
  ASSUME IStocked, NEW r \in MoveRequest, OnlyHand(r), NEW new, Adds(MoveRequest, new),
         UNCHANGED <<mArg, mMine>>,
         mTodo'[r] \subseteq mTodo[r], mPc[r] = "ok" => mPc'[r] = "ok",
         mPc[r] \in {"error", "crashed"} => mPc'[r] \in {"error", "crashed"},
         \A l \in mTodo[r] \ mTodo'[r] : mPc'[r] \in {"error", "crashed"} \/ Leg(r, l) \in new,
         \A e \in new :
            /\ e.by = r
            /\ \/ Completed(r) /\ e.line \in {M!Out, M!In} \ mTodo'[r] /\ e = Leg(r, e.line)
               \/ mMine[r] = 0 /\ mPc'[r] = "ok" /\ mArg[r] \in EntryBody /\ e = EntryOf(r)
  PROVE  /\ LegsOK' /\ HandRowsOK' /\ RowsOK'
         /\ \A Q : Q \cap MoveRequest = {} => By(Q)' = By(Q)
<1>1. /\ RowsOK' /\ Rows' = Rows \cup new /\ By(MoveRequest)' = By(MoveRequest) \cup new
      /\ \A Q : Q \cap MoveRequest = {} => By(Q)' = By(Q)
  BY RowsAdded DEF IStocked
<1>2. \A x \in MoveRequest :
         /\ mTodo'[x] \subseteq mTodo[x] /\ (mPc[x] = "ok" => mPc'[x] = "ok")
         /\ mPc[x] \in {"error", "crashed"} => mPc'[x] \in {"error", "crashed"}
         /\ \A l \in mTodo[x] \ mTodo'[x] : mPc'[x] \in {"error", "crashed"} \/ Leg(x, l) \in new
  BY DEF OnlyHand
<1> QED
  BY <1>1, <1>2, LegsKeep DEF IStocked

\* A step of the moves by hand keeps types, arguments and rows.
LEMMA MoveTypes ==
  ASSUME IMoves, NEW r \in MoveRequest, M!Step(r)
  PROVE  M!MovesOK' /\ MoveArgs'
<1> USE DEF IMoves, MoveArgs, M!MovesOK
<1>0. MoveFaults \in Nat /\ TransferBody \subseteq [biz : Business, product : Product,
            qty : M!Quantity, status : M!TransferStatus]
  BY MovesAssumption DEF M!TransferAssumption
<1>1. ASSUME NEW a, NEW next \in M!Waiting, M!Begin(r, a, next),
             next = "insertTransfer" => a \in TransferBody,
             next = "setStatus" => a.status \in M!TransferStatus,
             next = "insertEntry" => a \in EntryBody
      PROVE  M!MovesOK' /\ MoveArgs'
  <2>1. M!MovesOK'
    BY <1>1 DEF M!Begin, M!Waiting
  <2>2. mMine[r] = 0 /\ mTodo[r] = {}
    BY <1>1 DEF M!Begin
  <2>3. /\ mPc'[r] = next /\ mArg'[r] = a /\ DOMAIN mArg' = MoveRequest
        /\ mMine' = mMine /\ mTodo' = mTodo
        /\ \A x \in MoveRequest \ {r} : mPc'[x] = mPc[x] /\ mArg'[x] = mArg[x]
    BY <1>1 DEF M!Begin
  <2>4. MoveArgs'
    BY <1>1, <2>2, <2>3 DEF Completed, M!Waiting
  <2> QED
    BY <2>1, <2>4
<1>2. CASE M!CreateTransfer(r) \/ M!FindTransfer(r) \/ M!FindProduct(r) \/ M!FindEntry(r)
  BY <1>1, <1>2 DEF M!CreateTransfer, M!FindTransfer, M!FindProduct, M!FindEntry, M!Waiting
<1>3. CASE M!InsertTransfer(r)
  <2>1. /\ mPc[r] = "insertTransfer" /\ mPc'[r] = "settle" /\ lastTransfer' = lastTransfer + 1
        /\ mMine'[r] = lastTransfer + 1
        /\ mTodo'[r] = IF mArg[r].status = "completed" THEN {M!Out, M!In} ELSE {}
        /\ mArg' = mArg /\ mArg[r] \in TransferBody
        /\ \A x \in MoveRequest \ {r} :
              mPc'[x] = mPc[x] /\ mMine'[x] = mMine[x] /\ mTodo'[x] = mTodo[x]
    BY <1>3 DEF M!InsertTransfer, M!Finish
  <2>2. M!NewTransfer(mArg[r]) \in M!Transfer
    BY <1>0, <2>1 DEF M!NewTransfer, M!Transfer
  <2>3. M!MovesOK'
    BY <1>3, <2>2 DEF M!InsertTransfer, M!Finish
  <2>4. MoveArgs'
    BY <2>1 DEF Completed
  <2> QED
    BY <2>3, <2>4
<1>4. ASSUME NEW leg, NEW type, NEW sign, M!PostLeg(r, leg, type, sign)
      PROVE  M!MovesOK' /\ MoveArgs'
  BY <1>4 DEF M!PostLeg, Completed
<1>5. CASE M!AnswerTransfer(r) \/ M!InsertEntry(r) \/ M!DeleteEntry(r)
  <2>1. PICK answer \in {"ok", "error"} :
           /\ mPc' = [mPc EXCEPT ![r] = answer]
           /\ UNCHANGED <<transfers, lastTransfer, mArg, mMine, mTodo, mFaults>>
           /\ mTodo[r] = {}
    BY <1>5 DEF M!AnswerTransfer, M!InsertEntry, M!DeleteEntry, M!Finish
  <2>2. M!MovesOK'
    BY <2>1 DEF M!Answered
  <2>3. MoveArgs'
    BY <2>1 DEF Completed
  <2> QED
    BY <2>2, <2>3
<1>6. CASE M!SetStatus(r)
  <2>1. PICK t \in transfers : /\ mPc[r] = "setStatus" /\ mPc' = [mPc EXCEPT ![r] = "ok"]
                               /\ transfers' = (transfers \ {t})
                                               \cup {[t EXCEPT !.status = mArg[r].status]}
                               /\ UNCHANGED <<lastTransfer, mArg, mMine, mTodo, mFaults>>
    BY <1>6 DEF M!SetStatus, M!Finish
  <2>2. [t EXCEPT !.status = mArg[r].status] \in M!Transfer
    BY <2>1 DEF M!Transfer
  <2>3. M!MovesOK'
    BY <2>1, <2>2 DEF M!Answered
  <2>4. MoveArgs'
    BY <2>1 DEF Completed
  <2> QED
    BY <2>3, <2>4
<1>7. CASE M!DbError(r)
  <2>1. /\ mPc' = [mPc EXCEPT ![r] = "error"] /\ mPc[r] \in M!Waiting
        /\ UNCHANGED <<transfers, lastTransfer, mArg, mMine, mTodo>>
        /\ mFaults' \in 0..MoveFaults
    BY <1>0, <1>7 DEF M!DbError, M!Finish
  <2>2. M!MovesOK'
    BY <2>1 DEF M!Answered
  <2>3. MoveArgs'
    BY <2>1 DEF Completed, M!Waiting
  <2> QED
    BY <2>2, <2>3
<1>8. ASSUME NEW leg \in mTodo[r], M!LegError(r, leg)
      PROVE  M!MovesOK' /\ MoveArgs'
  <2>1. /\ mPc' = [mPc EXCEPT ![r] = "error"] /\ mTodo' = [mTodo EXCEPT ![r] = @ \ {leg}]
        /\ UNCHANGED <<transfers, lastTransfer, mArg, mMine>>
        /\ mFaults' \in 0..MoveFaults
    BY <1>0, <1>8 DEF M!LegError
  <2>2. M!MovesOK'
    BY <2>1 DEF M!Answered
  <2>3. MoveArgs'
    BY <1>8, <2>1 DEF Completed
  <2> QED
    BY <2>2, <2>3
<1> QED
  BY <1>2, <1>3, <1>4, <1>5, <1>6, <1>7, <1>8 DEF M!Step, M!PostOut, M!PostIn
\* A move by hand writes rows of its own, deletes some, or neither.
LEMMA MoveSteps ==
  ASSUME IStocked, MoveStep
  PROVE  /\ IMoves' /\ RowsOK' /\ UNCHANGED <<SP!vars, PP!vars>>
<1>1. PICK r \in MoveRequest : M!Step(r) /\ UNCHANGED <<saleVars, purchaseVars>>
  BY DEF MoveStep
<1>2. OnlyHand(r) /\ M!MovesOK' /\ MoveArgs'
  BY <1>1, MovesAlone, MoveTypes DEF IStocked
<1>3. IMoves /\ RowsOK
  BY DEF IStocked
<1> DEFINE HandKept == /\ LegsOK' /\ HandRowsOK' /\ RowsOK'
                   /\ \A Q : Q \cap MoveRequest = {} => By(Q)' = By(Q)
<1>4. ASSUME HandKept PROVE IMoves' /\ RowsOK' /\ UNCHANGED <<SP!vars, PP!vars>>
  <2>1. By(SaleRequest)' = By(SaleRequest) /\ By(PurchaseRequest)' = By(PurchaseRequest)
    BY <1>4, RequestsAssumption
  <2> QED
    BY <1>1, <1>2, <1>4, <2>1 DEF IMoves, saleVars, purchaseVars, SP!vars, PP!vars
<1> SUFFICES HandKept
  BY <1>4
<1>5. ASSUME mMine[r] = 0, mPc[r] # "ok",
             mMine'[r] = 0 \/ mTodo'[r] = {M!Out, M!In} \/ ~Completed(r)',
             Rows' = Rows, ledger' \cap removed' = {}
      PROVE  HandKept
  <2>1. RowsOK' /\ \A Q : By(Q)' = By(Q)
    BY <1>3, <1>5, RowsSame
  <2> QED
    BY <1>2, <1>3, <1>5, <2>1, IdleKeeps
<1>6. ASSUME UNCHANGED <<ledger, removed>> PROVE Rows' = Rows /\ ledger' \cap removed' = {}
  BY <1>3, <1>6 DEF Rows, RowsOK
<1>7. ASSUME NEW a, NEW next, M!Begin(r, a, next) PROVE HandKept
  BY <1>3, <1>5, <1>6, <1>7 DEF M!Begin, IMoves, MoveArgs
<1>8. CASE M!InsertTransfer(r)
  <2>1. /\ UNCHANGED <<ledger, removed>> /\ mPc[r] = "insertTransfer"
        /\ mTodo'[r] = IF mArg[r].status = "completed" THEN {M!Out, M!In} ELSE {}
        /\ mArg' = mArg
    BY <1>3, <1>8 DEF M!InsertTransfer, M!Finish, IMoves, M!MovesOK
  <2>2. mMine[r] = 0
    BY <1>3, <2>1 DEF IMoves, MoveArgs
  <2>3. mTodo'[r] = {M!Out, M!In} \/ ~Completed(r)'
    BY <2>1 DEF Completed
  <2> QED
    BY <1>5, <1>6, <2>1, <2>2, <2>3
<1>9. CASE M!SetStatus(r) \/ M!DbError(r)
  <2>1. UNCHANGED <<ledger, removed, mMine>> /\ mPc[r] \in M!Waiting
    BY <1>9 DEF M!SetStatus, M!DbError, M!Finish, M!Waiting
  <2>2. mMine[r] = 0 /\ mMine'[r] = 0 /\ mPc[r] # "ok"
    BY <1>3, <2>1 DEF IMoves, MoveArgs, M!Waiting
  <2> QED
    BY <1>5, <1>6, <2>1, <2>2
<1>10. CASE M!DeleteEntry(r)
  <2>1. PICK a : a = mArg[r]
    OBVIOUS
  <2>2. /\ ledger' = ledger \ {a} /\ removed' = removed \cup (ledger \cap {a})
        /\ mPc[r] = "deleteEntry" /\ mMine' = mMine
    BY <1>10, <2>1 DEF M!DeleteEntry, M!Finish
  <2>3. Rows' = Rows /\ ledger' \cap removed' = {}
    BY <1>3, <2>2 DEF Rows, RowsOK
  <2>4. mMine[r] = 0 /\ mMine'[r] = 0
    BY <1>3, <2>2 DEF IMoves, MoveArgs
  <2> QED
    BY <1>5, <2>2, <2>3, <2>4
<1>11. CASE M!AnswerTransfer(r) \/ \E leg \in mTodo[r] : M!LegError(r, leg)
  <2>1. /\ UNCHANGED <<ledger, removed, mArg, mMine>> /\ mTodo'[r] \subseteq mTodo[r]
        /\ \/ mPc'[r] = "error" /\ mTodo[r] # {}
           \/ mPc'[r] = "ok" /\ mPc[r] = "settle" /\ mTodo'[r] = mTodo[r]
    BY <1>3, <1>11 DEF M!AnswerTransfer, M!LegError, M!Finish, IMoves, M!MovesOK
  <2>2. Adds(MoveRequest, {})
    BY <2>1, FS_EmptySet DEF Adds
  <2>3. mTodo[r] # {} => mPc[r] # "ok"
    BY <1>3 DEF IMoves, MoveArgs
  <2> QED
    BY <1>2, <2>1, <2>2, <2>3, WriteAlone
<1>12. ASSUME NEW leg, NEW type, NEW sign, M!PostLeg(r, leg, type, sign),
              \/ leg = M!Out /\ type = "transfer_out" /\ sign = -1
              \/ leg = M!In /\ type = "transfer_in" /\ sign = 1
       PROVE  HandKept
  <2>0. leg \in {M!Out, M!In} /\ M!Row(r, type, sign * mArg[r].qty, mMine[r], leg) = Leg(r, leg)
    <3>1. CASE leg = M!Out /\ type = "transfer_out" /\ sign = -1
      <4>1. leg \in mTodo[r]
        BY <1>12 DEF M!PostLeg
      <4>2. mArg[r] \in TransferBody
        BY <1>3, <4>1 DEF IMoves, MoveArgs, Completed
      <4>3. mArg[r].qty \in Int
        BY <4>2, MovesAssumption DEF M!TransferAssumption, M!Quantity
      <4>4. sign * mArg[r].qty = -1 * mArg[r].qty
        BY <3>1, <4>3
      <4> QED
        BY <3>1, <4>4 DEF Leg
    <3>2. CASE leg = M!In /\ type = "transfer_in" /\ sign = 1
      BY <3>2 DEF Leg, M!Out, M!In
    <3> QED
      BY <1>12, <3>1, <3>2
  <2>1. PICK w : w = Leg(r, leg)
    OBVIOUS
  <2>2. /\ leg \in mTodo[r] /\ ledger' = ledger \cup {w}
        /\ mTodo'[r] = mTodo[r] \ {leg} /\ UNCHANGED <<removed, mPc, mArg, mMine>>
    BY <1>3, <1>12, <2>0, <2>1 DEF M!PostLeg, IMoves, M!MovesOK
  <2>3. w.by = r /\ w.line = leg
    BY <2>1 DEF Leg, M!Row
  <2>4. Completed(r) /\ mMine[r] # 0
    BY <1>3, <2>2 DEF IMoves, MoveArgs, Completed
  <2>5. w \notin Rows
    BY <1>3, <2>2, <2>3, <2>4 DEF IMoves, HandRowsOK, By
  <2>6. Adds(MoveRequest, {w})
    <3>1. IsFiniteSet({w})
      BY FS_Singleton
    <3> QED
      BY <2>2, <2>3, <2>5, <3>1 DEF Adds
  <2>7. \A l \in mTodo[r] \ mTodo'[r] : Leg(r, l) \in {w}
    BY <2>1, <2>2
  <2>8. \A e \in {w} : /\ e.by = r
                       /\ Completed(r) /\ e.line \in {M!Out, M!In} \ mTodo'[r] /\ e = Leg(r, e.line)
    BY <2>0, <2>1, <2>2, <2>3, <2>4
  <2> QED
    BY <1>2, <2>2, <2>6, <2>7, <2>8, WriteAlone
<1>13. CASE M!PostOut(r)
  BY <1>12, <1>13 DEF M!PostOut
<1>14. CASE M!PostIn(r)
  BY <1>12, <1>14 DEF M!PostIn
<1>15. CASE M!InsertEntry(r)
  <2>1. PICK w : w = EntryOf(r)
    OBVIOUS
  <2>2. /\ mPc[r] = "insertEntry" /\ mPc'[r] = "ok" /\ ledger' = ledger \cup {w}
        /\ UNCHANGED <<removed, mArg, mMine, mTodo>>
    BY <1>3, <1>15, <2>1 DEF M!InsertEntry, M!Finish, EntryOf, IMoves, M!MovesOK
  <2>3. mMine[r] = 0 /\ mArg[r] \in EntryBody
    BY <1>3, <2>2 DEF IMoves, MoveArgs
  <2>4. w.by = r
    BY <2>1 DEF EntryOf, M!Row
  <2>5. w \notin Rows
    BY <1>3, <2>2, <2>3, <2>4 DEF IMoves, HandRowsOK, By, Completed
  <2>6. Adds(MoveRequest, {w})
    <3>1. IsFiniteSet({w})
      BY FS_Singleton
    <3> QED
      BY <2>2, <2>4, <2>5, <3>1 DEF Adds
  <2>7. \A e \in {w} : /\ e.by = r /\ mMine[r] = 0 /\ mPc'[r] = "ok"
                       /\ mArg[r] \in EntryBody /\ e = EntryOf(r)
    BY <2>1, <2>2, <2>3, <2>4
  <2> QED
    BY <1>2, <2>2, <2>6, <2>7, WriteAlone
<1> HIDE DEF HandKept
<1> QED
  BY <1>1, <1>7, <1>8, <1>9, <1>10, <1>11, <1>13, <1>14, <1>15
     DEF M!Step, M!CreateTransfer, M!FindTransfer, M!FindProduct, M!FindEntry
-----------------------------------------------------------------------------
\* A crash takes every request with it, and no row.
LEMMA CrashSteps ==
  ASSUME IStocked, CrashAll
  PROVE  IMoves' /\ RowsOK' /\ [SP!Next]_(SP!vars) /\ [PP!Next]_(PP!vars)
<1>1. /\ S!Abandon /\ P!Abandon /\ M!Abandon
      /\ RowsOK /\ UNCHANGED <<ledger, removed>>
  BY DEF CrashAll, IStocked, M!Abandon
<1>2. RowsOK' /\ Rows' = Rows /\ \A Q : By(Q)' = By(Q)
  <2>1. Rows' = Rows /\ ledger' \cap removed' = {}
    BY <1>1 DEF Rows, RowsOK
  <2> QED
    BY <1>1, <2>1, RowsSame
<1>3. [SP!Next]_(SP!vars)
  <2>1. CASE \E r \in SaleRequest : S!Active(r)
    <3>1. \E r \in SaleRequest : SP!Active(r)
      BY <2>1 DEF S!Active, SP!Active, S!Waiting, SP!Waiting
    <3>2. SP!Abandon
      BY <1>1 DEF S!Abandon, SP!Abandon, S!Waiting, SP!Waiting
    <3>3. SP!Crash
      BY <1>2, <3>1, <3>2 DEF SP!Crash
    <3> QED
      BY <3>3 DEF SP!Next
  <2>2. CASE ~ \E r \in SaleRequest : S!Active(r)
    <3>1. sPc \in [SaleRequest -> SP!PC] /\ sTodo \in [SaleRequest -> SUBSET Nat]
      BY DEF IStocked, SP!ISales, SP!IType, SP!TypeOK, SP!TableOK
    <3>2. \A r \in SaleRequest : sPc[r] \notin S!Waiting \cup {"settle"} /\ sTodo[r] = {}
      BY <2>2 DEF S!Active
    <3>3. sPc' = sPc
      BY <1>1, <3>1, <3>2 DEF S!Abandon
    <3>4. sTodo' = sTodo
      BY <1>1, <3>1, <3>2 DEF S!Abandon
    <3>5. UNCHANGED SP!vars
      BY <1>1, <1>2, <3>3, <3>4 DEF S!Abandon, SP!vars
    <3> QED
      BY <3>5
  <2> QED
    BY <2>1, <2>2
<1>4. [PP!Next]_(PP!vars)
  <2>1. CASE \E r \in PurchaseRequest : P!Active(r)
    <3>1. \E r \in PurchaseRequest : PP!Active(r)
      BY <2>1 DEF P!Active, PP!Active, P!Waiting, PP!Waiting
    <3>2. PP!Abandon
      BY <1>1 DEF P!Abandon, PP!Abandon, P!Waiting, PP!Waiting
    <3>3. PP!Crash
      BY <1>2, <3>1, <3>2 DEF PP!Crash
    <3> QED
      BY <3>3 DEF PP!Next
  <2>2. CASE ~ \E r \in PurchaseRequest : P!Active(r)
    <3>1. pPc \in [PurchaseRequest -> PP!PC] /\ pTodo \in [PurchaseRequest -> SUBSET Nat]
      BY DEF IStocked, PP!IPurchases, PP!IType, PP!TypeOK, PP!TableOK
    <3>2. \A r \in PurchaseRequest : pPc[r] \notin P!Waiting \cup {"settle"} /\ pTodo[r] = {}
      BY <2>2 DEF P!Active
    <3>3. pPc' = pPc
      BY <1>1, <3>1, <3>2 DEF P!Abandon
    <3>4. pTodo' = pTodo
      BY <1>1, <3>1, <3>2 DEF P!Abandon
    <3>5. UNCHANGED PP!vars
      BY <1>1, <1>2, <3>3, <3>4 DEF P!Abandon, PP!vars
    <3> QED
      BY <3>5
  <2> QED
    BY <2>1, <2>2
<1>5. IMoves'
  <2>1. IMoves /\ UNCHANGED <<mArg, mMine, transfers, lastTransfer, mFaults>>
    BY <1>1 DEF IStocked, M!Abandon
  <2>2. \A x \in MoveRequest :
           /\ mTodo'[x] = {}
           /\ mPc'[x] = IF mPc[x] \in M!Waiting \cup {"settle"} THEN "crashed" ELSE mPc[x]
    BY <1>1 DEF M!Abandon
  <2>3. M!MovesOK'
    BY <1>1, <2>1 DEF IMoves, M!MovesOK, M!Abandon, M!Answered
  <2>4. MoveArgs'
    BY <2>1, <2>2 DEF IMoves, MoveArgs, M!Waiting, Completed
  <2>5. PICK none : none = {}
    OBVIOUS
  <2>6. \A x \in MoveRequest :
           /\ mTodo'[x] \subseteq mTodo[x] /\ (mPc[x] = "ok" => mPc'[x] = "ok")
           /\ mPc[x] \in {"error", "crashed"} => mPc'[x] \in {"error", "crashed"}
           /\ \A l \in mTodo[x] \ mTodo'[x] :
                 mPc'[x] \in {"error", "crashed"} \/ Leg(x, l) \in none
    BY <2>1, <2>2 DEF IMoves, MoveArgs, M!Waiting
  <2>7. /\ Rows' = Rows \cup none /\ By(MoveRequest)' = By(MoveRequest) \cup none
        /\ \A e \in none : FALSE
    BY <1>2, <2>5
  <2>8. LegsOK' /\ HandRowsOK'
    BY <2>1, <2>6, <2>7, LegsKeep
  <2> QED
    BY <2>3, <2>4, <2>8 DEF IMoves
<1> QED
  BY <1>2, <1>3, <1>4, <1>5

\* Nothing by hand changes in the steps of the two services, which add rows only.
LEMMA MovesStay ==
  ASSUME IStocked, UNCHANGED moveVars, By(MoveRequest)' = By(MoveRequest)
  PROVE  IMoves'
<1>1. UNCHANGED <<transfers, lastTransfer, mPc, mArg, mMine, mTodo, mFaults>>
  BY DEF moveVars
<1>2. M!MovesOK' /\ MoveArgs'
  BY <1>1 DEF IStocked, IMoves, M!MovesOK, MoveArgs, Completed
<1>3. \A x : /\ Completed(x)' <=> Completed(x)
             /\ \A l : Leg(x, l)' = Leg(x, l)
             /\ EntryOf(x)' = EntryOf(x)
  BY <1>1, SameLegs
<1>4. \A x \in MoveRequest : \A l : Leg(x, l) \in Rows => Leg(x, l) \in Rows'
  <2>1. \A x, l : Leg(x, l).by = x
    BY DEF Leg, M!Row
  <2> QED
    BY <2>1 DEF By
<1>5. LegsOK' /\ HandRowsOK'
  BY <1>1, <1>3, <1>4 DEF IStocked, IMoves, LegsOK, HandRowsOK, M!Out, M!In
<1> QED
  BY <1>2, <1>5 DEF IMoves

\* Stock keeping starts with no rows at all.
LEMMA StockInitial == StockInit => SP!Init /\ PP!Init /\ IMoves /\ RowsOK
<1> SUFFICES ASSUME StockInit PROVE SP!Init /\ PP!Init /\ IMoves /\ RowsOK
  OBVIOUS
<1>1. S!Init /\ P!Init /\ M!Init /\ ledger = {} /\ removed = {}
  BY DEF StockInit, M!Init
<1>2. Rows = {} /\ \A Q : By(Q) = {}
  BY <1>1 DEF Rows, By
<1>3. SP!Init
  BY <1>1, <1>2 DEF S!Init, SP!Init, S!NoArg, SP!NoArg, S!NoBody, SP!NoBody, S!NoNumber, SP!NoNumber
<1>4. PP!Init
  BY <1>1, <1>2 DEF P!Init, PP!Init, P!NoArg, PP!NoArg, P!NoBody, PP!NoBody, P!NoNumber, PP!NoNumber
<1>5. IMoves
  <2>1. MoveFaults \in Nat
    BY MovesAssumption DEF M!TransferAssumption
  <2>2. M!MovesOK
    BY <1>1, <2>1 DEF M!Init, M!MovesOK
  <2>3. MoveArgs /\ LegsOK /\ HandRowsOK
    BY <1>1, <1>2 DEF M!Init, MoveArgs, LegsOK, HandRowsOK, Completed
  <2> QED
    BY <2>2, <2>3 DEF IMoves
<1>6. RowsOK
  BY <1>1, <1>2, FS_EmptySet DEF RowsOK
<1> QED
  BY <1>3, <1>4, <1>5, <1>6

\* Every step of stock keeping is one of the sales service, or none, and one of
\* the purchases service, or none.
LEMMA StockSteps ==
  ASSUME IStocked, [StockNext]_stockVars
  PROVE  IMoves' /\ RowsOK' /\ [SP!Next]_(SP!vars) /\ [PP!Next]_(PP!vars)
<1>1. CASE SaleStep
  <2>1. UNCHANGED moveVars /\ By(MoveRequest)' = By(MoveRequest) /\ RowsOK'
    BY <1>1, SaleSteps, RequestsAssumption
  <2> QED
    BY <1>1, <2>1, SaleSteps, MovesStay DEF SP!Next
<1>2. CASE PurchaseStep
  <2>1. UNCHANGED moveVars /\ By(MoveRequest)' = By(MoveRequest) /\ RowsOK'
    BY <1>2, PurchaseSteps, RequestsAssumption
  <2> QED
    BY <1>2, <2>1, PurchaseSteps, MovesStay DEF PP!Next
<1>3. CASE MoveStep
  BY <1>3, MoveSteps
<1>4. CASE CrashAll
  BY <1>4, CrashSteps
<1>5. CASE UNCHANGED stockVars
  <2>1. UNCHANGED <<ledger, removed>> /\ UNCHANGED <<saleVars, purchaseVars, moveVars>>
    BY <1>5 DEF stockVars, moveVars
  <2>2. Rows' = Rows /\ RowsOK' /\ \A Q : By(Q)' = By(Q)
    BY <2>1 DEF IStocked, RowsOK, Rows, By
  <2>3. UNCHANGED SP!vars /\ UNCHANGED PP!vars
    BY <2>1, <2>2 DEF saleVars, purchaseVars, SP!vars, PP!vars
  <2> QED
    BY <2>1, <2>2, <2>3, MovesStay
<1> QED
  BY <1>1, <1>2, <1>3, <1>4, <1>5 DEF StockNext
\* The inductive invariant of stock keeping.
LEMMA StockInvariant == StockSpec => []IStocked
<1>1. StockInit => IStocked
  <2>1. SP!Init => SP!ISales
    BY SalesAssume, SP!InitType, SP!InitStock, SP!InitNumbers DEF SP!Init, SP!ISales, SP!GeneratedOK
  <2>2. PP!Init => PP!IPurchases
    BY PurchasesAssume, PP!InitType, PP!InitStock, PP!InitNumbers DEF PP!IPurchases, PP!Init,
       PP!IReturns
  <2> QED
    BY <2>1, <2>2, StockInitial DEF IStocked
<1>2. IStocked /\ [StockNext]_stockVars => IStocked'
  <2> SUFFICES ASSUME IStocked, [StockNext]_stockVars PROVE IStocked'
    OBVIOUS
  <2>1. IMoves' /\ RowsOK' /\ [SP!Next]_(SP!vars) /\ [PP!Next]_(PP!vars)
    BY StockSteps
  <2>2. SP!ISales' /\ PP!IPurchases'
    BY <2>1, SalesKeep, PurchasesKeep DEF IStocked
  <2> QED
    BY <2>1, <2>2 DEF IStocked
<1> QED
  BY <1>1, <1>2, PTL DEF StockSpec

\* Side by side with purchases and moves by hand, over one ledger from which rows
\* are deleted, the sales service is what Sales says of it alone, if a deleted
\* row counts as one of its own still; and so is the purchases service.
THEOREM StockImplementsSales == StockSpec => SP!Spec
<1>1. StockInit => SP!Init
  BY StockInitial
<1>2. IStocked /\ [StockNext]_stockVars => [SP!Next]_(SP!vars)
  BY StockSteps
<1> QED
  BY <1>1, <1>2, StockInvariant, PTL DEF StockSpec, SP!Spec

THEOREM StockImplementsPurchases == StockSpec => PP!Spec
<1>1. StockInit => PP!Init
  BY StockInitial
<1>2. IStocked /\ [StockNext]_stockVars => [PP!Next]_(PP!vars)
  BY StockSteps
<1> QED
  BY <1>1, <1>2, StockInvariant, PTL DEF StockSpec, PP!Spec

\* Every part's tables and requests are well typed in every reachable state.
THEOREM StockTypeCorrect == StockSpec => []StockTypeOK
<1>1. IStocked => StockTypeOK
  <2> SUFFICES ASSUME IStocked PROVE StockTypeOK
    OBVIOUS
  <2>1. SP!TableOK /\ PP!TableOK
    BY DEF IStocked, SP!ISales, SP!IType, SP!TypeOK, PP!IPurchases, PP!IType, PP!TypeOK
  <2>2. S!TableOK
    BY <2>1 DEF S!TableOK, SP!TableOK, S!Doc, SP!Doc, S!PC, SP!PC, S!Waiting, SP!Waiting,
       S!Answered, SP!Answered, S!Arg, SP!Arg, S!NoArg, SP!NoArg, S!NoBody, SP!NoBody,
       S!Number, SP!Number, S!NoNumber, SP!NoNumber, S!Body, SP!Body, S!DocType, SP!DocType,
       S!DocStatus, SP!DocStatus, S!Cart, SP!Cart, S!Line, SP!Line, S!Quantity, SP!Quantity
  <2>3. P!TableOK
    BY <2>1 DEF P!TableOK, PP!TableOK, P!Doc, PP!Doc, P!PC, PP!PC, P!Waiting, PP!Waiting,
       P!Answered, PP!Answered, P!Arg, PP!Arg, P!NoArg, PP!NoArg, P!NoBody, PP!NoBody,
       P!Number, PP!Number, P!NoNumber, PP!NoNumber, P!Body, PP!Body, P!DocType, PP!DocType,
       P!DocStatus, PP!DocStatus, P!Cart, PP!Cart, P!Line, PP!Line, P!Quantity, PP!Quantity
  <2> QED
    BY <2>2, <2>3 DEF IStocked, IMoves, StockTypeOK
<1> QED
  BY <1>1, StockInvariant, PTL
-----------------------------------------------------------------------------
\* Rows of the services are never those of a transfer, and what is left of one
\* is explained.
THEOREM HalfTransfersExplained == StockSpec => []HalfTransferExplained
<1>1. ASSUME IStocked PROVE HalfTransferExplained
  <2>1. ASSUME NEW e \in ledger, e.type \in {"transfer_out", "transfer_in"}, e.doc # 0
        PROVE  \/ \E f \in Rows : /\ f.doc = e.doc /\ f.type \in {"transfer_out", "transfer_in"}
                                  /\ f # e /\ f.qty = -e.qty /\ f.product = e.product
               \/ M!Active(e.by) \/ mPc[e.by] \in {"error", "crashed"}
    <3>1. e \in Rows /\ IMoves
      BY <1>1 DEF Rows, IStocked
    <3>2. e.by \notin SaleRequest
      <4>1. SP!IStock(SP!SaleKind)
        BY <1>1 DEF IStocked, SP!ISales
      <4>2. e.by \in SaleRequest => e.type \in {"sale_out", "sale_return"}
        BY <3>1, <4>1 DEF By, SP!IStock, SP!RowsOK, SP!RowOf, SP!StockRow, SP!SaleKind
      <4> QED
        BY <2>1, <4>2
    <3>3. e.by \notin PurchaseRequest
      <4>1. PP!IStock(PP!PurchaseKind)
        BY <1>1 DEF IStocked, PP!IPurchases
      <4>2. e.by \in PurchaseRequest => e.type \in {"purchase_in", "adjustment_out"}
        BY <3>1, <4>1 DEF By, PP!IStock, PP!RowsOK, PP!RowOf, PP!StockRow, PP!PurchaseKind
      <4> QED
        BY <2>1, <4>2
    <3>4. PICK r \in MoveRequest : r = e.by /\ e \in By(MoveRequest)
      BY <1>1, <3>1, <3>2, <3>3 DEF IStocked, RowsOK, By
    <3>5. Completed(r) /\ e.line \in {M!Out, M!In} /\ e = Leg(r, e.line)
      <4>1. e # EntryOf(r)
        BY <2>1 DEF EntryOf, M!Row
      <4> QED
        BY <3>1, <3>4, <4>1 DEF IMoves, HandRowsOK
    <3>6. PICK l \in {M!Out, M!In} : l # e.line /\ {l, e.line} = {M!Out, M!In}
      BY <3>5 DEF M!Out, M!In
    <3>7. mArg[r].qty \in Int
      <4>1. mArg[r] \in TransferBody
        BY <3>1, <3>5 DEF IMoves, MoveArgs, Completed
      <4> QED
        BY <4>1, MovesAssumption DEF M!TransferAssumption, M!Quantity
    <3>8. PICK f : f = Leg(r, l)
      OBVIOUS
    <3>9. /\ f.doc = e.doc /\ f.product = e.product /\ f.type \in {"transfer_out", "transfer_in"}
          /\ f.type # e.type /\ f.qty = -e.qty
      BY <3>5, <3>6, <3>7, <3>8 DEF Leg, M!Row, M!Out, M!In
    <3>10. l \in mTodo[r] \/ mPc[r] \in {"error", "crashed"} \/ f \in Rows
      BY <3>1, <3>5, <3>8 DEF IMoves, LegsOK
    <3>11. l \in mTodo[r] => M!Active(r)
      BY DEF M!Active
    <3> QED
      BY <3>4, <3>9, <3>10, <3>11
  <2> QED
    BY <2>1 DEF HalfTransferExplained, M!HalfTransferExplained, Rows
<1> QED
  BY <1>1, StockInvariant, PTL
-----------------------------------------------------------------------------
\* The sums of the parts are sums like any other.
LEMMA SameSums ==
  ASSUME NEW f
  PROVE  /\ S!SumFunction(f) = SumFunction(f)
         /\ SP!SumFunction(f) = SumFunction(f)
         /\ PP!SumFunction(f) = SumFunction(f)
BY DEF SumFunction, SumFunctionOnSet, FoldFunctionOnSet, MapThenFoldSet,
   S!SumFunction, S!SumFunctionOnSet, S!FoldFunctionOnSet, S!MapThenFoldSet,
   SP!SumFunction, SP!SumFunctionOnSet, SP!FoldFunctionOnSet, SP!MapThenFoldSet,
   PP!SumFunction, PP!SumFunctionOnSet, PP!FoldFunctionOnSet, PP!MapThenFoldSet

\* The rows of a product that requests in R inserted.
Part(R, b, p) == {e \in By(R) : e.biz = b /\ e.product = p}

\* All is quiet: every document has the rows it is due.
Quiet == IStocked /\ ~Busy /\ NothingCutShort

\* The rows of the sales service come to what its documents come to.
LEMMA SalesBooked ==
  ASSUME Quiet, NEW b, NEW p
  PROVE  Quantity(Part(SaleRequest, b, p)) = Booked(sales, b, p, S!SaleEffect)
<1>1. SP!IType /\ SP!IStock(SP!SaleKind) /\ SP!IdsOK /\ SP!IsFiniteSet(By(SaleRequest))
  <2>1. IsFiniteSet(By(SaleRequest))
    BY FS_Subset DEF Quiet, IStocked, RowsOK, By
  <2>2. SP!IsFiniteSet(By(SaleRequest))
    BY <2>1 DEF IsFiniteSet, SP!IsFiniteSet
  <2> QED
    BY <2>2 DEF Quiet, IStocked, SP!ISales, SP!INumbers
<1>2. \A r \in SaleRequest : sMine[r] # 0 =>
         sTodo[r] = {} /\ sPc[r] \notin {"restock", "error", "crashed"}
  BY DEF Quiet, Busy, NothingCutShort, S!Active, S!Waiting
<1>3. /\ SP!SaleKind.sign \in {-1, 1} /\ SP!SaleKind.undo \in {-1, 1}
      /\ \A d : SP!Moves(SP!SaleKind, d) /\ SP!Sign(SP!SaleKind, d) = S!SaleEffect(d)
  BY DEF SP!SaleKind, SP!Moves, SP!Sign, S!SaleEffect
<1>4. SP!StockOf(b, p) =
         SP!SumFunction([d \in {x \in sales : SP!Moves(SP!SaleKind, x) /\ x.biz = b} |->
                           SP!Sign(SP!SaleKind, d) * SP!QtyOf(d, p)])
  BY <1>1, <1>2, <1>3, SalesAssume, SP!DocsBooked
<1>5. \A d : SP!QtyOf(d, p) = LinesSum(d, p)
  BY SameSums DEF SP!QtyOf, SP!LinesOfProduct, LinesSum
<1>6. [d \in {x \in sales : SP!Moves(SP!SaleKind, x) /\ x.biz = b} |->
          SP!Sign(SP!SaleKind, d) * SP!QtyOf(d, p)]
      = [d \in {x \in sales : x.biz = b} |-> S!SaleEffect(d) * LinesSum(d, p)]
  BY <1>3, <1>5
<1>7. SP!StockOf(b, p) = Quantity(Part(SaleRequest, b, p))
  BY SameSums DEF SP!StockOf, Quantity, Part
<1> QED
  BY <1>4, <1>6, <1>7, SameSums DEF Booked

\* And so do those of the purchases service.
LEMMA PurchasesBooked ==
  ASSUME Quiet, NEW b, NEW p
  PROVE  Quantity(Part(PurchaseRequest, b, p))
         = Booked({d \in purchases : P!MovesStock(d)}, b, p, P!PurchaseEffect)
<1>1. PP!IType /\ PP!IStock(PP!PurchaseKind) /\ PP!IdsOK /\ PP!IsFiniteSet(By(PurchaseRequest))
  <2>1. IsFiniteSet(By(PurchaseRequest))
    BY FS_Subset DEF Quiet, IStocked, RowsOK, By
  <2>2. PP!IsFiniteSet(By(PurchaseRequest))
    BY <2>1 DEF IsFiniteSet, PP!IsFiniteSet
  <2> QED
    BY <2>2 DEF Quiet, IStocked, PP!IPurchases, PP!INumbers
<1>2. \A r \in PurchaseRequest : pMine[r] # 0 =>
         pTodo[r] = {} /\ pPc[r] \notin {"restock", "error", "crashed"}
  BY DEF Quiet, Busy, NothingCutShort, P!Active, P!Waiting
<1>3. /\ PP!PurchaseKind.sign \in {-1, 1} /\ PP!PurchaseKind.undo \in {-1, 1}
      /\ \A d : /\ PP!Moves(PP!PurchaseKind, d) <=> P!MovesStock(d)
                /\ PP!Sign(PP!PurchaseKind, d) = P!PurchaseEffect(d)
  BY DEF PP!PurchaseKind, PP!Moves, PP!Sign, P!PurchaseEffect, P!MovesStock
<1>4. PP!StockOf(b, p) =
         PP!SumFunction([d \in {x \in purchases : PP!Moves(PP!PurchaseKind, x) /\ x.biz = b} |->
                           PP!Sign(PP!PurchaseKind, d) * PP!QtyOf(d, p)])
  BY <1>1, <1>2, <1>3, PurchasesAssume, PP!DocsBooked
<1>5. \A d : PP!QtyOf(d, p) = LinesSum(d, p)
  BY SameSums DEF PP!QtyOf, PP!LinesOfProduct, LinesSum
<1>6. [d \in {x \in purchases : PP!Moves(PP!PurchaseKind, x) /\ x.biz = b} |->
          PP!Sign(PP!PurchaseKind, d) * PP!QtyOf(d, p)]
      = [d \in {x \in {y \in purchases : P!MovesStock(y)} : x.biz = b} |->
            P!PurchaseEffect(d) * LinesSum(d, p)]
  <2>1. {x \in purchases : PP!Moves(PP!PurchaseKind, x) /\ x.biz = b}
        = {x \in {y \in purchases : P!MovesStock(y)} : x.biz = b}
    BY <1>3
  <2> QED
    BY <1>3, <1>5, <2>1
<1>7. PP!StockOf(b, p) = Quantity(Part(PurchaseRequest, b, p))
  BY SameSums DEF PP!StockOf, Quantity, Part
<1> QED
  BY <1>4, <1>6, <1>7, SameSums DEF Booked
-----------------------------------------------------------------------------
\* Quantities are whole, and only a row entered by hand is of no document.
LEMMA RowKinds ==
  ASSUME IStocked, NEW e \in Rows
  PROVE  /\ e.qty \in Int
         /\ e.by \in SaleRequest \cup PurchaseRequest => e.doc # 0
<1>1. CASE e.by \in SaleRequest
  <2>1. SP!IType /\ SP!IStock(SP!SaleKind) /\ e \in By(SaleRequest)
    BY <1>1 DEF IStocked, SP!ISales, By
  <2>2. e.qty \in Int
    BY <2>1 DEF SP!IType, SP!TypeOK, SP!Entry
  <2>3. e.doc # 0
    BY <2>1 DEF SP!IStock, SP!RowsOK, SP!RowOf, SP!StockRow
  <2> QED
    BY <2>2, <2>3
<1>2. CASE e.by \in PurchaseRequest
  <2>1. PP!IType /\ PP!IStock(PP!PurchaseKind) /\ e \in By(PurchaseRequest)
    BY <1>2 DEF IStocked, PP!IPurchases, By
  <2>2. e.qty \in Int
    BY <2>1 DEF PP!IType, PP!TypeOK, PP!Entry
  <2>3. e.doc # 0
    BY <2>1 DEF PP!IStock, PP!RowsOK, PP!RowOf, PP!StockRow
  <2> QED
    BY <2>2, <2>3
<1>3. CASE e.by \in MoveRequest
  <2>1. e \in By(MoveRequest) /\ IMoves
    BY <1>3 DEF IStocked, By
  <2>2. CASE Completed(e.by) /\ e = Leg(e.by, e.line)
    <3>1. mArg[e.by] \in TransferBody
      BY <1>3, <2>1, <2>2 DEF IMoves, MoveArgs, Completed
    <3>2. mArg[e.by].qty \in Int
      BY <3>1, MovesAssumption DEF M!TransferAssumption, M!Quantity
    <3>3. e.qty = -1 * mArg[e.by].qty \/ e.qty = 1 * mArg[e.by].qty
      BY <2>2 DEF Leg, M!Row
    <3>4. e.qty \in Int
      BY <3>2, <3>3
    <3> QED
      BY <1>3, <3>4, RequestsAssumption
  <2>3. CASE mArg[e.by] \in EntryBody /\ e = EntryOf(e.by)
    <3>1. e.qty = mArg[e.by].qty
      BY <2>3 DEF EntryOf, M!Row
    <3>2. e.qty \in Int
      BY <2>3, <3>1, MovesAssumption DEF M!TransferAssumption
    <3> QED
      BY <1>3, <3>2, RequestsAssumption
  <2> QED
    BY <2>1, <2>2, <2>3 DEF IMoves, HandRowsOK
<1> QED
  BY <1>1, <1>2, <1>3 DEF IStocked, RowsOK

\* The rows of the transfers of a product.
TransferRows(b, p) == {e \in Part(MoveRequest, b, p) : e.doc # 0}

\* When all is quiet, every transfer has both rows, and they cancel out.
LEMMA TransfersCancel ==
  ASSUME Quiet, NEW b, NEW p, NEW v, \A e \in Rows : v[e] = e.qty
  PROVE  Sum(v, TransferRows(b, p)) = 0
<1> DEFINE C == {r \in MoveRequest : Completed(r) /\ mArg[r].biz = b /\ mArg[r].product = p}
           Outs == {Leg(r, M!Out) : r \in C}
           Ins == {Leg(r, M!In) : r \in C}
           other == [e \in Outs |-> Leg(e.by, M!In)]
<1>1. \A r \in C : /\ r \in MoveRequest /\ Completed(r) /\ mArg[r].qty \in Int
                   /\ Leg(r, M!Out) \in Rows /\ Leg(r, M!In) \in Rows
  <2>1. ASSUME NEW r \in MoveRequest, Completed(r)
        PROVE  mArg[r].qty \in Int /\ Leg(r, M!Out) \in Rows /\ Leg(r, M!In) \in Rows
    <3>1. mArg[r] \in TransferBody /\ mMine[r] # 0
      BY <2>1 DEF Quiet, IStocked, IMoves, MoveArgs, Completed
    <3>2. mTodo[r] = {} /\ mPc[r] \notin {"error", "crashed"}
      BY <3>1 DEF Quiet, Busy, NothingCutShort, M!Active
    <3>3. mArg[r].qty \in Int
      BY <3>1, MovesAssumption DEF M!TransferAssumption, M!Quantity
    <3> QED
      BY <2>1, <3>2, <3>3 DEF Quiet, IStocked, IMoves, LegsOK
  <2> QED
    BY <2>1
<1>2. \A r \in C : LET o == Leg(r, M!Out)  i == Leg(r, M!In)
                   IN  /\ o.by = r /\ o.biz = b /\ o.product = p /\ o.doc # 0
                       /\ i.by = r /\ i.biz = b /\ i.product = p /\ i.doc # 0
                       /\ o.line # i.line /\ o.line = M!Out /\ i.line = M!In
                       /\ o.qty = -1 * mArg[r].qty /\ i.qty = 1 * mArg[r].qty
  BY DEF Leg, M!Row, M!Out, M!In, Completed
<1>3. TransferRows(b, p) = Outs \cup Ins
  <2>1. ASSUME NEW e \in TransferRows(b, p) PROVE e \in Outs \cup Ins
    <3>1. e \in By(MoveRequest) /\ e.doc # 0 /\ e.biz = b /\ e.product = p
      BY DEF TransferRows, Part
    <3>2. e # EntryOf(e.by)
      BY <3>1 DEF EntryOf, M!Row
    <3>3. Completed(e.by) /\ e.line \in {M!Out, M!In} /\ e = Leg(e.by, e.line)
      BY <3>1, <3>2 DEF Quiet, IStocked, IMoves, HandRowsOK
    <3>4. mArg[e.by].biz = b /\ mArg[e.by].product = p
      BY <3>1, <3>3 DEF Leg, M!Row
    <3>5. e.by \in C
      BY <3>1, <3>3, <3>4 DEF By
    <3> QED
      BY <3>3, <3>5
  <2>2. ASSUME NEW r \in C
        PROVE  Leg(r, M!Out) \in TransferRows(b, p) /\ Leg(r, M!In) \in TransferRows(b, p)
    BY <1>1, <1>2 DEF TransferRows, Part, By
  <2> QED
    BY <2>1, <2>2
<1>4. \A e \in Outs : e.by \in C /\ e = Leg(e.by, M!Out) /\ other[e] = Leg(e.by, M!In)
  BY <1>2
<1>5. \A e \in Outs \cup Ins : e \in Rows
  BY <1>1
<1>6. IsFiniteSet(Outs) /\ IsFiniteSet(Ins)
  BY <1>5, FS_Subset DEF Quiet, IStocked, RowsOK
<1>7. Outs \cap Ins = {}
  BY <1>2
<1>8. {other[e] : e \in Outs} = Ins
  <2>1. \A r \in C : Leg(r, M!Out) \in Outs /\ other[Leg(r, M!Out)] = Leg(r, M!In)
    BY <1>2
  <2> QED
    BY <1>4, <2>1
<1>9. \A e \in Outs : v[e] \in Int /\ v[other[e]] = -1 * v[e]
  <2>1. ASSUME NEW e \in Outs PROVE v[e] \in Int /\ v[other[e]] = -1 * v[e]
    <3>1. PICK r \in C : r = e.by
      BY <1>4
    <3>2. e.qty = -1 * mArg[r].qty /\ other[e].qty = 1 * mArg[r].qty /\ mArg[r].qty \in Int
      BY <1>1, <1>2, <1>4, <3>1
    <3>3. v[e] = e.qty /\ v[other[e]] = other[e].qty
      BY <1>4, <1>5, <3>1
    <3> QED
      BY <3>2, <3>3
  <2> QED
    BY <2>1
<1>10. \A x, y \in Outs : other[x] = other[y] => x = y
  BY <1>2, <1>4
<1> HIDE DEF C, Outs, Ins, other
<1>11. PICK O, I, f : O = Outs /\ I = Ins /\ f = other
  OBVIOUS
<1>12. PICK c \in {-1, 1} : c = -1
  OBVIOUS
<1>13. Sum(v, {f[e] : e \in O}) = c * Sum(v, O)
  <2>1. IsFiniteSet(O) /\ \A x, y \in O : f[x] = f[y] => x = y
    BY <1>6, <1>10, <1>11
  <2>2. \A e \in O : v[e] \in Int /\ v[f[e]] = c * v[e]
    BY <1>9, <1>11, <1>12
  <2> QED
    BY <2>1, <2>2, SumOfImages
<1>14. Sum(v, I) = -1 * Sum(v, O)
  <2>1. {f[e] : e \in O} = I
    BY <1>8, <1>11
  <2>2. Sum(v, I) = c * Sum(v, O)
    BY <1>13, <2>1
  <2>3. Sum(v, O) \in Int
    BY <1>6, <1>9, <1>11, SumIsInt
  <2> QED
    BY <1>12, <2>2, <2>3
<1>15. \A e \in O \cup I : v[e] \in Int
  <2>1. \A e \in O : v[e] \in Int
    BY <1>9, <1>11
  <2>2. \A e \in I : v[e] \in Int
    BY <1>5, <1>11, RowKinds DEF Quiet
  <2> QED
    BY <2>1, <2>2
<1>16. Sum(v, O \cup I) = Sum(v, O) + Sum(v, I)
  BY <1>6, <1>7, <1>11, <1>15, SumOfUnion
<1>17. Sum(v, O) \in Int
  BY <1>6, <1>11, <1>15, SumIsInt
<1> QED
  BY <1>3, <1>11, <1>14, <1>16, <1>17

\* When nothing is in flight and nothing was cut short, the stock of a product is
\* what was entered by hand less what was deleted by hand, and what the documents
\* come to, of whatever was done and in whatever order.
THEOREM StockIsAccountedFor == StockSpec => []StockReconciles
<1>1. ASSUME Quiet, NEW b \in Business, NEW p \in Product
      PROVE  Stock(b, p) = Quantity(ByHand(b, p)) - Quantity(Removed(b, p))
                           + Booked(sales, b, p, S!SaleEffect)
                           + Booked({d \in purchases : P!MovesStock(d)}, b, p, P!PurchaseEffect)
  <2>1. PICK v : \A e \in Rows : v[e] = e.qty
    <3> DEFINE u == [e \in Rows |-> e.qty]
    <3>1. \A e \in Rows : u[e] = e.qty
      OBVIOUS
    <3> QED
      BY <3>1
  <2>2. /\ \A e \in Rows : v[e] \in Int
        /\ \A e \in Rows : e.by \in SaleRequest \cup PurchaseRequest => e.doc # 0
    BY <1>1, <2>1, RowKinds DEF Quiet
  <2>3. IsFiniteSet(Rows) /\ ledger \cap removed = {}
    BY <1>1 DEF Quiet, IStocked, RowsOK
  <2>4. PICK G, L, R, H, T, A, B :
           /\ G = {e \in Rows : e.biz = b /\ e.product = p}
           /\ L = {e \in ledger : e.biz = b /\ e.product = p} /\ R = Removed(b, p)
           /\ H = ByHand(b, p) /\ T = TransferRows(b, p)
           /\ A = Part(SaleRequest, b, p) /\ B = Part(PurchaseRequest, b, p)
    OBVIOUS
  <2>5. /\ G \subseteq Rows /\ L \subseteq Rows /\ R \subseteq Rows /\ H \subseteq Rows
        /\ T \subseteq Rows /\ A \subseteq Rows /\ B \subseteq Rows
    BY <2>4 DEF Rows, Removed, ByHand, TransferRows, Part, By
  <2>6. /\ IsFiniteSet(G) /\ IsFiniteSet(L) /\ IsFiniteSet(R) /\ IsFiniteSet(H)
        /\ IsFiniteSet(T) /\ IsFiniteSet(A) /\ IsFiniteSet(B)
    BY <2>3, <2>5, FS_Subset
  <2>7. L \cap R = {} /\ G = L \cup R
    BY <2>3, <2>4 DEF Rows, Removed
  <2>8. /\ H \cap T = {} /\ A \cap B = {} /\ (H \cup T) \cap (A \cup B) = {}
        /\ G = (H \cup T) \cup (A \cup B)
    <3>1. \A e \in Rows : e.by \in SaleRequest \cup PurchaseRequest \cup MoveRequest
      BY <1>1 DEF Quiet, IStocked, RowsOK
    <3>2. \A e \in Rows : /\ e \in H <=> e \in G /\ e.doc = 0
                          /\ e \in T <=> e \in G /\ e.by \in MoveRequest /\ e.doc # 0
                          /\ e \in A <=> e \in G /\ e.by \in SaleRequest
                          /\ e \in B <=> e \in G /\ e.by \in PurchaseRequest
      BY <2>4 DEF Rows, ByHand, TransferRows, Part, By
    <3> QED
      BY <2>2, <2>5, <3>1, <3>2, RequestsAssumption
  <2>9. /\ Quantity(H) = Sum(v, H) /\ Quantity(R) = Sum(v, R) /\ Quantity(A) = Sum(v, A)
        /\ Quantity(B) = Sum(v, B) /\ Quantity(L) = Sum(v, L)
    <3>1. ASSUME NEW Q, Q \subseteq Rows, IsFiniteSet(Q) PROVE Quantity(Q) = Sum(v, Q)
      <4>1. PICK u : u = [e \in Q |-> e.qty]
        OBVIOUS
      <4>2. \A e \in Q : u[e] = v[e]
        BY <2>1, <3>1, <4>1
      <4>3. Sum(u, Q) = Sum(v, Q)
        BY <3>1, <4>2, SumOfSame
      <4> QED
        BY <4>1, <4>3 DEF Quantity, SumFunction, Sum
    <3> QED
      BY <2>5, <2>6, <3>1
  <2>10. Stock(b, p) = Quantity(L)
    BY <2>4, SameSums DEF Stock, S!StockOf, Quantity
  <2>11. Sum(v, G) = Sum(v, L) + Sum(v, R)
    <3>1. \A e \in L \cup R : v[e] \in Int
      BY <2>2, <2>5
    <3> QED
      BY <2>6, <2>7, <3>1, SumOfUnion
  <2>12. Sum(v, G) = (Sum(v, H) + Sum(v, T)) + (Sum(v, A) + Sum(v, B))
    <3>1. PICK X, Y : X = H \cup T /\ Y = A \cup B
      OBVIOUS
    <3>2. IsFiniteSet(X) /\ IsFiniteSet(Y) /\ X \cap Y = {} /\ G = X \cup Y
      BY <2>6, <2>8, <3>1, FS_Union
    <3>3. \A e \in X \cup Y : v[e] \in Int
      BY <2>2, <2>5, <3>1
    <3>4. Sum(v, G) = Sum(v, X) + Sum(v, Y)
      BY <3>2, <3>3, SumOfUnion
    <3>5. Sum(v, H \cup T) = Sum(v, H) + Sum(v, T)
      <4>1. \A e \in H \cup T : v[e] \in Int
        BY <2>2, <2>5
      <4> QED
        BY <2>6, <2>8, <4>1, SumOfUnion
    <3>6. Sum(v, A \cup B) = Sum(v, A) + Sum(v, B)
      <4>1. \A e \in A \cup B : v[e] \in Int
        BY <2>2, <2>5
      <4> QED
        BY <2>6, <2>8, <4>1, SumOfUnion
    <3> QED
      BY <3>1, <3>4, <3>5, <3>6
  <2>13. Sum(v, T) = 0
    BY <1>1, <2>1, <2>4, TransfersCancel
  <2>14. /\ Quantity(A) = Booked(sales, b, p, S!SaleEffect)
         /\ Quantity(B) = Booked({d \in purchases : P!MovesStock(d)}, b, p, P!PurchaseEffect)
    BY <1>1, <2>4, SalesBooked, PurchasesBooked
  <2>15. /\ Sum(v, L) \in Int /\ Sum(v, R) \in Int /\ Sum(v, H) \in Int
         /\ Sum(v, A) \in Int /\ Sum(v, B) \in Int
    <3>1. ASSUME NEW Q, Q \subseteq Rows, IsFiniteSet(Q) PROVE Sum(v, Q) \in Int
      <4>1. \A e \in Q : v[e] \in Int
        BY <2>2, <3>1
      <4> QED
        BY <3>1, <4>1, SumIsInt
    <3> QED
      BY <2>5, <2>6, <3>1
  <2>16. Sum(v, L) = Sum(v, H) - Sum(v, R) + Sum(v, A) + Sum(v, B)
    BY <2>11, <2>12, <2>13, <2>15
  <2> QED
    BY <2>4, <2>9, <2>10, <2>14, <2>16
<1>2. IStocked => StockReconciles
  BY <1>1 DEF StockReconciles, Quiet
<1> QED
  BY <1>2, StockInvariant, PTL
===============================================================================
