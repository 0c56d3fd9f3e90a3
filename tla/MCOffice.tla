------------------------------ MODULE MCOffice ------------------------------
(* Ids count from one in every table, so the tables share them, except those *)
(* of which fewer will do.                                                   *)
EXTENDS Office, TLC

CONSTANTS Id, tea, teapot

Symmetry ==
    Permutations(Request) \cup Permutations(Id)

\* The sku of the tea, which changes, may be contained in that of the teapot.
Codes == {"T1", "T10", "T2"}
LabelsThere == {[p \in Item |-> IF p = tea THEN s ELSE "T10"] : s \in {"T1", "T2"}}
Mentions == {x \in Item \X Codes \X Codes : x[2] = x[3] \/ (x[2] = "T10" /\ x[3] = "T1")}

Paid(table, total, paid) ==
    IF table \notin {"sale", "purchase"} THEN "none"
    ELSE IF paid >= total THEN "paid" ELSE IF paid > 0 THEN "partial" ELSE "due"
Doc(table, type, total, paid, of, dated) ==
    [table |-> table, type |-> type, total |-> total, paid |-> paid,
     status |-> Paid(table, total, paid), of |-> of, dated |-> dated, live |-> TRUE]
Good(w, n, c) == [ware |-> w, qty |-> n, cost |-> c]

\* Business as usual; and what was sold is paid for, with postings.
Openings ==
    {[docs |-> <<Doc("sale", "sale", 3, 1, "contact", TRUE),
                 Doc("purchase", "purchase", 5, 2, "contact", TRUE),
                 Doc("expense", "expense", 2, 2, "rent", TRUE)>>,
      entries |-> <<Good(tea, 6, 2), Good(teapot, 2, 3)>>],
     [docs |-> <<Doc("sale", "sale", 3, 3, "contact", TRUE),
                 Doc("posting", "debit", 4, 0, "asset", TRUE),
                 Doc("posting", "credit", 4, 0, "liability", TRUE)>>,
      entries |-> <<Good(tea, 2, 2)>>]}

\* What may part the reports: documents overpaid, returned, quoted, undated; or, as
\* patched, owed for and marked paid; and more of them than a list holds.
Shapes ==
    {Doc("sale", "sale_return", 2, 2, "contact", TRUE),
     Doc("sale", "quotation", 4, 0, "other", FALSE),
     Doc("purchase", "purchase", 1, 2, "contact", FALSE),
     Doc("expense", "expense", 3, 3, "none", FALSE),
     Doc("posting", "debit", 1, 0, "expense", FALSE),
     Doc("posting", "credit", 2, 0, "equity", TRUE)}

Stock == {Good(tea, -7, 0), Good(tea, 1, 1)}
=============================================================================
