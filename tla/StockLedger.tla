----------------------------- MODULE StockLedger -----------------------------
(***************************************************************************)
(* The stock ledger, table stock_entries: one row for every movement of a  *)
(* product. There is no stock column anywhere; the stock of a product is   *)
(* the sum of the quantities of its rows.                                  *)
(*                                                                         *)
(* A row's unit cost, reference and note are left out. In their place a    *)
(* row carries who wrote it: the request (by), the document it was written *)
(* for (doc, 0 when it was entered by hand) and the line of that document. *)
(***************************************************************************)
EXTENDS Integers, Sequences, FiniteSetsExt

CONSTANTS Business, \* the tenants
          Product,  \* product ids
          Request   \* HTTP requests; each is served once

VARIABLE ledger     \* the rows of stock_entries

Quantity == Nat \ {0}

\* A document's line, and the bodies' line arrays (the empty one included).
Line == [product : Product, qty : Quantity]
Cart == Seq(Line)

EntryType == {"opening_stock", "purchase_in", "adjustment_in", "adjustment_out",
              "sale_out", "sale_return", "transfer_out", "transfer_in"}

Entry == [biz : Business, product : Product, type : EntryType, qty : Int,
          by : Request, doc : Nat, line : Nat]

(***************************************************************************)
(* The quantity the stock overview, the POS search and the reports show:   *)
(* SUM(quantity) over the product's rows.                                  *)
(***************************************************************************)
StockOf(b, p) ==
    SumFunction([e \in {x \in ledger : x.biz = b /\ x.product = p} |-> e.qty])
=============================================================================
