------------------------------- MODULE Reports -------------------------------
(***************************************************************************)
(* The figures the API shows: ReportsService and its files, the statements *)
(* of AccountingService, the ledger of a contact, the summaries of the     *)
(* other services. A report reads its figures by several SQL statements,   *)
(* in any order where they are under Promise.all, while other services go  *)
(* on writing; several reports show the same figure, each with a query of  *)
(* its own. The dashboard is cached.                                       *)
(*                                                                         *)
(* A document is a row of sales, of purchases, of expenses or of postings: *)
(* its type, its total, what is paid of it and what its payment status     *)
(* says, which need not agree, whose it is (a contact's or not, a          *)
(* category's, a kind of account's), whether it falls into the dates one   *)
(* may ask for. Later rows have later dates.                               *)
(***************************************************************************)
EXTENDS Requests, FiniteSetsExt

CONSTANTS Shape,         \* documents that are written
          Opening,       \* books there may be at the start
          Ware, Tracked, \* products, and those whose stock is tracked
          AlertQuantity, \* of every product
          Goods,         \* stock rows that are written
          PageRows,      \* rows a report lists at most
          Marks, Amounts, \* payment statuses and paid amounts that are set by hand
          MaxReports, MaxWrites \* bounds on reports asked for and on writes

VARIABLES docs,      \* the documents, deleted ones included
          entries,   \* rows of the stock ledger
          dashboard, \* the figures in the cache, or none
          readings,  \* history: the figures that were answered
          past       \* history: docs and entries after each write

reportVars == <<docs, entries, dashboard, readings, past>>

\* The payment status, which expenses and postings do not have.
Owed == {"due", "partial", "overdue"}
Status == Owed \cup {"paid", "none"}
Document == [table : STRING, type : STRING, total : Int, paid : Int, status : Status,
             of : STRING, dated : BOOLEAN, live : BOOLEAN]
StockRow == [ware : Ware, qty : Int, cost : Int]

ASSUME ReportAssumption ==
    /\ IsFiniteSet(Ware) /\ Tracked \subseteq Ware
    /\ Shape \subseteq Document /\ Goods \subseteq StockRow
    /\ Opening \subseteq [docs : Seq(Document), entries : Seq(StockRow)]
    /\ Marks \subseteq Owed \cup {"paid"} /\ Amounts \subseteq Int
    /\ {PageRows, AlertQuantity, MaxReports, MaxWrites} \subseteq Nat

NoCost == 0
NoDashboard == {}

ReportsInit(openings) ==
    /\ \E books \in openings :
          docs = books.docs /\ entries = books.entries /\ past = <<books>>
    /\ dashboard = NoDashboard
    /\ readings = {}

Live(table) == {i \in DOMAIN docs : docs[i].table = table /\ docs[i].live}
Within(table, p) == {i \in Live(table) : p = "all" \/ docs[i].dated}
Total(ids) == SumFunction([i \in ids |-> docs[i].total])
Due(ids) == Total(ids) - SumFunction([i \in ids |-> docs[i].paid])
Newest(ids) == {i \in ids : Cardinality({j \in ids : j > i}) < PageRows}
AtLeastNought(n) == IF n > 0 THEN n ELSE 0
-----------------------------------------------------------------------------
(***************************************************************************)
(* The reports: of each its statements, and of a statement the figures it  *)
(* brings. A figure that several reports show has one name.                *)
(***************************************************************************)
Both(f, g) == [x \in DOMAIN f \cup DOMAIN g |-> IF x \in DOMAIN f THEN f[x] ELSE g[x]]
Counted(ids) == [orders |-> Cardinality(ids)]
Sold(ids) == [revenue |-> Total(ids)]
Spent(ids) == [spend |-> Total(ids)]

RowsIn(ledger, w) == {k \in DOMAIN ledger : ledger[k].ware = w}
StockIn(ledger, w) == SumFunction([k \in RowsIn(ledger, w) |-> ledger[k].qty])
Quantity(w) == StockIn(entries, w)
Scarce(wares) == Cardinality({w \in wares : Quantity(w) <= AlertQuantity})

\* Low or out of stock, of the products that have rows in the ledger.
Dashboard ==
    <<Counted(Live("sale")), Sold(Live("sale")), Spent(Live("purchase")),
      [scarce |-> Scarce({w \in Ware : RowsIn(entries, w) # {}})]>>

\* ... or of those whose stock is tracked.
StockOverview == <<[scarce |-> Scarce(Tracked)]>>

\* A product is worth its stock at the cost it had last.
Priced(w) == {k \in RowsIn(entries, w) : entries[k].cost # NoCost}
LastCost(w) == IF Priced(w) = {} THEN NoCost ELSE entries[Max(Priced(w))].cost
Worth(w) == AtLeastNought(Quantity(w)) * LastCost(w)
StockSummary ==
    <<[scarce |-> Scarce(Tracked)], [worth |-> SumFunction([w \in Tracked |-> Worth(w)])]>>

\* ... or, in the stock report, at the sum of all its costs.
CostsOf(w) == SumFunction([k \in Priced(w) |-> entries[k].cost])
WorthAtAll(w) == Quantity(w) * CostsOf(w)
\* The sheet and the pages say of every product whether it is low or out of stock.
StockExcel == [scarce |-> Scarce(Ware)]
StockPdf == [scarce |-> Scarce(Ware), worth |-> SumFunction([w \in Ware |-> WorthAtAll(w)])]
StockReport == <<Both(StockExcel, StockPdf)>>

\* A sheet holds the rows that are listed and no more ...
SalesExcel(p) == Sold(Newest(Within("sale", p)))
PurchasesExcel(p) == Spent(Newest(Within("purchase", p)))
\* ... the pages end with the sums.
SalesPdf(p) == Both(Counted(Within("sale", p)), Sold(Within("sale", p)))
PurchasesPdf(p) == Spent(Within("purchase", p))
SalesReport(p) == <<SalesExcel(p), SalesPdf(p)>>
PurchasesReport(p) == <<PurchasesExcel(p), PurchasesPdf(p)>>

\* Orders by day or month since a day: the periods add up.
RevenueByPeriod(p) == <<Both(Counted(Within("sale", p)), Sold(Within("sale", p)))>>

SalesSummary == <<Counted(Live("sale")), Sold(Live("sale"))>>
PurchasesSummary == <<Spent(Live("purchase"))>>

\* Mutant: deleted expenses count.
ExpenseSummaryOfAll ==
    <<[expenses |-> Total({i \in DOMAIN docs : docs[i].table = "expense"})]>>

ExpenseSummary == <<[expenses |-> Total(Live("expense"))]>>

\* The report adds them up by category besides.
ByCategory(ids) ==
    SumFunction([c \in {docs[i].of : i \in ids} |-> Total({i \in ids : docs[i].of = c})])
ExpensesPdf(p) == [expenses |-> ByCategory(Within("expense", p))]
ExpenseReport(p) == <<[expenses |-> Total(Within("expense", p))], ExpensesPdf(p)>>

TaxReport == <<Sold(Live("sale")), Spent(Live("purchase")), Counted(Live("sale"))>>

ProfitLoss(p) ==
    <<Sold(Within("sale", p)), Spent(Within("purchase", p)),
      [expenses |-> Total(Within("expense", p))]>>

\* What a contact owes: all its sales in its report ...
Mine(table) == {i \in Live(table) : docs[i].of = "contact"}
CustomerReport == <<[owed |-> AtLeastNought(Due(Mine("sale")))]>>
SupplierReport == <<[owing |-> AtLeastNought(Due(Mine("purchase")))]>>
\* ... those of type sale in its ledger ...
Invoices(table) == {i \in Mine(table) : docs[i].type = table}
ContactLedger == <<[owed |-> Due(Invoices("sale"))], [owing |-> Due(Invoices("purchase"))]>>
\* ... and of these, here, the ones whose status says that something is owed.
Unpaid(table) == {i \in Invoices(table) : docs[i].status \in Owed}
OverdueInvoices == <<[owed |-> Due(Unpaid("sale"))], [owing |-> Due(Unpaid("purchase"))]>>

\* Debits less credits of the accounts of these kinds.
BalanceOf(ids) == Total({i \in ids : docs[i].type = "debit"})
              - Total({i \in ids : docs[i].type = "credit"})
Of(kinds, p) == {i \in Within("posting", p) : docs[i].of \in kinds}
TrialBalance ==
    <<[assets |-> BalanceOf(Of({"asset"}, "all")),
       claims |-> 0 - BalanceOf(Of({"liability", "equity"}, "all")),
       profit |-> 0 - BalanceOf(Of({"revenue", "expense"}, "all"))]>>
BalanceSheet ==
    <<[assets |-> BalanceOf(Of({"asset"}, "all")),
       claims |-> 0 - BalanceOf(Of({"liability"}, "all")) - BalanceOf(Of({"equity"}, "all"))]>>
\* This one is of the year, or of the dates asked for.
AccountProfitLoss ==
    <<[profit |-> 0 - BalanceOf(Of({"revenue"}, "dated")) - BalanceOf(Of({"expense"}, "dated"))]>>
-----------------------------------------------------------------------------
(***************************************************************************)
(* Asking and answering.                                                   *)
(***************************************************************************)
\* What is asked: a report, and for which dates.
Questions ==
    ({"sales", "purchases", "period", "expenses", "profitLoss"} \X {"all", "dated"})
    \cup ({"dashboard", "overview", "stockSummary", "stock", "salesSummary",
           "purchasesSummary", "expenseSummary", "tax", "customer", "supplier", "ledger",
           "overdue", "trial", "balanceSheet", "accountProfitLoss"} \X {"all"})

Statements(q) ==
    CASE q[1] = "dashboard" -> Dashboard
      [] q[1] = "overview" -> StockOverview
      [] q[1] = "stockSummary" -> StockSummary
      [] q[1] = "stock" -> StockReport
      [] q[1] = "sales" -> SalesReport(q[2])
      [] q[1] = "purchases" -> PurchasesReport(q[2])
      [] q[1] = "period" -> RevenueByPeriod(q[2])
      [] q[1] = "salesSummary" -> SalesSummary
      [] q[1] = "purchasesSummary" -> PurchasesSummary
      [] q[1] = "expenseSummary" -> ExpenseSummary
      [] q[1] = "expenses" -> ExpenseReport(q[2])
      [] q[1] = "tax" -> TaxReport
      [] q[1] = "profitLoss" -> ProfitLoss(q[2])
      [] q[1] = "customer" -> CustomerReport
      [] q[1] = "supplier" -> SupplierReport
      [] q[1] = "ledger" -> ContactLedger
      [] q[1] = "overdue" -> OverdueInvoices
      [] q[1] = "trial" -> TrialBalance
      [] q[1] = "balanceSheet" -> BalanceSheet
      [] q[1] = "accountProfitLoss" -> AccountProfitLoss

\* The figures of statement s, and after how many writes they are read.
Brought(q, s) ==
    LET now == Statements(q)[s]
    IN  {[figure |-> f, of |-> q[2], at |-> Len(past), value |-> now[f]] : f \in DOMAIN now}

\* The statements that may come next: of a dashboard and of the sales' summary the
\* last one waits for the others.
Upcoming(q, left) ==
    IF q[1] \in {"dashboard", "salesSummary"} /\ Cardinality(left) > 1
    THEN left \ {Max(left)} ELSE left

Answer(q, got) ==
    /\ readings' = readings \cup got
    /\ dashboard' = IF q[1] = "dashboard" THEN got ELSE dashboard

MayAsk == Cardinality({r \in Request : pc[r] # "new"}) < MaxReports

\* The first statement.
Ask(r) ==
    \E q \in Questions :
        LET all == DOMAIN Statements(q)
        IN  /\ MayAsk
            /\ q[1] = "dashboard" => dashboard = NoDashboard
            /\ \E s \in Upcoming(q, all) :
                  LET got == Brought(q, s)
                  IN  IF all = {s}
                      THEN Arrive(r, "ok", Nothing) /\ Answer(q, got)
                      ELSE /\ Arrive(r, "read", [question |-> q, left |-> all \ {s}, got |-> got])
                           /\ UNCHANGED <<readings, dashboard>>
            /\ UNCHANGED <<docs, entries, past>>

\* The dashboard is in the cache: it is answered whatever was written since.
AskCached(r) ==
    /\ MayAsk
    /\ dashboard # NoDashboard
    /\ Arrive(r, "ok", Nothing)
    /\ UNCHANGED reportVars

\* Asked for dates, the tax report queries a column that expenses do not have.
AskTaxOfDates(r) == MayAsk /\ Arrive(r, "error", Nothing) /\ UNCHANGED reportVars

\* The next one.
Read(r) ==
    LET h == req[r]
    IN  /\ pc[r] = "read"
        /\ \E s \in Upcoming(h.question, h.left) :
              LET got == h.got \cup Brought(h.question, s)
              IN  IF h.left = {s}
                  THEN Go(r, "read", "ok") /\ Answer(h.question, got)
                  ELSE /\ Hold(r, "read", "read", [h EXCEPT !.left = @ \ {s}, !.got = got])
                       /\ UNCHANGED <<readings, dashboard>>
        /\ UNCHANGED <<docs, entries, past>>

\* Five minutes later.
Lapse ==
    /\ dashboard # NoDashboard
    /\ dashboard' = NoDashboard
    /\ UNCHANGED <<requestVars, docs, entries, readings, past>>

\* Another service writes: a document, its deletion, a payment, what a body says
\* of its payment, a stock row.
Written ==
    /\ Len(past) <= MaxWrites
    /\ past' = Append(past, [docs |-> docs', entries |-> entries'])
    /\ UNCHANGED <<requestVars, dashboard, readings>>

RecordDocument ==
    \E s \in Shape : docs' = Append(docs, s) /\ UNCHANGED entries /\ Written

DeleteDocument ==
    \E i \in DOMAIN docs :
        /\ docs[i].live
        /\ docs' = [docs EXCEPT ![i].live = FALSE]
        /\ UNCHANGED entries /\ Written

PayDocument ==
    \E i \in DOMAIN docs :
        /\ docs[i].paid < docs[i].total
        /\ docs' = [docs EXCEPT ![i].paid = docs[i].total, ![i].status = "paid"]
        /\ UNCHANGED entries /\ Written

\* PATCH sets the amount and the status independently of each other.
PatchDocument ==
    \E i \in DOMAIN docs :
        /\ docs[i].table \in {"sale", "purchase"}
        /\ \E s \in Marks \cup {docs[i].status}, n \in Amounts \cup {docs[i].paid} :
              /\ s # docs[i].status \/ n # docs[i].paid
              /\ docs' = [docs EXCEPT ![i].paid = n, ![i].status = s]
        /\ UNCHANGED entries /\ Written

EnterGoods ==
    \E g \in Goods : entries' = Append(entries, g) /\ UNCHANGED docs /\ Written

ReportsNext ==
    \/ \E r \in Request : Ask(r) \/ AskCached(r) \/ AskTaxOfDates(r) \/ Read(r)
    \/ Lapse
    \/ RecordDocument \/ DeleteDocument \/ PayDocument \/ PatchDocument \/ EnterGoods
    \/ \E r \in Request : Fail(r) /\ UNCHANGED reportVars
    \/ Halt /\ UNCHANGED reportVars

ReportsSpec == RequestInit /\ ReportsInit(Opening) /\ [][ReportsNext]_<<requestVars, reportVars>>
-----------------------------------------------------------------------------
(***************************************************************************)
(* Properties.                                                             *)
(***************************************************************************)
ReportsOK ==
    /\ Len(past) \in 1..(MaxWrites + 1)
    /\ past[Len(past)] = [docs |-> docs, entries |-> entries]
    /\ dashboard \subseteq readings

Is(now, i, table) == now.docs[i].live /\ now.docs[i].table = table

\* What may part a contact's report, its ledger and its overdue invoices: a
\* return or a quotation of its, or a document of its that is overpaid, or is owed
\* for while its status says that it is paid.
DuesDiffer(now, table) ==
    \E i \in DOMAIN now.docs :
        /\ Is(now, i, table) /\ now.docs[i].of = "contact"
        /\ \/ now.docs[i].type # table \/ now.docs[i].paid > now.docs[i].total
           \/ now.docs[i].paid < now.docs[i].total /\ now.docs[i].status \notin Owed

\* What may part the sheet from the report: more rows than it lists.
TooMany(now, table, p) ==
    Cardinality({i \in DOMAIN now.docs :
                    Is(now, i, table) /\ (p = "all" \/ now.docs[i].dated)}) > PageRows

\* What may part counts of scarce wares: one that is untracked or was never entered.
ScarceDiffer(now) ==
    \E w \in Ware :
        /\ w \notin Tracked \/ RowsIn(now.entries, w) = {}
        /\ StockIn(now.entries, w) <= AlertQuantity

\* What may part the worth of the stock: a ware in stock that is untracked, one
\* whose cost was entered twice, or one of which less than nothing is left.
WorthDiffer(now) ==
    \E w \in Ware :
        LET priced == {k \in RowsIn(now.entries, w) : now.entries[k].cost # NoCost}
        IN  /\ priced # {}
            /\ \/ w \notin Tracked \/ Cardinality(priced) > 1
               \/ StockIn(now.entries, w) < 0

Differ(f, p, now) ==
    CASE f = "owed" -> DuesDiffer(now, "sale")
      [] f = "owing" -> DuesDiffer(now, "purchase")
      [] f = "revenue" -> TooMany(now, "sale", p)
      [] f = "spend" -> TooMany(now, "purchase", p)
      [] f = "scarce" -> ScarceDiffer(now)
      [] f = "worth" -> WorthDiffer(now)
      [] f = "profit" -> \E i \in DOMAIN now.docs : Is(now, i, "posting") /\ ~now.docs[i].dated
      [] OTHER -> FALSE

\* Two answers that show the same figure of the same dates, read with no write in
\* between, show the same value, except where the books hold what the queries
\* behind them are known to treat differently.
StatementsAgree ==
    \A a, b \in readings :
        a.figure = b.figure /\ a.of = b.of /\ a.at = b.at /\ a.value # b.value =>
            Differ(a.figure, a.of, past[a.at])
=============================================================================
