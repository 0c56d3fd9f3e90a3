# Ultimate POS: a TLA+ model

Ultimate POS is a multi-tenant point-of-sale and stock system: a NestJS API
(`src/ultimate-pos-api`) over MySQL through Prisma, and an Angular web application
(`src/ultimate-pos-web`). This directory models the API's services, statement by
statement, and the web application's pages, handler by handler. Everything is
checked with TLC on small instances; what matters most of it is also proved with
TLAPS for every instance.

## 1. The system

### How it runs

**The API.** One Node process serves all requests. A handler runs undisturbed from
one `await` to the next; at every `await` any other request may go on. The database
is MySQL behind Prisma: each Prisma call is one statement or one implicit
transaction (a nested create is one), and **outside manufacturing no handler opens a
transaction**. So, in every module of the API:

* a step of the model is what a handler does up to and including one SQL statement;
  guards on what was read before belong to the step that read it;
* the steps of different requests interleave freely;
* the database may refuse any statement (`DbError`, `LineError`, `LegError`, `Fail`):
  the handler throws, nothing is rolled back, the client gets a 500;
* `Promise.all` issues its statements at once: they complete in any order, and when
  one fails the answer is sent while the others still run;
* the process may die between any two statements (`Crash`, `Halt`): what was written
  stays, nothing is resumed, the cache in memory is gone.

**The web application.** JavaScript runs one handler at a time: a step is a handler.
HTTP calls are answered in any order, a page neither cancels a call nor waits for
one, and the network may lose a call or its answer (`Lose`), of which the page learns
only that the call failed.

### Inventory

| Part | State it keeps | Operations | What makes it correct | Model |
|---|---|---|---|---|
| Sales, POS checkout | `sales`, lines; rows of `stock_entries` | create, return, convert, update, soft delete | numbers are unique; each line moves stock once, in the right direction | `Sales` |
| Purchases | `purchases`, lines; rows of `stock_entries` | create, return, convert requisition, update, soft delete | references unique; only what is received enters stock | `Purchases` |
| Transfers, inventory | `stock_transfers`; `stock_entries` | create, updateStatus; createEntry, deleteEntry, overview | transfers neither create nor destroy stock; the overview is what the documents say | `StockMoves`, `StockLedger`, `Stock` |
| Payments | `payments`; `paid_amount`, `payment_status` of documents | create, createBulk, remove | paid amount = payments; status agrees with it | `Payments` |
| Authentication, users | password, attempts, lock, mailed tokens, roles, business | register, login, forgot, reset, verify, password; create, update, toggle, delete, found a business | the lock after five failures; tokens used once; an admin remains | `Accounts` |
| Categories, units | a forest; two levels | create, update, remove | no circle; nothing hangs on what is gone | `Catalog` |
| Products, cache | rows, files of pictures, three cached lists | create, update, remove, import, pictures; the lists | SKUs differ; a cached list is not stale for longer than it says; pictures exist | `Products` |
| Cash register | sessions and their movements | open, add, close | one open session per cashier; the expected amount is that of the session | `CashRegister` |
| Tax rates, layouts, schemes | default marks; taxes of a group | create, update, remove, set default; set, add, remove sub-taxes | one default; a group is what it was asked to be | `Defaults` |
| Records: brands, groups, contacts, accounts, assets, bookings, projects ... (20 services) | a row each | create, update, remove, import, post | keys that no index keeps apart; nothing deleted under what was written on it | `Records` |
| Reports, statements, summaries | none; the dashboard's cache | each figure read by several statements | two reports of the same thing agree | `Reports` |
| Low-stock alerts, report scheduler | notifications; next runs | check, remove; the hourly tick | told once, mailed once, not after being switched off | `Notices` |
| Adjustments, businesses | header, lines, total; business and founder | create, update, remove | both halves are there | `Composites` |
| Backups | files of dumps | nightly, on demand, pruning | what is listed is whole; pruning leaves one | `Backups` |
| Web session (`auth.ts`, interceptor, idle warning) | three keys of localStorage; `isRefreshing`, a token subject, queued requests; the dialog | login, logout, 401, refresh, retry, cancel, reload, warn | one refresh at a time; every request ends; a login lasts | `WebSession` |
| Pages (lists, forms, deletions, switches) | the list, the form, two flags | load, filter, type, save, remove, toggle | the list settles to what the API has; nothing typed is lost, nothing is saved twice; no flag sticks | `Screens`, `Pages` |
| Sales terminal in the browser | cart, list, both in localStorage; the offline banner | search, add, remove, check out, reload | as for pages, and the cart survives | `Terminal` |
| Web push, WooCommerce, import/export, barcode, audit log, mail | | | | not modelled (section 6) |

How the parts interact: sales and purchases write rows of `stock_entries`, which the
inventory service also writes and deletes and every stock figure sums up. Payments
read and overwrite columns of sales and purchases, which a create fills and PATCH
overwrites too, amount and status each by itself. Products refer to categories and units
and are what the cached lists show. Reports read what everybody else writes. Founding a
business moves a row of users. There are no locks, queues or messages between the
services: they meet in shared tables and in one in-memory cache. In the browser all
HTTP calls pass the interceptor, whose flag and subject are module variables; the
idle warning renews the same tokens without going through it; pages share nothing
but that and localStorage.

### What is hard about it

Read-then-write over two statements (numbers, counts, sums, lookups before a write by
id, checks before an insert); several statements that belong together and may be cut
short; `Promise.all` with one failure; slow awaits (bcrypt, mysqldump) between a read
and the write that relies on it; caches filled from rows read before the write that
dropped them; a clock that ticks while the last tick still runs; long sequences of
legal calls over the same rows. In the browser: answers that arrive in any order,
cancellations, failures whose handler resets nothing, and callbacks that run after
the state they were made for is gone. `PROJECT.json` lists each hazard at its line
with the property that covers it.

## 2. The modules

```
StockLedger            the table stock_entries and its sum
  DocumentTable        numbered documents, requests, statements, failures
    Sales   Purchases  the two services        --implement-->  IssuedNumbers
  StockMoves           transfers and entries by hand
Stock                  Sales + Purchases + StockMoves on one ledger
Payments               payments and the paid amount

Requests               requests, failures, restarts, and which rivals met
  Accounts  CashRegister  Defaults  Records  Reports  Notices  Composites  Backups
  Catalog - Products   what products refer to, and products with their cached lists
Office                 all of these over one pool of requests

WebSession             tokens, interceptor and idle warning of a browser tab
Calls - Screens - Terminal   calls in flight, a page, the sales terminal
Pages                  the features of each page
Browser                any page, or the terminal, open in a tab

DocumentTableProofs    what sales and purchases share, proved once
  SalesProofs   PurchasesProofs
SumProofs              sums over finite sets
  BooksProofs          payments, and the whole of stock keeping (with DocumentTableProofs)
  RecordsProofs        the steps of requests, the services of plain records, the reports
    OfficeProofs       the other services over Requests, then the office
BrowserProofs          the pages, the terminal, and the interceptor
MC*                    instances for TLC
```

**StockLedger.** `ledger` is the set of rows of `stock_entries`. A row names the
request, the document and the line it came from, so equal quantities stay distinct
rows. `StockOf` is the sum the overview and the POS search show.

**DocumentTable.** What sales and purchases have in common, as operators with
parameters: `Begin` (the first await), `InsertDoc` with its unique index (`Taken`) and
AUTO_INCREMENT, `PostLine` (one insert of a `Promise.all`), `Answer`, `createReturn`
(`FindOriginal`, `CountReturns`, `InsertReturn`, `Restock`), `Overwrite` (every write
by id), and the failures. `pc[r]` names the statement request `r` issues next.
`readAt` and the field `born` of a row are history variables: no guard reads them.

**Sales, Purchases.** One action per await of each handler. They differ where the
code does: a sale takes stock whatever its type and status, a purchase adds stock only
if it is created as received; a reference may be typed; a return is of the other sign;
conversion of quotations, drafts and requisitions.

**IssuedNumbers.** The abstract number book: a set of numbers given out, to which a
fresh one is added. Sales and purchases implement it through the refinement mapping
`issued <- {[id, biz, no] of each row}`.

**StockMoves, Stock.** Transfers (a row of `stock_transfers`, then two ledger rows
under `Promise.all`), their status, and rows entered and deleted by hand. `Stock` has
the three services as INSTANCEs over one `ledger`, with a common crash.

**Payments.** Documents with a total, a paid amount and a status, payment rows, and
requests that record, delete, or recompute. A document starts with the status its create
stored: the one sent with it (`Sent`), or else the one that goes with the amount; `marked`
(history) are those of which a body, at creation or by PATCH, wrote the status or the
amount last. Recomputing: insert, sum, write are three steps, repeated for
the purchase of a payment that names both and for each payment of a bulk. `left[r]`
keeps the documents whose recomputation request `r` owes.

**Requests.** The same idea of a request, smaller: `pc[r]` is the next statement,
`req[r]` what the request holds while it is busy. When a request starts, `Begin`
records in `raced` which rival kinds of request about the same thing were under way
(`Together`). `raced` is history; the properties use it to say "unless two logins of
the user were checked at a time" and no guard reads it.

**Accounts.** `users` holds what the handlers read and write of a row. Login reads the
row, then bcrypt takes its time, then one statement writes: `CheckPassword`,
`RefuseLogin`, `StoreLogin` and the like. Tokens are numbers, each new. `LockExpires`
and `ResetExpires` are the clock. PATCH writes one field at a time (`Patches`): the email,
a promotion to admin or a demotion, activation or deactivation, by anybody of the
business, of which no role is asked. Who founds another business (`FindToFound`,
`StoreFounder`) keeps the row, which is no longer `here`. The staff is admins and others.

**Catalog, Products.** The walk of `CategoriesService.update` for circles is one step
per ancestor, since each is a query. A cached list is computed by one request from
rows read at one time and stored at another (`cached`, `behind`); a write drops the
lists it thinks of after its statement. `Products` composes its own requests with
those of the catalog, which delete what products refer to.

**CashRegister, Defaults, Composites, Backups, Notices.** One action per statement.
In `Notices`, `Tick` starts a run over the schedules due; mailing and storing the next
run are two steps per schedule; a second tick may start meanwhile. In `Backups`
dumping runs beside a clock of seconds that name the files, `EndDump` and `FailDump`
are the ends of the pipe, of which the code sees gzip's and not always mysqldump's. A
check for scarce stock takes the stock and the SKUs (`Labels`) as they are just then, since
others write both at any time, and looks for each item and manager whether there is a
notification of the last hour that contains the SKU (`Mention`). `told` (history) is every
alert there was, with how many were over an hour old by then (`aged` is how many are now);
`notices` are those nobody has removed.

**Records.** Twenty services are one machine: each operation is one of a few kinds
(`MakeNow`, `MakeKeyed`, `MakeUnder`, `FindToChange`, `FindToDropRow` ...) on a table
of which the Prisma schema says what it belongs to and what a deletion does to it
(cascade, restrict, set null). Each service's operations are listed with the kind that
its code is. Keys are columns the code means to tell rows apart and no unique index
does.

**Reports.** A report is the list of queries behind its figures; an answer collects
them one by one while `RecordDocument`, `DeleteDocument`, `PayDocument`, `PatchDocument`,
`EnterGoods` go on. The same figure in two reports has the query of each. A document has
the status that is stored beside its amounts, and PATCH sets either by itself (`Marks`,
`Amounts`): a contact's ledger goes by the amounts, what is overdue by the status.

**Office.** All of these over one pool of requests and one bound on refused
statements. The services do meet in tables: stock rows and documents, which others write
and `Reports` and `Notices` read; the founder's row of users, which `Composites` writes
and `Accounts` owns. Where that is so the module that depends on the table has a view of
its own of it, and what others write there at any time is an action of that module
(`RecordDocument`, `PatchDocument`, `StoreFounder` ...). So the modules share no
variable, and their steps commute; the clients of a behaviour turn to one *desk*, chosen
at the start, and the behaviours left out pass through no state of any module that those
kept do not pass through. Within a desk everything interleaves. What is lost is only what
two views of one table would say about each other.

**WebSession.** One browser tab. `storage` is localStorage: the access token (a
number, fresh ones are larger) and what is in the other two keys, which are always
written together. `pc[r]` follows a request: `sent`, then on a 401 either `refresh`
(it fetches the token, or `refreshLost` if it has only "undefined" to fetch it with)
and `retry`, or `queued` and `resent`. `dialog` tells how the warning was closed until
`afterClosed` fires; `dialogCall` is its own refresh. The API is a nondeterministic
answer.

**Calls, Screens, Pages, Browser.** Most of the web application's pages are of one
make and differ in a few features: whether a filter, a tab or a page is asked of the API
or picked out of all rows in the browser, which flags it raises and when they come down,
what follows a save, and whether a deletion or a switch loads the list again or patches
it in place. `Screens` is the machine with
these features as data, `Pages` says of each component which it has (its map entries
name the component), and `Browser` opens any of them: pages do not touch each other,
so a behaviour is about one page from when it opens. What the user types is a number
that goes up; of a row we keep the last thing written. `ListOf` is what the API answers:
all rows to a page that filters in the browser, whose filter is then no state of the model
(a list is "plain"), else what passes the filter of the view (`Fit`) and is on its page
(`Span`). `shown.patched` is history. `late`, `lost`, `twice`,
`unsure`, `failed` and `clean` are history.

**Terminal.** `pos.component.ts`: the cart with its localStorage, the list and its copy
kept for when it cannot be loaded, checkout, clearing, reload.

### What is abstracted

* Names, texts, dates, prices, layout, logging. Amounts only where they are summed.
* Documents: all are of one calendar day. Numbers carry the date, so numbers of two
  days never clash; within a day the model is exact. A number is a record of its
  series and sequence number; formatting pads to four digits and is injective.
* A request is served once; a client that retries is another request.
* Cache invalidation, audit log, SMS and push that follow the answer of a document:
  the part that can fail the request is in `DbError`.
* Return quantities are not validated by any DTO; positive ones are modelled.
  `updateStatus` of a transfer takes any string; the documented ones are modelled.
* Totals of documents do not change: no update writes `totalAmount`. A status is one of
  the DTO's four.
* `Accounts`: the guard's lookup is taken together with the handler's first; a user
  name stands for the account, and is not made again after its deletion. Users of no
  business and of others are left out, so nobody moves in.
* `Records`: a row has one parent (what an account's type, a booking's contact, a
  discount's location refer to besides is left out).
* `Notices`, `Backups`: no tick lasts until a schedule's next occasion, no dump a
  fortnight. A day of schedules is one occasion.
* `WebSession`: the idle timer (the warning may open at any time of a login, but not
  while its own refresh runs), the fade-out of the dialog (shorter than a login
  takes), `validateToken` on reload (one more request, whose failure is a logout),
  registration (stores its answer as a login does). After a refresh a reload does not
  start the application, so `ReloadTab` is not possible then.
* `Screens`: of a switch that it was switched, whichever way; dialogs that ask for
  confirmation; the API's own cache of a list (`Products` has it). A page with several
  lists is several pages.

## 3. What TLC checks

| Run | Instance | Properties |
|---|---|---|
| `sales` | 1 tenant, 2 products, 4 requests of any kind, 1 refused statement, crashes | `TypeOK`, `EntriesBacked`, `MissingRowsExplained`, `InvoiceClashNeedsOverlap`, `ReturnClashExplained`, `NumbersIssuedOnce` |
| `purchases` | 2 tenants, 2 products, 3 requests, typed reference, 1 refused statement | `EntriesBacked`, `MissingRowsExplained`, `ReferenceClashExplained`, `NumbersIssuedOnce` |
| `stock` | 1 tenant, 2 sale, 1 purchase and 2 move requests | `StockReconciles`, `HalfTransferExplained` |
| `payments` | 2 sales, 1 purchase, statuses left out or sent at creation, 3 requests, 1 refused statement | `DriftExplained`, `StatusAgrees` |
| `web_session` | 3 requests, 1 of them always refused, 3 access tokens | `FlagIsOwned`, `QueueIsServed`, `ResendWaitsForToken`, `RequestsEnd` |
| `office` | 29 desks, 3 requests each, 1 refused statement, restarts | 18 invariants, below |
| `browser` | every page and the terminal, 2 rows, a view that filters and one of a single row, 2 calls under way, 1 lost | `ListsSettle`, `NothingLost`, `NothingTwice`, `FlagsExplained` |
| `invoice_clash` | 2 requests | `InvoiceNumbersNeverClash` is violated |
| `oversold` | 1 entry by hand, 2 sales, 1 purchase | `NeverOversold` is violated |
| `full_payment` | 1 bulk payment | `FullPaymentSettles` is violated |
| `keys_lost` | 3 requests, 2 tokens | `LoginKeptWhole` is violated |
| `activity_logs_out` | the same | `ActivityKeepsLogin` is violated |

What they show of **documents and payments**:

* `EntriesBacked`: every ledger row restates one line of the document its own request
  inserted, and no line has two. Conversions, updates, deletions, and any interleaving
  of them never move stock.
* `MissingRowsExplained`: a document without its stock rows is only ever the trace of
  a request still running or cut short.
* `InvoiceClashNeedsOverlap`, `ReturnClashExplained`, `ReferenceClashExplained`:
  exactly when the unique index refuses a number. Ids spent on refused inserts and
  deleted rows do no harm to MAX(id)+1; the count behind return numbers is upset by
  returns that were converted to sales; a typed reference blocks a generated one until
  another row moves the maximum.
* `NumbersIssuedOnce`: both tables implement the number book.
* `StockReconciles`: at rest, the stock of each product is the entries by hand plus
  what the documents come to. It ties four services to one figure.
* `HalfTransferExplained`: a lone transfer row is being completed, was cut short, or
  its other half was deleted by hand.
* `DriftExplained`, `StatusAgrees`: the paid amount departs from the payments only by
  overlapping recomputations, a cut-short request or a manual change. The status agrees
  with the amount through all of these, paid if and only if nothing is due, unless a body
  wrote it (or the amount) last, at creation or later: the next payment mends it.

of the **office** (each holds *unless* rivals the property names were under way
together, or a request was cut short where the property says so):

* `WrongPasswordsCount`, `TokenReuseNeedsOverlap`, `LastAdminExplained`: the lockout
  counts every wrong password since the last right one; a mailed token works once; an
  admin stays, save that the last one is demoted, deactivated or moved to another
  business, which nothing checks, or deleted: by a request that counted somebody who has
  gone since, or that found a plain user and counted nobody, who was promoted meanwhile.
* `CategoriesFormAForest`, `UnitsHaveTwoLevels`: two concurrent moves can close a
  circle of categories, and only they.
* `SkusAreUnique`, `StaleListExplained`, `ImagesExplained`: which writes forget which
  cached list, and which drop comes before the list is stored.
* `OneOpenSession`, `ClosingReconciles`: a movement that was checked before the
  closing is written after it, and the amount expected is wrong for good.
* `DefaultsExplained`, `GroupTaxesAsAsked`: two defaults, none, a group emptied by a
  request that could not fill it.
* `KeysExplained`, `PostingsExplained`: two rows with one key; an account deleted
  under a posting made meanwhile.
* `StatementsAgree`: the reports agree but for listed differences (below).
* `NoticesExplained`: an alert that repeats one of the last hour was told by one of two
  overlapping checks, or the earlier one was removed from the list, or the item had
  another SKU then; an item is passed over untold only for an alert about another item
  that contains its SKU; a report is mailed twice for an occasion only by overlapping
  ticks or one cut short, and when unwanted only if that changed during a tick.
* `HalvesExplained`, `BackupsExplained`: adjustments and businesses made half; a
  backup that is listed and broken, and the pruning after it.

of the **browser**:

* `FlagIsOwned`, `QueueIsServed`, `ResendWaitsForToken`: the interceptor refreshes once
  at a time, its flag never stays up, queued requests wait for something and go out
  only with the token they waited for. `RequestsEnd` (liveness): every request ends,
  except those queued behind a refresh that brought no token, which wait for ever.
* `ListsSettle`: once nothing is under way, the list is what the API answers for the view
  chosen; it is not when two loads overlapped and the older answered last. Where the API
  selects and the page patches its list in place (`PatchedView`), it is of the view
  chosen and shows rows that are there, as they are, but a row that no longer passes the
  filter stays and none moves up to the page.
* `NothingLost`, `NothingTwice`: what is typed, or put in the cart, while a save is
  under way is thrown away by its answer; a form whose first save failed only for all
  the page knew makes a second row; a page that disables nothing does so without that.
* `FlagsExplained`: a flag that is up with no call under way is one of a page without
  an error handler, after an error.

The violations are disagreements between the code and what it says of itself
(`PROJECT.json`, findings): the comment that invoice numbers cannot collide, the
documented 400 for insufficient stock, "Record Full Payments", which forgets what was
paid at the till; the answer to a refresh, stored as if it had all fields of a
login's; and activity that is to keep the login and ends it.

**Known differences and oddities** the properties take as they are; each is in an
exception of a property, or explains why something is left out:

* a refresh that fails leaves the requests queued behind it unanswered
  (`auth.interceptor.ts`; `RequestsEnd`);
* what the reports differ in (`Differ`): the stock report values stock at the sum of all
  unit costs (`reports.service.ts:149`), the inventory at the last; sheets add up the 50
  rows they list; a return or an overpaid document counts in one of a contact's
  statements and not in another, and so does one that is owed for and marked as paid
  (`contacts.service.ts:272`); untracked products count as scarce in one only;
* the tax report asked for dates asks the expenses for a column of the sales
  (`reports.service.ts:491`) and fails; the history of a product is cut at 50 rows (`inventory.service.ts` 95-121);
  the balance of an account is debit minus credit whatever its type, which is not what
  its comment says (`accounting.service.ts:132-145`);
* stock adjustments post no stock, and the page of that name, which makes stock entries
  instead, posts the quantity with whatever sign is typed
  (`stock-adjustments.component.ts` 262-281);
* a status sent with a document is stored whatever is paid of it
  (`sales.service.ts:81`, `StatusAgrees`);
* any user may promote, demote or disable any other (`users.service.ts:111`), and an admin
  who founds another business leaves this one (`business.service.ts:20`),
  whoever remains (`LastAdminExplained`);
* the low-stock silence goes by SKUs contained in one another, and ends early for who
  removes the notification (`NoticesExplained`);
* a notification marked as read stays in the list of the unread until the next load, and
  a deleted one leaves its page a row short (`notifications.component.ts` 385-416,
  `ListsSettle`);
* a monthly schedule of the 31st skips short months; the figures a scheduled mail
  reports count deleted rows and ask for a status no sale has (what the mail says is
  not modelled);
* the saving flag of `repair.component.ts:367` comes down on success only;
* the terminal says "New sales will be queued" (`pos.component.ts:74`) and queues none
  (818-821): a sale made offline fails;
* the push sent after a sale is not awaited and its rejection is not caught
  (`sales.service.ts:163`), which Node takes for the end of the process: `Crash`.

**Bounds.** Clashes, lost updates and cut-short requests take two requests, a return
needs a third that made its original, and a conversion of a return or a deletion in
between a fourth: hence four in `sales`. In `office` three: two rivals, and one that
made or changes what they are about; each desk has as many ids as requests can make.
`MaxAttempts` 2 stands for the five of the code (one attempt that does not lock, one
that does, and a third that locks again); `MaxToken` 2: one used, one that replaces it;
`MaxId` 6 rows; `MaxNotices` 2; `MaxSecond` 4, so that dumps share a second, follow
each other, and grow old; `MaxReports` 2 answers to compare, `MaxWrites` 1 write between
them, `PageRows` 1 so that one sale more fills more than a page, `Marks` "paid" and
`Amounts` 0 so that a patch sets status and amount apart both ways. The SKU of one item
changes (`Labels`), and one it may have is contained in that of the other. One refused
statement suffices because the properties speak of each document, row or file
separately, and a crash hits everything in flight. In `browser` two calls: a race is
between two; `MaxDraft` 2 is something typed and something typed after; `MaxLost` 1. Of
the two views one passes every row and has room for one, the other passes what was there
first or typed first and has room for both: a row changed or deleted in place leaves the
one, and makes room on the other.
In `web_session` one request refreshes, one is queued and one comes late; the first
token is the login's, the second a refresh's, the third that of the dialog, of another
refresh or of another login. Bodies are chosen so that each branch is taken: two lines
(partial `Promise.all`), a draft return (convertible), a typed reference that looks
generated, ordered and received purchases, a payment on two documents, a partly paid
sale, a sale sent as paid and a purchase as overdue, a product without stock tracking.

Symmetry of requests, calls and ids is sound: no property or constant tells their
members apart, and no run with symmetry checks liveness. The rows of `browser` are
numbered, so they have none.

**Fairness.** Only `WebSession` assumes any: every HTTP call is answered or fails, and
every fade-out ends, as browsers see to; nothing is assumed of users, of expiry or of
which answer it is. The services promise nothing about progress beyond single
requests, which have no loop but the walk for circles. Requests end for good, pages
are left, so the system may stop and `CHECK_DEADLOCK` is off.

## 4. What is proved

The theorems hold for all tenants, products, requests, bodies, rows, amounts, calls and
bounds, from the assumptions named in the modules (`BodyAssumption`,
`AccountAssumption`, `RowAssumption` and so on: bodies are of the declared type, there
is an admin, a new row is no row, there is a SKU at all). A property says nothing of
what is half way, so next to none is inductive; each proof has an invariant that adds
what a request, call or page in the middle of its work relies on. Each module states
its invariant, then one lemma for each kind of step, and the theorems last.

**Sales and purchases** (`DocumentTableProofs`, `SalesProofs`, `PurchasesProofs`). The
two services call the same operators of `DocumentTable`, so what those keep is proved
once, in `DocumentTableProofs`, with what differs (which documents move stock, in which
direction, the series) as parameters:

* `TypeCorrect`. `TypeOK` is not inductive: a request about to insert must hold a real
  body and number (`ArgOK`, `NumberOK`), lines to post must be lines of that body
  (`TodoOK`), and the table must be finite for COUNT to be a number (`IType`).
* `SaleEntriesBacked`, `SaleRowsExplained`, `PurchaseEntriesBacked`,
  `PurchaseRowsExplained`, from `IStock`: each request inserted at most one row and
  each row was inserted by one (`MineOK`, `MineUnique`, `DocsMade`), a request's place
  tells whether it makes a document or a return (`PlaceOK`), the ledger has only rows
  of saved documents (`RowsOK`), and all of them but those to come or cut off
  (`Posted`).
* `ClashNeedsOverlap`, `ReturnClashNeedsOverlap`, `ReferenceClashNeedsOverlap`, from
  `INumbers`: ids do not exceed `lastId` (`IdsOK`); a generated number is at most its
  row's id and larger than every id its tenant had when it was read (`SeqOK`,
  `PendingOK`); a return's number is at most the count of the returns up to its id,
  so that COUNT+1 is free unless two met or a return became a sale (`ReturnsOK`,
  `ReturningOK`). `SalesProofs` adds that no sale brings a number, `PurchasesProofs`
  that only requisitions are converted (`IReturns`), so that the count never shrinks.
* `SalesImplementNumberBook`, `PurchasesImplementNumberBook`: `Spec =>
  NumbersIssuedOnce` by step simulation. An insert is `Issue`, by the index and the
  fresh id; overwriting keeps id, tenant and number; everything else stutters.

**Payments** (`SumProofs`, `BooksProofs`):

* `AmountsAreExplained`, `StatusesAgree`, `TypeCorrect`, from `IPayments`. Of a
  document whose payments came one at a time: at most one request is recomputing it;
  what that one has read is still the sum; when none is, the sum is what is stored
  (`Drift`). A status that no body wrote last goes with the amount next to it
  (`StatusGoes`).
* The sums are those of the aggregates, over any finite set of payments. `SumProofs`
  shows that a sum that takes one element out at a time exists, does not depend on the
  order, and what one element more or less does to it. Where induction would be used,
  a least set, or a smallest number of elements, for which the claim fails is shown
  not to exist.

**Stock keeping** (`BooksProofs`). `Rows` is every row the ledger ever had: those of
`ledger` and those of `removed`, which somebody deleted by hand. `By(R)` are the ones the
requests of `R` wrote.

* `StockImplementsSales`, `StockImplementsPurchases`: `StockSpec` implements the
  specification of `Sales` with `By(SaleRequest)` for the ledger, and that of `Purchases`
  with `By(PurchaseRequest)`. A step of the one stutters in the other, a deletion by hand
  in both, and a crash is a crash of both (or a stutter where nothing was in flight). So
  each theorem about a service alone also holds of the whole. The assumption about the
  constants is `BodiesAssumption`: bodies and carts are of the declared types.
* `StockTypeCorrect`, `HalfTransfersExplained`, from `IStocked`: the invariants of the two
  services carried over, a transfer's two rows are of its request and its body and one is
  missing only while the request has it to post or was cut short (`IMoves`), and the rows
  are finitely many, each of one request (`RowsOK`). What is still to be posted is no row
  yet, deleted ones included (`FreshOK`), so a row deleted by hand never comes back.
* `StockIsAccountedFor`. At rest, with nothing cut short, the rows of a request are
  exactly the rows of its document's lines (`DocBooked`, from `IStock`). The ledger's sum
  is split by what rows are there for: by hand, deleted, transfers, sales, purchases.
  Grouping the rows of a service by document gives the sums over the lines
  (`SumOfGroups`, `SumOfImages` of `SumProofs`), a transfer's two rows cancel
  (`TransfersCancel`), and a deleted row is taken out once.

**The office** (`RecordsProofs`, `OfficeProofs`). Each service is proved about alone, over `Requests`:

* `IAccounts`: a login about to write still has the attempts the row says, or two
  logins of the user met (`CountsOK`); a token is one user's, no row holds one that
  has been used, and a request that is about to use one found it unused (`TokensOK`);
  whoever is about to delete who was an admin when looked up has counted another, so that
  the last one goes only if the other did, or if who is deleted became one since
  (`AdminsOK`).
* `ICash`: whoever is about to move money in a session finds it open or met its closing
  (`MovesOK`), whoever is about to close it has its balance, or met a movement or
  another closing (`ClosingsOK`); a cashier about to get a session has none or met
  another opening of theirs (`OpeningsOK`).
* `IDefaults`: between its two statements a request for a new default finds at most its
  own row marked (`OneMarkOK`), one that replaces the taxes of a group finds it empty
  (`GroupsOK`), unless it has a rival, who was then under way with it (`RivalsOK`).
* `IGoods`: what the checks of units and SKUs have found stays true until the write
  unless a rival is under way (`UnitsOK`, `SkusOK`); no two products share a picture
  and one on its way to a product is named nowhere yet, so that nobody deletes it
  (`PicturesOK`). `StaleListExplained` is inductive with the types.
* `IAlerts`, `ISchedules`: unless two checks met there is one at most, and no notification
  of the last hour names what it is about to tell, so that an alert told before was removed
  or names another SKU (`AlertsOK`); a report a tick has at hand was not mailed for
  this occasion, has its frequency and is wanted, unless a tick, an update or a
  removal was under way with it (`TicksOK`, `UpdatesOK`, `WantedOK`).
* `IBackups`: every file has a writer, or is whole, broken or shared (`FilesOK`); a
  whole file younger than a fortnight is there for whoever is about to prune
  (`BackupOK`).
* `IRecords`: a number somebody is about to save is free unless two that save such rows
  met, and numbers that count rows stay up to the number of rows while none went with
  what it belonged to (`KeysOK`); an account about to be deleted is bare and one about
  to be posted to is open, unless a posting, or a closing, met it (`PostsOK`). Both are
  proved once for what every table has in common, then for each of the twenty services.
* `IForest`: while no two moves met, every nonempty set of categories has one whose
  parent is outside of it, which says of sets what a path of any length would say
  (`RootsAtFirst`, `ForestStepKeeps`). A move under way holds the categories its walk
  has seen, which have their parents among them but for the one it is at, and of which
  the moved one is none (`Climbing`, `Climbed`), so that a circle closed by its write
  would be a set without a way out before it. That a walk counted in steps arrives is
  by the smallest number of categories for which it would not (`LeastNumber`); the ids
  are finitely many (`CatalogAssumption`).
* `IReports`: every figure has one value that is meant (`Figure`). What a statement reads
  of the books as they are is that value, or the books hold what parts the queries of
  that figure (`Good`); so any two figures read of the same books agree (`Agreed`). A
  write makes new books, of which nothing is read yet, and changes nothing about what
  was read of the old ones. The work is in `StatementsGood`, for each of the twenty
  reports: a sheet of the newest rows is the whole unless there are too many, sums by
  category and by kind of account add up, stock at the sum of its costs is stock at the
  last cost where there is one, what is due of invoices whose status says so is all that
  is due, where none that is owed for is marked as paid. Amounts are any integers.
* `IHalves`: an adjustment or business that does not add up is the one its request is
  at, and no two requests are at one (`MakingOK`, `AddingOK`, `TotalsOK`, `PlacesOK`).

`IOffice` carries them over to the specification the `office` run checks: the service
at the chosen desk satisfies its invariant, and the tables of all others are as they
were at the start. It gives the eighteen theorems `Office...`.

**The browser** (`BrowserProofs`):

* `RefreshIsExclusive`, `QueueWaitsForRefresh`, `ResendsWait`: the subject is null while
  a token is fetched and holds one while it is tried (`SubjectOK`), so a request can be
  queued only while somebody still fetches.
* `FlagsAreExplained`, `NothingTypedIsLost`, `NothingIsStoredTwice`,
  `EveryListSettles`, of every page of `AllPages` and of the terminal: `Shape` says
  which kinds of calls a page makes and what each holds, and `Usual` what the features
  of the pages have in common (checked page by page). Then a flag that is up has its
  call (`Flags`); what was typed is in the form or in the call that will answer for it
  (`Spared`); a draft is stored under one id, which the page knows unless its save was
  lost (`Once`); and while one load is under way, at most, it will bring what the API
  answers for its view, or a change that asks for a new one is still to come; once it has
  come, the list stays that answer until it is patched, and a patched list has rows of the
  table only (`Settles`, `Shows`, `Within`).

**Only model-checked**: of the invariants of the runs none is left. Out of the prover's
reach are liveness (`RequestsEnd`) and anything about ENABLED. The five disagreements
are shown by counterexamples.

## 5. How the map is kept

`PROJECT.json` maps each definition to the lines it stands for. A kind of operation in
`Records`, and a page in `Pages`, stands for a handler or a component each; of the
machine behind the pages (`Screens`) each handler is mapped to one page that has it.
The next-state relation of a service is mapped to its controller, which says what can be
asked of it, and that of a page to a template, which says what can be pressed when.
`Requests` and `Calls` are what Node, Prisma, MySQL, the browser and the network do
(external in the map).

## 6. Not modelled

* Web push: fire and forget; its subscriptions are touched by nothing else.
* WooCommerce, import and export of whole tables: bulk copying from and to outside
  services and files, one row after the other, with no state of their own.
* Barcodes, audit log, mail, printed documents: formatting and output.
* Of notifications whether one was read, and the badge in the header.
* Of backups restoring, which only staging allows and which replaces the database.
* Of reports the lists of best sellers, charts, and what a scheduled mail says.
* Of products the bulk change of prices; prices are in no property.
* Of the pages: dialogs that ask for confirmation, buttons for many rows at once,
  deleting from the page of a sale, removing a picture, the login form, the settings
  of SMS and push, the page of backups, sums and charts.
