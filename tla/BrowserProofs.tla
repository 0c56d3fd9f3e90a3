---------------------------- MODULE BrowserProofs ----------------------------
(***************************************************************************)
(* Proofs about every page of the web application (module Browser), for    *)
(* any number of calls in flight, rows, views and drafts; and about the    *)
(* login they share (module WebSession), for any number of requests and    *)
(* tokens.                                                                 *)
(***************************************************************************)
EXTENDS Browser, WebSession, TLAPS

(***************************************************************************)
(* What the pages have in common, and the proofs below need of them.       *)
(***************************************************************************)
Usual(s) ==
    /\ s.list = "none" /\ s.form # "record" => s.spinner = "none"
    /\ s.guard # "none" /\ s.form \in {"new", "edit"} =>
          s.keyed \/ s.after \in {"reload", "patch", "leave"}
    /\ s.list # "none" /\ s.form # "none" => s.after \in {"reload", "patch"}
    /\ s.form \in {"record", "given"} => s.after \in {"leave", "stay", "linger"}
    /\ s.form \in {"none", "new", "edit", "record", "given"}
    /\ s.list \in {"none", "plain", "views"}
    /\ s.list = "views" /\ s.after = "patch" => s.form = "none"

LEMMA UsualCatalog == \A s \in Catalog : Usual(s)
  <1>1. Usual(UnitsPage) /\ Usual(BrandsPage) /\ Usual(CategoriesPage) /\ Usual(ProductsPage) /\
     Usual(ProductSearch)
    BY DEF Usual, Table, ListPage, FormPage, Careless, Stuck, UnitsPage, BrandsPage,
       CategoriesPage, ProductsPage, ProductSearch
  <1>2. Usual(ProductForm) /\ Usual(ProductEditForm) /\ Usual(BarcodePrint) /\
     Usual(VariationTemplatesPage) /\ Usual(WarrantiesPage)
    BY DEF Usual, Table, ListPage, FormPage, Careless, Stuck, ProductForm, ProductEditForm,
       BarcodePrint, VariationTemplatesPage, WarrantiesPage
  <1>3. Usual(PriceGroupsPage) /\ Usual(DiscountsPage) /\ Usual(LabelsPage) /\ Usual(ImportPage)
    BY DEF Usual, Table, ListPage, FormPage, Careless, Stuck, PriceGroupsPage, DiscountsPage,
       LabelsPage, ImportPage
  <1>. QED BY <1>1, <1>2, <1>3 DEF Catalog

LEMMA UsualTrade == \A s \in Trade : Usual(s)
  <1>1. Usual(SalesPage) /\ Usual(SalePage) /\ Usual(SaleForm) /\ Usual(PurchasesPage) /\
     Usual(PurchasePage)
    BY DEF Usual, Table, ListPage, FormPage, Careless, Stuck, SalesPage, SalePage, SaleForm,
       PurchasesPage, PurchasePage
  <1>2. Usual(PurchaseForm) /\ Usual(TransfersPage) /\ Usual(AdjustmentsPage) /\ Usual(StockPage)
     /\ Usual(HistoryPage)
    BY DEF Usual, Table, ListPage, FormPage, Careless, Stuck, PurchaseForm, TransfersPage,
       AdjustmentsPage, StockPage, HistoryPage
  <1>3. Usual(EntryForm) /\ Usual(PaymentsPage) /\ Usual(ExpensesPage) /\ Usual(ExpenseForm) /\
     Usual(RegisterPage)
    BY DEF Usual, Table, ListPage, FormPage, Careless, Stuck, EntryForm, PaymentsPage,
       ExpensesPage, ExpenseForm, RegisterPage
  <1>4. Usual(AccountTypesTab) /\ Usual(AccountsTab) /\ Usual(PostingsTab) /\ Usual(StatementsTab)
     /\ Usual(TaxRatesPage)
    BY DEF Usual, Table, ListPage, FormPage, Careless, Stuck, AccountTypesTab, AccountsTab,
       PostingsTab, StatementsTab, TaxRatesPage
  <1>5. Usual(TaxRatesSettings)
    BY DEF Usual, Table, ListPage, FormPage, Careless, Stuck, TaxRatesSettings
  <1>. QED BY <1>1, <1>2, <1>3, <1>4, <1>5 DEF Trade

LEMMA UsualRelations == \A s \in Relations : Usual(s)
  <1>1. Usual(ContactsPage) /\ Usual(ContactImport) /\ Usual(ContactForm) /\ Usual(ContactPage) /\
     Usual(CustomerGroupsPage)
    BY DEF Usual, Table, ListPage, FormPage, Careless, Stuck, ContactsPage, ContactImport,
       ContactForm, ContactPage, CustomerGroupsPage
  <1>2. Usual(TablesTab) /\ Usual(BookingsTab) /\ Usual(SchedulesTab) /\ Usual(CampaignsTab) /\
     Usual(CallLogsTab)
    BY DEF Usual, Table, ListPage, FormPage, Careless, Stuck, TablesTab, BookingsTab,
       SchedulesTab, CampaignsTab, CallLogsTab
  <1>3. Usual(RoomsPage) /\ Usual(ProjectsPage) /\ Usual(EssentialsPage) /\ Usual(PackagesPage) /\
     Usual(RepairSettings)
    BY DEF Usual, Table, ListPage, FormPage, Careless, Stuck, RoomsPage, ProjectsPage,
       EssentialsPage, PackagesPage, RepairSettings
  <1>4. Usual(SyncLogPage) /\ Usual(JobSheetsPage) /\ Usual(AssetsPage) /\ Usual(RecipesPage)
    BY DEF Usual, Table, ListPage, FormPage, Careless, Stuck, SyncLogPage, JobSheetsPage,
       AssetsPage, RecipesPage
  <1>. QED BY <1>1, <1>2, <1>3, <1>4 DEF Relations

LEMMA UsualSettings == \A s \in Settings : Usual(s)
  <1>1. Usual(BusinessesPage) /\ Usual(BusinessForm) /\ Usual(ProfilePage) /\
     Usual(DrawerSettings) /\ Usual(LocationsPage)
    BY DEF Usual, Table, ListPage, FormPage, Careless, Stuck, BusinessesPage, BusinessForm,
       ProfilePage, DrawerSettings, LocationsPage
  <1>2. Usual(LayoutsTab) /\ Usual(TemplatesPage) /\ Usual(UsersPage) /\ Usual(SchedulesPage) /\
     Usual(NotificationsPage)
    BY DEF Usual, Table, ListPage, FormPage, Careless, Stuck, LayoutsTab, TemplatesPage,
       UsersPage, SchedulesPage, NotificationsPage
  <1>3. Usual(AuditPage) /\ Usual(DashboardPage) /\ Usual(ReportsPage) /\ Usual(RegisterForm) /\
     Usual(ResetForm)
    BY DEF Usual, Table, ListPage, FormPage, Careless, Stuck, AuditPage, DashboardPage,
       ReportsPage, RegisterForm, ResetForm
  <1>4. Usual(ForgotForm)
    BY DEF Usual, Table, ListPage, FormPage, Careless, Stuck, ForgotForm
  <1>. QED BY <1>1, <1>2, <1>3, <1>4 DEF Settings


LEMMA UsualPages == \A s \in AllPages : Usual(s) /\ s # POS
  <1>. SUFFICES ASSUME NEW s \in AllPages PROVE Usual(s) /\ s # POS
    OBVIOUS
  <1>1. Usual(s)
    BY UsualCatalog, UsualTrade, UsualRelations, UsualSettings DEF AllPages
  <1>2. POS.form = "cart"
    BY DEF POS
  <1>. QED BY <1>1, <1>2 DEF Usual
-----------------------------------------------------------------------------
(***************************************************************************)
(* The calls in flight, and what a step does to them.                      *)
(***************************************************************************)
\* A call that is not idle has all four fields.
CallShape(r) ==
    \/ r = Idle
    \/ /\ DOMAIN r = {"kind", "stage", "about", "answer"}
       /\ r.kind # "idle"
       /\ r.stage \in {"out", "served", "failed"}

CallsOK ==
    /\ DOMAIN calls = Call
    /\ \A c \in Call : CallShape(calls[c])

Only(c) == \A d \in Call \ {c} : calls'[d] = calls[d]

\* Call c is of the kind it was, and now at a stage with an answer.
Moved(c, stage, answer) ==
    /\ calls'[c].kind = calls[c].kind /\ calls'[c].about = calls[c].about
    /\ calls'[c].stage = stage /\ calls'[c].answer = answer
    /\ Only(c)

LEMMA OutShape ==
    ASSUME NEW kind, NEW about, kind # "idle"
    PROVE  /\ CallShape(Out(kind, about))
           /\ Out(kind, about).kind = kind /\ Out(kind, about).stage = "out"
           /\ Out(kind, about).about = about
  BY DEF CallShape, Out

LEMMA IdleShape == CallShape(Idle) /\ Idle.kind = "idle"
  BY DEF CallShape, Idle

LEMMA NotIdle ==
    ASSUME CallsOK, NEW c \in Call
    PROVE  calls[c] = Idle <=> calls[c].kind = "idle"
  BY DEF CallsOK, CallShape, Idle

LEMMA SendIs ==
    ASSUME CallsOK, NEW c \in Call, NEW call, CallShape(call), Send(c, call)
    PROVE  CallsOK' /\ calls[c] = Idle /\ calls'[c] = call /\ Only(c)
  BY DEF CallsOK, Send, Only

LEMMA FollowIs ==
    ASSUME CallsOK, NEW c \in Call, NEW next, CallShape(next), Follow(c, next)
    PROVE  CallsOK' /\ calls'[c] = next /\ Only(c)
  BY DEF CallsOK, Follow, Only

LEMMA AnswerIs ==
    ASSUME CallsOK, NEW c \in Call, calls[c] # Idle, NEW answer, Answer(c, answer)
    PROVE  CallsOK' /\ Moved(c, "served", answer)
  BY DEF CallsOK, CallShape, Answer, Moved, Only

LEMMA RefuseIs ==
    ASSUME CallsOK, NEW c \in Call, calls[c] # Idle, Refuse(c)
    PROVE  CallsOK' /\ Moved(c, "failed", Pending)
  BY DEF CallsOK, CallShape, Refuse, Moved, Only

LEMMA LoseIs ==
    ASSUME CallsOK, NEW c \in Call, Lose(c)
    PROVE  CallsOK' /\ Moved(c, "failed", Pending) /\ calls[c] # Idle
  BY DEF CallsOK, CallShape, Lose, Moved, Only
-----------------------------------------------------------------------------
(***************************************************************************)
(* The shape of the state: which calls a page makes, and the flags.        *)
(***************************************************************************)
PageKinds == {"idle", "load", "record", "save", "linger", "remove", "toggle"}
TerminalKinds == {"idle", "load", "sale", "scan", "orphan"}

KindOK(r) == r.kind \in (IF screen = POS THEN TerminalKinds ELSE PageKinds)

Shape ==
    /\ screen \in AllPages \cup {POS}
    /\ CallsOK
    /\ \A c \in Call : KindOK(calls[c])
    /\ DOMAIN form = {"row", "text"}
    /\ typed \in Nat
    /\ loading \in BOOLEAN /\ saving \in BOOLEAN /\ clean \in BOOLEAN /\ left \in BOOLEAN

\* The effect of a step on the calls is all that matters.
ShapeRest ==
    /\ screen' = screen
    /\ DOMAIN form' = {"row", "text"}
    /\ typed' \in Nat
    /\ loading' \in BOOLEAN /\ saving' \in BOOLEAN /\ clean' \in BOOLEAN /\ left' \in BOOLEAN

LEMMA ShapeStep ==
    ASSUME Shape, ShapeRest, CallsOK', NEW c \in Call, Only(c), KindOK(calls'[c])
    PROVE  Shape'
  BY DEF Shape, ShapeRest, Only, KindOK

LEMMA OpeningShape ==
    ASSUME NEW s, NEW v, NEW x
    PROVE  /\ CallShape(Opening(s, v, x))
           /\ Opening(s, v, x).kind \in {"idle", "load", "record"}
           /\ s.list # "none" => Opening(s, v, x).kind = "load"
           /\ s.list = "none" /\ s.form = "record" => Opening(s, v, x).kind = "record"
  BY OutShape, IdleShape DEF Opening

LEMMA ShapeInit == Init => Shape
  <1>. SUFFICES ASSUME Init PROVE Shape
    OBVIOUS
  <1>1. PICK s \in AllPages \cup {POS} : ScreenInit(s)
    BY DEF Init
  <1>2. PICK x \in DOMAIN table :
           /\ form = IF s.form \in {"record", "given"} THEN [Blank EXCEPT !.row = x] ELSE Blank
           /\ CallsInit(Opening(s, view, x))
    BY <1>1 DEF ScreenInit
  <1>3. PICK c \in Call : calls = [d \in Call |-> IF d = c THEN Opening(s, view, x) ELSE Idle]
    BY <1>2 DEF CallsInit
  <1>4. CallsOK /\ \A d \in Call : calls[d].kind \in {"idle", "load", "record"}
    BY <1>3, OpeningShape, IdleShape DEF CallsOK
  <1>5. s = POS => Opening(s, view, x).kind = "load"
    BY OpeningShape DEF POS
  <1>6. \A d \in Call : KindOK(calls[d])
    BY <1>1, <1>3, <1>4, <1>5, IdleShape DEF KindOK, PageKinds, TerminalKinds, ScreenInit
  <1>7. DOMAIN form = {"row", "text"}
    BY <1>2 DEF Blank
  <1>. QED BY <1>1, <1>4, <1>6, <1>7 DEF Shape, ScreenInit

\* The user's steps on a page, but for those of the terminal.
LEMMA ShapeUser ==
    ASSUME Shape, screen # POS,
           \/ StartEdit \/ Cancel \/ Type
           \/ \E c \in Call : ChangeView(c) \/ Save(c) \/ Remove(c) \/ Toggle(c)
    PROVE  Shape'
  <1>1. CASE StartEdit \/ Cancel \/ Type
    <2>1. calls' = calls /\ ShapeRest
      BY <1>1, DraftAssumption DEF StartEdit, Cancel, Type, ShapeRest, Shape, callVars, Blank
    <2>. QED BY <2>1 DEF Shape, ShapeRest, CallsOK, KindOK
  <1>2. ASSUME NEW c \in Call, ChangeView(c) PROVE Shape'
    <2>1. PICK v \in View : Send(c, Load(v))
      BY <1>2 DEF ChangeView
    <2>2. CallsOK' /\ Only(c) /\ KindOK(calls'[c])
      BY <2>1, SendIs, OutShape DEF Shape, Load, KindOK, PageKinds, TerminalKinds
    <2>3. ShapeRest
      BY <1>2 DEF ChangeView, Loading, Alone, ShapeRest, Shape
    <2>. QED BY <2>2, <2>3, ShapeStep
  <1>3. ASSUME NEW c \in Call, Save(c) PROVE Shape'
    <2>2. CallsOK' /\ Only(c) /\ KindOK(calls'[c])
      BY <1>3, SendIs, OutShape DEF Save, Shape, KindOK, PageKinds
    <2>3. ShapeRest
      BY <1>3 DEF Save, Changing, ShapeRest, Shape
    <2>. QED BY <2>2, <2>3, ShapeStep
  <1>4. ASSUME NEW c \in Call, Remove(c) \/ Toggle(c) PROVE Shape'
    <2>1. PICK kind \in {"remove", "toggle"} : Press(c, kind)
      BY <1>4 DEF Remove, Toggle
    <2>2. CallsOK' /\ Only(c) /\ KindOK(calls'[c])
      BY <2>1, SendIs, OutShape DEF Press, Shape, KindOK, PageKinds
    <2>3. ShapeRest
      BY <2>1 DEF Press, Changing, ShapeRest, Shape
    <2>. QED BY <2>2, <2>3, ShapeStep
  <1>. QED BY <1>1, <1>2, <1>3, <1>4

LEMMA ShapeServe ==
    ASSUME Shape, NEW c \in Call, Serve(c)
    PROVE  Shape'
  <1>1. calls[c] # Idle
    BY IdleShape DEF Serve, ServeLoad, ServeAsked, ServeNew, ServeEdit, ServeRemove, ServeToggle, At
  <1>2. (\E a : Answer(c, a)) \/ Refuse(c)
    BY DEF Serve, ServeLoad, ServeAsked, ServeNew, ServeEdit, ServeRemove, ServeToggle
  <1>3. CallsOK' /\ Only(c) /\ KindOK(calls'[c])
    BY <1>1, <1>2, AnswerIs, RefuseIs DEF Shape, Moved, KindOK
  <1>4. ShapeRest
    BY DEF Serve, ServeLoad, ServeAsked, ServeNew, ServeEdit, ServeRemove, ServeToggle, apiRest,
           ShapeRest, Shape
  <1>. QED BY <1>3, <1>4, ShapeStep

LEMMA ShapeLose ==
    ASSUME Shape, NEW c \in Call, Lose(c), UNCHANGED screenVars
    PROVE  Shape'
  <1>1. CallsOK' /\ Only(c) /\ KindOK(calls'[c])
    BY LoseIs DEF Shape, Moved, KindOK
  <1>2. ShapeRest
    BY DEF ShapeRest, Shape, screenVars
  <1>. QED BY <1>1, <1>2, ShapeStep

\* What a page sends when it has received an answer.
Follows(c) ==
    \E next : /\ Follow(c, next) /\ CallShape(next)
              /\ next.kind \in {"idle", "load", "linger"}

LEMMA ShapeReceive ==
    ASSUME Shape, screen # POS, NEW c \in Call, Receive(c)
    PROVE  Shape'
  <1>. USE OutShape, IdleShape DEF Follows, ShapeRest, userRest, EndSave, Load
  <1>1. ASSUME \/ TakeList(c) \/ TakeRecord(c) \/ LoadFails(c) \/ SaveFails(c)
               \/ PressFails(c)
        PROVE  Follows(c) /\ ShapeRest
    <2>1. Follows(c)
      BY <1>1 DEF TakeList, TakeRecord, LoadFails, SaveFails, PressFails
    <2>2. ShapeRest
      BY <1>1 DEF TakeList, TakeRecord, LoadFails, SaveFails, PressFails, Shape
    <2>. QED BY <2>1, <2>2
  <1>2. ASSUME SavedReload(c) PROVE Follows(c) /\ ShapeRest
    <2>1. Follows(c)
      BY <1>2 DEF SavedReload
    <2>2. ShapeRest
      BY <1>2 DEF SavedReload, Blank, Loading, Alone, Shape
    <2>. QED BY <2>1, <2>2
  <1>3. ASSUME \/ SavedPatch(c) \/ SavedLeave(c) \/ SavedStay(c) \/ SavedLinger(c)
               \/ Lingered(c)
        PROVE  Follows(c) /\ ShapeRest
    <2>1. Follows(c)
      BY <1>3 DEF SavedPatch, SavedLeave, SavedStay, SavedLinger, Lingered
    <2>2. ShapeRest
      BY <1>3 DEF SavedPatch, SavedLeave, SavedStay, SavedLinger, Lingered, Blank, Shape
    <2>. QED BY <2>1, <2>2
  <1>4. ASSUME Removed(c) \/ Toggled(c) PROVE Follows(c) /\ ShapeRest
    <2>1. Follows(c)
      BY <1>4 DEF Removed, Toggled
    <2>2. ShapeRest
      BY <1>4 DEF Removed, Toggled, Loading, Alone, Shape
    <2>. QED BY <2>1, <2>2
  <1>5. Follows(c) /\ ShapeRest
    BY <1>1, <1>2, <1>3, <1>4 DEF Receive
  <1>6. CallsOK' /\ Only(c) /\ KindOK(calls'[c])
    BY <1>5, FollowIs DEF Shape, KindOK, PageKinds
  <1>. QED BY <1>5, <1>6, ShapeStep

LEMMA ShapePage ==
    ASSUME Shape, screen # POS, ScreenStep
    PROVE  Shape'
  BY ShapeUser, ShapeServe, ShapeReceive, ShapeLose DEF ScreenStep

\* The terminal's steps: those of the cashier, then the others.
LEMMA ShapeCashier ==
    ASSUME Shape, screen = POS,
           \/ AddToCart \/ TakeOut \/ GoOffline
           \/ \E c \in Call : Scan(c) \/ Checkout(c) \/ Retry(c) \/ ChangeView(c)
    PROVE  Shape'
  <1>1. CASE AddToCart \/ TakeOut \/ GoOffline
    <2>1. calls' = calls /\ ShapeRest
      BY <1>1 DEF AddToCart, TakeOut, GoOffline, Put, callVars, screenVars, ShapeRest, Shape
    <2>. QED BY <2>1 DEF Shape, ShapeRest, CallsOK, KindOK
  <1>2. ASSUME NEW c \in Call, Scan(c) \/ Checkout(c) \/ Retry(c) \/ ChangeView(c)
        PROVE  Shape'
    <2>1. PICK kind \in {"scan", "sale", "load"}, about \in {Nought, cart} \cup View \cup {view} :
              Send(c, Out(kind, about))
      BY <1>2 DEF Scan, Checkout, Retry, ChangeView, Load
    <2>2. CallsOK' /\ Only(c) /\ KindOK(calls'[c])
      BY <2>1, SendIs, OutShape DEF Shape, KindOK, TerminalKinds
    <2>3. ShapeRest
      BY <1>2 DEF Scan, Checkout, Retry, ChangeView, Loading, Alone, listRest, screenVars,
                  ShapeRest, Shape
    <2>. QED BY <2>2, <2>3, ShapeStep
  <1>. QED BY <1>1, <1>2

LEMMA ReloadIs ==
    ASSUME Shape, NEW c \in Call, Reload(c)
    PROVE  /\ CallsOK'
           /\ calls'[c] = Load(All)
           /\ \A d \in Call \ {c} :
                 calls'[d] = IF calls[d].kind = "sale" /\ calls[d].stage = "out"
                             THEN Out("orphan", calls[d].about)
                             ELSE IF calls[d].kind = "orphan" THEN calls[d] ELSE Idle
  <1>1. \A d \in Call : CallShape(calls[d])
    BY DEF Shape, CallsOK
  <1>. QED BY <1>1, OutShape, IdleShape DEF Reload, CallsOK, Load, At

LEMMA ShapeTerminal ==
    ASSUME Shape, screen = POS, TerminalStep
    PROVE  Shape'
  <1>1. ASSUME NEW c \in Call,
               \/ Scanned(c) \/ ScanMissed(c) \/ ServeOrphan(c) \/ Sold(c) \/ SaleFails(c)
               \/ TakeProducts(c) \/ ProductsFail(c)
        PROVE  Shape'
    <2>1. PICK next \in {Idle, Load(view)} : Follow(c, next)
      BY <1>1 DEF Scanned, ScanMissed, ServeOrphan, Sold, SaleFails, TakeProducts, TakeList,
                  ProductsFail
    <2>2. CallsOK' /\ Only(c) /\ KindOK(calls'[c])
      BY <2>1, FollowIs, OutShape, IdleShape DEF Shape, KindOK, TerminalKinds, Load
    <2>3. CASE Sold(c)
      BY <2>2, <2>3, ShapeStep DEF Sold, userRest, Loading, Alone, ShapeRest, Shape
    <2>4. CASE Scanned(c) \/ ScanMissed(c) \/ ServeOrphan(c)
      <3>. ShapeRest
        <4>1. CASE Scanned(c)
          BY <4>1 DEF Scanned, Put, ShapeRest, Shape
        <4>2. CASE ScanMissed(c)
          BY <4>2 DEF ScanMissed, screenVars, ShapeRest, Shape
        <4>3. CASE ServeOrphan(c)
          BY <4>3 DEF ServeOrphan, ShapeRest, Shape
        <4>. QED BY <2>4, <4>1, <4>2, <4>3
      <3>. QED BY <2>2, ShapeStep
    <2>5. CASE SaleFails(c) \/ TakeProducts(c) \/ ProductsFail(c)
      <3>. ShapeRest
        BY <2>5 DEF SaleFails, TakeProducts, TakeList, ProductsFail, userRest, ShapeRest, Shape
      <3>. QED BY <2>2, ShapeStep
    <2>. QED BY <1>1, <2>3, <2>4, <2>5
  <1>2. ASSUME NEW c \in Call, ServeSale(c) \/ ServeScan(c)
        PROVE  Shape'
    <2>1. CallsOK' /\ Only(c) /\ KindOK(calls'[c])
      BY <1>2, AnswerIs, IdleShape DEF ServeSale, ServeScan, At, Shape, Moved, KindOK
    <2>2. ShapeRest
      BY <1>2 DEF ServeSale, ServeScan, apiRest, screenVars, ShapeRest, Shape
    <2>. QED BY <2>1, <2>2, ShapeStep
  <1>3. ASSUME NEW c \in Call, Reload(c)
        PROVE  Shape'
    <2>1. \A d \in Call : KindOK(calls'[d])
      BY <1>3, ReloadIs, OutShape, IdleShape DEF Load, KindOK, TerminalKinds
    <2>. QED BY <1>3, <2>1, ReloadIs DEF Reload, Shape, KindOK
  <1>. QED BY <1>1, <1>2, <1>3, ShapeCashier, ShapeServe, ShapeLose DEF TerminalStep, Serve

LEMMA ShapeNext == Shape /\ [Next]_vars => Shape'
  <1>1. ASSUME Shape, UNCHANGED vars PROVE Shape'
    BY <1>1 DEF vars, callVars, screenVars, Shape, CallsOK, KindOK
  <1>. QED BY <1>1, ShapePage, ShapeTerminal DEF Next

\* Calls are of a kind their page makes, and hold what that kind needs.
THEOREM ShapeHolds == Spec => []Shape
  BY ShapeInit, ShapeNext, PTL DEF Spec
-----------------------------------------------------------------------------
(***************************************************************************)
(* A flag is up because of a call.                                         *)
(***************************************************************************)
Saves == {"save", "sale"}
Loads == {"load", "record"}

Under(Kinds) == \E c \in Call : calls[c].kind \in Kinds

Flags ==
    /\ saving => \/ Under(Saves) \/ left
                 \/ screen.guard = "success" /\ "save" \in failed
    /\ loading => \/ Under(Loads) \/ left
                  \/ screen.spinner = "success" /\ "load" \in failed

LEMMA FlagsAre == Flags <=> FlagsExplained
  BY DEF Flags, FlagsExplained, Under, Saves, Loads, InFlight, Of

\* A step that touches call c: a flag is up after it because it was up and the
\* call behind it is still there, because call c is now such a call, or because
\* the handler of errors does not take it down.
FlagsFollow(c) ==
    /\ screen' = screen /\ failed \subseteq failed' /\ (left => left')
    /\ saving' => \/ calls'[c].kind \in Saves \/ left'
                  \/ saving /\ calls[c].kind \notin Saves
                  \/ screen.guard = "success" /\ "save" \in failed'
    /\ loading' => \/ calls'[c].kind \in Loads \/ left'
                   \/ loading /\ calls[c].kind \notin Loads
                   \/ screen.spinner = "success" /\ "load" \in failed'

LEMMA FlagsStep ==
    ASSUME Shape, Flags, NEW c \in Call, Only(c), FlagsFollow(c)
    PROVE  Flags'
  <1>1. ASSUME NEW Kinds, calls[c].kind \notin Kinds, Under(Kinds) PROVE Under(Kinds)'
    BY <1>1 DEF Under, Only
  <1>2. ASSUME NEW Kinds, calls'[c].kind \in Kinds PROVE Under(Kinds)'
    BY <1>2 DEF Under
  <1>3. saving' => \/ Under(Saves)' \/ left'
                   \/ screen'.guard = "success" /\ "save" \in failed'
    BY <1>1, <1>2 DEF Flags, FlagsFollow
  <1>4. loading' => \/ Under(Loads)' \/ left'
                    \/ screen'.spinner = "success" /\ "load" \in failed'
    BY <1>1, <1>2 DEF Flags, FlagsFollow
  <1>. QED BY <1>3, <1>4 DEF Flags, Saves, Loads

LEMMA FlagsInit == Init => Flags
  <1>. SUFFICES ASSUME Init PROVE Flags
    OBVIOUS
  <1>1. PICK s \in AllPages \cup {POS} : ScreenInit(s)
    BY DEF Init
  <1>2. PICK x \in DOMAIN table : CallsInit(Opening(s, view, x))
    BY <1>1 DEF ScreenInit
  <1>3. PICK c \in Call : calls[c] = Opening(s, view, x)
    BY <1>2 DEF CallsInit
  <1>4. Usual(s) \/ s.list # "none"
    BY UsualPages DEF POS
  <1>5. s.spinner # "none" => calls[c].kind \in Loads
    BY <1>3, <1>4, OpeningShape DEF Usual, Loads
  <1>. QED BY <1>1, <1>5 DEF ScreenInit, Flags, Under, Loads

LEMMA FlagsPage ==
    ASSUME Shape, Flags, screen # POS, ScreenStep
    PROVE  Flags'
  <1>. USE OutShape, IdleShape, NotIdle, FlagsStep DEF FlagsFollow, Saves, Loads, Load, Shape
  <1>1. ASSUME StartEdit \/ Cancel \/ Type PROVE Flags'
    BY <1>1 DEF StartEdit, Cancel, Type, callVars, Flags, Under
  <1>2. ASSUME NEW c \in Call, ChangeView(c) PROVE Flags'
    <2>1. calls[c].kind = "idle" /\ calls'[c].kind = "load" /\ Only(c)
      BY <1>2, SendIs DEF ChangeView
    <2>. QED BY <1>2, <2>1 DEF ChangeView, Loading
  <1>3. ASSUME NEW c \in Call, Save(c) PROVE Flags'
    <2>1. calls[c].kind = "idle" /\ calls'[c].kind = "save" /\ Only(c)
      BY <1>3, SendIs DEF Save
    <2>. QED BY <1>3, <2>1 DEF Save
  <1>4. ASSUME NEW c \in Call, NEW kind \in {"remove", "toggle"}, Press(c, kind) PROVE Flags'
    <2>1. calls[c].kind = "idle" /\ Only(c)
      BY <1>4, SendIs DEF Press
    <2>. QED BY <1>4, <2>1 DEF Press
  <1>5. ASSUME NEW c \in Call, Serve(c) PROVE Flags'
    <2>1. (\E a : Answer(c, a)) \/ Refuse(c)
      BY <1>5 DEF Serve, ServeLoad, ServeAsked, ServeNew, ServeEdit, ServeRemove, ServeToggle
    <2>2. calls[c] # Idle
      BY <1>5 DEF Serve, ServeLoad, ServeAsked, ServeNew, ServeEdit, ServeRemove, ServeToggle, At
    <2>3. calls'[c].kind = calls[c].kind /\ Only(c)
      BY <2>1, <2>2, AnswerIs, RefuseIs DEF Moved
    <2>4. UNCHANGED <<screen, saving, loading, left, failed>>
      BY <1>5 DEF Serve, ServeLoad, ServeAsked, ServeNew, ServeEdit, ServeRemove, ServeToggle,
                  apiRest
    <2>. QED BY <2>3, <2>4
  <1>6. ASSUME NEW c \in Call, Lose(c), UNCHANGED screenVars PROVE Flags'
    <2>1. calls'[c].kind = calls[c].kind /\ Only(c)
      BY <1>6, LoseIs DEF Moved
    <2>. QED BY <1>6, <2>1 DEF screenVars
  <1>7. ASSUME NEW c \in Call, NEW next, CallShape(next), Follow(c, next) PROVE calls'[c] = next /\ Only(c)
    BY <1>7, FollowIs
  <1>. USE DEF At, userRest, EndSave, Saved
  <1>8. ASSUME NEW c \in Call, TakeList(c) \/ TakeRecord(c) PROVE Flags'
    <2>1. calls[c].kind \in Loads /\ Only(c)
      BY <1>7, <1>8 DEF TakeList, TakeRecord
    <2>. QED BY <1>8, <2>1 DEF TakeList, TakeRecord
  <1>9. ASSUME NEW c \in Call, LoadFails(c) PROVE Flags'
    <2>1. calls[c].kind \in Loads /\ Only(c)
      BY <1>7, <1>9 DEF LoadFails
    <2>2. UNCHANGED <<screen, saving>> /\ left' \in {left, TRUE}
      BY <1>9 DEF LoadFails
    <2>3. left => left'
      BY <2>2
    <2>. QED BY <1>9, <2>1, <2>2, <2>3 DEF LoadFails
  <1>10. ASSUME NEW c \in Call, SaveFails(c) PROVE Flags'
    <2>1. calls[c].kind \in Saves /\ Only(c)
      BY <1>7, <1>10 DEF SaveFails
    <2>. QED BY <1>10, <2>1 DEF SaveFails
  <1>11. ASSUME NEW c \in Call, SavedReload(c) PROVE Flags'
    <2>1. calls[c].kind \in Saves /\ Only(c) /\ (HasList => calls'[c].kind = "load")
      BY <1>7, <1>11 DEF SavedReload
    <2>. QED BY <1>11, <2>1 DEF SavedReload, Loading
  <1>12. ASSUME NEW c \in Call, SavedPatch(c) \/ SavedLeave(c) \/ SavedStay(c) PROVE Flags'
    <2>1. calls[c].kind \in Saves /\ Only(c)
      BY <1>7, <1>12 DEF SavedPatch, SavedLeave, SavedStay
    <2>. QED BY <1>12, <2>1 DEF SavedPatch, SavedLeave, SavedStay
  <1>13. ASSUME NEW c \in Call, SavedLinger(c) \/ Lingered(c) PROVE Flags'
    <2>1. Only(c)
      BY <1>7, <1>13 DEF SavedLinger, Lingered
    <2>. QED BY <1>13, <2>1 DEF SavedLinger, Lingered
  <1>14. ASSUME NEW c \in Call, Removed(c) \/ Toggled(c) PROVE Flags'
    <2>1. calls[c].kind \in {"remove", "toggle"} /\ Only(c)
      BY <1>7, <1>14 DEF Removed, Toggled
    <2>2. UNCHANGED loading \/ calls'[c].kind = "load"
      BY <1>7, <1>14 DEF Removed, Toggled
    <2>. QED BY <1>14, <2>1, <2>2 DEF Removed, Toggled
  <1>15. ASSUME NEW c \in Call, PressFails(c) PROVE Flags'
    <2>1. calls[c].kind \in {"remove", "toggle"} /\ Only(c)
      BY <1>7, <1>15 DEF PressFails
    <2>. QED BY <1>15, <2>1 DEF PressFails
  <1>. HIDE DEF Shape
  <1>. QED
    BY <1>1, <1>2, <1>3, <1>4, <1>5, <1>6, <1>8, <1>9, <1>10, <1>11, <1>12, <1>13, <1>14, <1>15
    DEF ScreenStep, Remove, Toggle, Receive

LEMMA FlagsTerminal ==
    ASSUME Shape, Flags, screen = POS, TerminalStep
    PROVE  Flags'
  <1>. USE OutShape, IdleShape, NotIdle, FlagsStep DEF FlagsFollow, Saves, Loads, Load, At, Shape
  <1>1. ASSUME AddToCart \/ TakeOut \/ GoOffline PROVE Flags'
    BY <1>1 DEF AddToCart, TakeOut, GoOffline, callVars, screenVars, Flags, Under
  <1>2. ASSUME NEW c \in Call, ChangeView(c) \/ Retry(c) PROVE Flags'
    <2>1. calls[c].kind = "idle" /\ calls'[c].kind = "load" /\ Only(c)
      BY <1>2, SendIs DEF ChangeView, Retry
    <2>. QED BY <1>2, <2>1 DEF ChangeView, Retry, Loading, listRest
  <1>3. ASSUME NEW c \in Call, Scan(c) \/ Checkout(c) PROVE Flags'
    <2>1. calls[c].kind = "idle" /\ Only(c) /\ (Checkout(c) => calls'[c].kind = "sale")
      BY <1>3, SendIs DEF Scan, Checkout
    <2>. QED BY <1>3, <2>1 DEF Scan, Checkout, screenVars
  <1>4. ASSUME NEW c \in Call, ServeSale(c) \/ ServeScan(c) \/ ServeLoad(c) PROVE Flags'
    <2>1. calls'[c].kind = calls[c].kind /\ Only(c)
      BY <1>4, AnswerIs DEF ServeSale, ServeScan, ServeLoad, Moved
    <2>. QED BY <1>4, <2>1 DEF ServeSale, ServeScan, ServeLoad, apiRest, screenVars
  <1>5. ASSUME NEW c \in Call, Lose(c), UNCHANGED screenVars PROVE Flags'
    <2>1. calls'[c].kind = calls[c].kind /\ Only(c)
      BY <1>5, LoseIs DEF Moved
    <2>. QED BY <1>5, <2>1 DEF screenVars
  <1>6. ASSUME NEW c \in Call, NEW next, CallShape(next), Follow(c, next)
        PROVE  calls'[c] = next /\ Only(c)
    BY <1>6, FollowIs
  <1>7. ASSUME NEW c \in Call, Scanned(c) \/ ScanMissed(c) \/ ServeOrphan(c) PROVE Flags'
    <2>1. calls[c].kind \in {"scan", "orphan"} /\ Only(c)
      BY <1>6, <1>7 DEF Scanned, ScanMissed, ServeOrphan
    <2>. QED BY <1>7, <2>1 DEF Scanned, ScanMissed, ServeOrphan, screenVars
  <1>8. ASSUME NEW c \in Call, Sold(c) \/ SaleFails(c) PROVE Flags'
    <2>1. calls[c].kind = "sale" /\ Only(c) /\ (Sold(c) => calls'[c].kind = "load")
      BY <1>6, <1>8 DEF Sold, SaleFails
    <2>. QED BY <1>8, <2>1 DEF Sold, SaleFails, userRest, Loading
  <1>9. ASSUME NEW c \in Call, TakeProducts(c) \/ ProductsFail(c) PROVE Flags'
    <2>1. calls[c].kind = "load" /\ Only(c)
      BY <1>6, <1>9 DEF TakeProducts, TakeList, ProductsFail
    <2>. QED BY <1>9, <2>1 DEF TakeProducts, TakeList, ProductsFail, userRest
  <1>10. ASSUME NEW c \in Call, Reload(c) PROVE Flags'
    <2>1. calls'[c].kind = "load"
      BY <1>10, ReloadIs
    <2>. QED BY <1>10, <2>1 DEF Reload, Flags, Under
  <1>. HIDE DEF Shape
  <1>. QED BY <1>1, <1>2, <1>3, <1>4, <1>5, <1>7, <1>8, <1>9, <1>10 DEF TerminalStep

\* On every page a button disabled or a list hidden is so because of a call
\* under way; or for good, after a failure its page has no handler for.
THEOREM FlagsAreExplained == Spec => []FlagsExplained
  <1>1. Shape /\ Flags /\ [Next]_vars => Flags'
    <2>1. ASSUME Flags, UNCHANGED vars PROVE Flags'
      BY <2>1 DEF vars, callVars, screenVars, Flags, Under
    <2>. QED BY <2>1, FlagsPage, FlagsTerminal DEF Next
  <1>. QED BY <1>1, ShapeHolds, FlagsInit, FlagsAre, PTL DEF Spec
-----------------------------------------------------------------------------
(***************************************************************************)
(* What the user typed is not thrown away.                                 *)
(***************************************************************************)
\* What is in the form, or the cart, is what a call under way has taken, or came
\* while it was under way.
Spares(c) ==
    LET r == calls[c]
    IN  /\ r.kind = "save" => form.text \in {Nought, r.about.text} \cup late
        /\ r.kind = "save" /\ r.stage = "served" => r.answer.text = r.about.text
        /\ r.kind = "linger" => form.text \in {Nought, r.about} \cup late
        /\ r.kind = "record" => form.text \in {Nought} \cup late
        /\ r.kind = "sale" => cart \subseteq r.about \cup late

Spared ==
    /\ lost \subseteq late
    /\ \A c \in Call : Spares(c)

\* A step that fills neither the form nor the cart.
SparesFrame ==
    /\ late' = late /\ lost' \subseteq late
    /\ form'.text \in {Nought, form.text}
    /\ cart' \subseteq cart

LEMMA SparedStep ==
    ASSUME Spared, SparesFrame, NEW c \in Call, Only(c), Spares(c)'
    PROVE  Spared'
  <1>1. ASSUME NEW d \in Call \ {c} PROVE Spares(d)'
    BY DEF Spared, SparesFrame, Spares, Only
  <1>. QED BY <1>1 DEF Spared, SparesFrame

LEMMA SparedInit == Init => Spared
  <1>. SUFFICES ASSUME Init PROVE Spared
    OBVIOUS
  <1>1. PICK s \in AllPages \cup {POS} : ScreenInit(s)
    BY DEF Init
  <1>2. PICK x \in DOMAIN table :
           /\ form = IF s.form \in {"record", "given"} THEN [Blank EXCEPT !.row = x] ELSE Blank
           /\ CallsInit(Opening(s, view, x))
    BY <1>1 DEF ScreenInit
  <1>3. form.text = Nought
    BY <1>2 DEF Blank
  <1>4. Opening(s, view, x).kind \in {"idle", "load", "record"}
    BY OpeningShape
  <1>5. \A d \in Call : calls[d].kind \in {"idle", "load", "record"}
    BY <1>2, <1>4, IdleShape DEF CallsInit
  <1>. QED BY <1>1, <1>3, <1>5 DEF ScreenInit, Spared, Spares

LEMMA SparedPage ==
    ASSUME Shape, Spared, screen # POS, ScreenStep, UNCHANGED terminalVars
    PROVE  Spared'
  <1>. USE OutShape, IdleShape, NotIdle, SparedStep
       DEF SparesFrame, Shape, Load, At, terminalVars, Spares
  <1>1. ASSUME StartEdit \/ Cancel PROVE Spared'
    BY <1>1 DEF StartEdit, Cancel, Blank, callVars, Spared
  <1>2. ASSUME Type PROVE Spared'
    <2>1. form'.text = typed + 1 /\ calls' = calls /\ lost' = lost
      BY <1>2 DEF Type, callVars
    <2>2. late \subseteq late'
      BY <1>2 DEF Type
    <2>3. \A d \in Call : calls[d].kind \in {"save", "record", "linger"} => typed + 1 \in late'
      BY <1>2 DEF Type, InFlight, Of
    <2>4. ASSUME NEW d \in Call PROVE Spares(d)'
      BY <2>1, <2>2, <2>3 DEF Spared
    <2>. QED BY <2>1, <2>2, <2>4 DEF Spared
  <1>3. ASSUME NEW c \in Call, ChangeView(c) PROVE Spared'
    <2>1. calls'[c].kind = "load" /\ Only(c)
      BY <1>3, SendIs DEF ChangeView
    <2>. QED BY <1>3, <2>1 DEF ChangeView, Spared
  <1>4. ASSUME NEW c \in Call, Save(c) PROVE Spared'
    <2>1. calls'[c] = Out("save", form) /\ Only(c)
      BY <1>4, SendIs DEF Save
    <2>. QED BY <1>4, <2>1 DEF Save, Spared
  <1>5. ASSUME NEW c \in Call, NEW kind \in {"remove", "toggle"}, Press(c, kind) PROVE Spared'
    <2>1. calls'[c].kind = kind /\ Only(c)
      BY <1>5, SendIs DEF Press
    <2>. QED BY <1>5, <2>1 DEF Press, Spared
  <1>6. ASSUME NEW c \in Call, Lose(c), UNCHANGED screenVars PROVE Spared'
    <2>1. Moved(c, "failed", Pending)
      BY <1>6, LoseIs
    <2>. QED BY <1>6, <2>1 DEF screenVars, Moved, Spared
  <1>7. ASSUME NEW c \in Call, ServeNew(c) \/ ServeEdit(c) PROVE Spared'
    <2>0. UNCHANGED <<form, late, lost>>
      BY <1>7 DEF ServeNew, ServeEdit, apiRest
    <2>1. CASE Refuse(c)
      <3>1. Moved(c, "failed", Pending)
        BY <1>7, <2>1, RefuseIs DEF ServeNew, ServeEdit
      <3>. QED BY <2>0, <3>1 DEF Moved, Spared
    <2>2. CASE \E a : Answer(c, a) /\ a.text = calls[c].about.text
      <3>1. PICK a : Answer(c, a) /\ a.text = calls[c].about.text
        BY <2>2
      <3>2. Moved(c, "served", a)
        BY <1>7, <3>1, AnswerIs DEF ServeNew, ServeEdit
      <3>. QED BY <2>0, <3>1, <3>2 DEF Moved, Spared
    <2>3. CASE ServeNew(c)
      <3>1. Refuse(c) \/ \E x : Answer(c, [row |-> x, text |-> calls[c].about.text])
        BY <2>3 DEF ServeNew
      <3>2. ASSUME NEW x, Answer(c, [row |-> x, text |-> calls[c].about.text])
            PROVE  \E a : Answer(c, a) /\ a.text = calls[c].about.text
        BY <3>2
      <3>. QED BY <2>1, <2>2, <3>1, <3>2
    <2>4. CASE ServeEdit(c)
      BY <2>1, <2>2, <2>4 DEF ServeEdit
    <2>. QED BY <1>7, <2>3, <2>4
  <1>8. ASSUME NEW c \in Call, ServeLoad(c) \/ ServeAsked(c) \/ ServeRemove(c) \/ ServeToggle(c)
        PROVE  Spared'
    <2>1. (\E a : Answer(c, a)) \/ Refuse(c)
      BY <1>8 DEF ServeLoad, ServeAsked, ServeRemove, ServeToggle
    <2>2. Only(c) /\ calls'[c].kind = calls[c].kind /\ calls'[c].about = calls[c].about
      BY <1>8, <2>1, AnswerIs, RefuseIs DEF ServeLoad, ServeAsked, ServeRemove, ServeToggle, Moved
    <2>. QED BY <1>8, <2>2 DEF ServeLoad, ServeAsked, ServeRemove, ServeToggle, apiRest, Spared
  <1>9. ASSUME NEW c \in Call, NEW next, CallShape(next), Follow(c, next)
        PROVE  calls'[c] = next /\ Only(c)
    BY <1>9, FollowIs
  <1>. USE DEF userRest, Saved, Discard, Spared
  <1>10. ASSUME NEW c \in Call,
                TakeList(c) \/ TakeRecord(c) \/ LoadFails(c) \/ SaveFails(c) \/ PressFails(c)
         PROVE  Spared'
    <2>1. calls'[c].kind = "idle" /\ Only(c)
      BY <1>9, <1>10 DEF TakeList, TakeRecord, LoadFails, SaveFails, PressFails
    <2>2. CASE TakeRecord(c)
      BY <2>1, <2>2 DEF TakeRecord
    <2>3. CASE TakeList(c) \/ LoadFails(c) \/ SaveFails(c) \/ PressFails(c)
      <3>. UNCHANGED <<form, late, lost>>
        BY <2>3 DEF TakeList, LoadFails, SaveFails, PressFails
      <3>. QED BY <2>1
    <2>. QED BY <1>10, <2>2, <2>3
  <1>11. ASSUME NEW c \in Call, SavedReload(c) PROVE Spared'
    <2>1. calls'[c].kind \in {"idle", "load"} /\ Only(c)
      BY <1>9, <1>11 DEF SavedReload
    <2>. QED BY <1>11, <2>1 DEF SavedReload, Blank
  <1>12. ASSUME NEW c \in Call, SavedPatch(c) PROVE Spared'
    <2>1. calls'[c].kind = "idle" /\ Only(c)
      BY <1>9, <1>12 DEF SavedPatch
    <2>. QED BY <1>12, <2>1 DEF SavedPatch, Blank
  <1>13. ASSUME NEW c \in Call, SavedLeave(c) \/ SavedStay(c) \/ Lingered(c) PROVE Spared'
    <2>1. calls'[c].kind = "idle" /\ Only(c)
      BY <1>9, <1>13 DEF SavedLeave, SavedStay, Lingered
    <2>. QED BY <1>13, <2>1 DEF SavedLeave, SavedStay, Lingered
  <1>14. ASSUME NEW c \in Call, SavedLinger(c) PROVE Spared'
    <2>1. calls'[c] \in {Idle, Out("linger", calls[c].about.text)} /\ Only(c)
      BY <1>9, <1>14 DEF SavedLinger
    <2>. QED BY <1>14, <2>1 DEF SavedLinger
  <1>15. ASSUME NEW c \in Call, Removed(c) \/ Toggled(c) PROVE Spared'
    <2>1. calls'[c].kind \in {"idle", "load"} /\ Only(c)
      BY <1>9, <1>15 DEF Removed, Toggled
    <2>. QED BY <1>15, <2>1 DEF Removed, Toggled
  <1>. HIDE DEF Shape, Spared
  <1>. QED
    BY <1>1, <1>2, <1>3, <1>4, <1>5, <1>6, <1>7, <1>8, <1>10, <1>11, <1>12, <1>13, <1>14, <1>15
    DEF ScreenStep, Remove, Toggle, Serve, Receive

LEMMA SparedTerminal ==
    ASSUME Shape, Spared, screen = POS, TerminalStep
    PROVE  Spared'
  <1>. USE OutShape, IdleShape, NotIdle, SparedStep
       DEF SparesFrame, Shape, Load, At, terminalVars, Spares
  <1>1. ASSUME NEW c \in Call PROVE calls[c].kind \notin {"save", "linger", "record"}
    BY DEF KindOK, TerminalKinds
  <1>2. ASSUME Put, UNCHANGED lost,
               \A d \in Call : calls'[d].kind = "idle" \/ calls'[d] = calls[d]
        PROVE  Spared'
    <2>1. cart' = cart \cup {typed + 1} /\ late \subseteq late'
      BY <1>2 DEF Put
    <2>2. \A d \in Call : calls[d].kind = "sale" => typed + 1 \in late'
      BY <1>2 DEF Put, InFlight, Of
    <2>3. ASSUME NEW d \in Call PROVE Spares(d)'
      BY <1>1, <1>2, <2>1, <2>2 DEF Spared
    <2>. QED BY <1>2, <2>1, <2>3 DEF Spared
  <1>3. ASSUME AddToCart PROVE Spared'
    BY <1>2, <1>3 DEF AddToCart, callVars
  <1>4. ASSUME TakeOut \/ GoOffline PROVE Spared'
    <2>1. UNCHANGED <<calls, form, late, lost>> /\ cart' \subseteq cart
      BY <1>4 DEF TakeOut, GoOffline, callVars, screenVars
    <2>. QED BY <2>1 DEF Spared
  <1>5. ASSUME NEW c \in Call, NEW r, CallShape(r), calls'[c] = r, r.kind \in {"idle", "load", "scan"},
               Only(c), UNCHANGED <<form, late, lost, cart>>
        PROVE  Spared'
    BY <1>5 DEF Spared
  <1>6. ASSUME NEW c \in Call,
               (ChangeView(c) /\ UNCHANGED terminalVars) \/ Retry(c) \/ Scan(c)
        PROVE  Spared'
    <2>1. calls'[c].kind \in {"load", "scan"} /\ CallShape(calls'[c]) /\ Only(c)
      BY <1>6, SendIs DEF ChangeView, Retry, Scan
    <2>. QED BY <1>5, <1>6, <2>1 DEF ChangeView, Retry, Scan, listRest, screenVars
  <1>7. ASSUME NEW c \in Call, Checkout(c) PROVE Spared'
    <2>1. calls'[c] = Out("sale", cart) /\ Only(c)
      BY <1>7, SendIs DEF Checkout
    <2>. QED BY <1>7, <2>1 DEF Checkout, Spared
  <1>8. ASSUME NEW c \in Call,
               \/ ServeSale(c) \/ ServeScan(c) \/ (ServeLoad(c) /\ UNCHANGED terminalVars)
        PROVE  Spared'
    <2>1. /\ Only(c) /\ calls'[c].kind = calls[c].kind /\ calls'[c].about = calls[c].about
          /\ calls[c].kind \in {"sale", "scan", "load"}
      BY <1>8, AnswerIs DEF ServeSale, ServeScan, ServeLoad, Moved
    <2>2. UNCHANGED <<form, late, lost, cart>>
      BY <1>8 DEF ServeSale, ServeScan, ServeLoad, apiRest, screenVars
    <2>. QED BY <2>1, <2>2 DEF Spared
  <1>9. ASSUME NEW c \in Call, Lose(c), UNCHANGED <<screenVars, terminalVars>> PROVE Spared'
    <2>1. Moved(c, "failed", Pending)
      BY <1>9, LoseIs
    <2>. QED BY <1>9, <2>1 DEF screenVars, Moved, Spared
  <1>10. ASSUME NEW c \in Call, NEW next, CallShape(next), Follow(c, next)
         PROVE  calls'[c] = next /\ Only(c)
    BY <1>10, FollowIs
  <1>11. ASSUME NEW c \in Call, Scanned(c) PROVE Spared'
    <2>1. calls'[c].kind = "idle" /\ Only(c)
      BY <1>10, <1>11 DEF Scanned
    <2>. QED BY <1>2, <1>11, <2>1 DEF Scanned, Only
  <1>12. ASSUME NEW c \in Call,
                \/ ScanMissed(c) \/ ServeOrphan(c) \/ SaleFails(c) \/ TakeProducts(c)
                \/ ProductsFail(c)
         PROVE  Spared'
    <2>1. calls'[c] = Idle /\ Only(c)
      BY <1>10, <1>12 DEF ScanMissed, ServeOrphan, SaleFails, TakeProducts, TakeList, ProductsFail
    <2>2. UNCHANGED <<form, late, lost, cart>>
      BY <1>12 DEF ScanMissed, ServeOrphan, SaleFails, TakeProducts, TakeList, ProductsFail,
                   userRest, screenVars
    <2>. QED BY <1>5, <2>1, <2>2
  <1>13. ASSUME NEW c \in Call, Sold(c) PROVE Spared'
    <2>1. calls'[c].kind = "load" /\ Only(c)
      BY <1>10, <1>13 DEF Sold
    <2>. QED BY <1>13, <2>1 DEF Sold, userRest, Spared
  <1>14. ASSUME NEW c \in Call, Reload(c) PROVE Spared'
    <2>1. \A d \in Call : calls'[d].kind \in {"idle", "load", "orphan"}
      BY <1>14, ReloadIs
    <2>2. UNCHANGED <<form, late, lost, cart>>
      BY <1>14 DEF Reload
    <2>. QED BY <2>1, <2>2 DEF Spared
  <1>. HIDE DEF Shape, SparesFrame, Spares, Load, At, terminalVars
  <1>. QED
    BY <1>3, <1>4, <1>6, <1>7, <1>8, <1>9, <1>11, <1>12, <1>13, <1>14 DEF TerminalStep

\* On every page, what was typed or put in the cart is thrown away only if it
\* came while a save, or the record itself, was on its way.
THEOREM NothingTypedIsLost == Spec => []NothingLost
  <1>1. Shape /\ Spared /\ [Next]_vars => Spared'
    <2>1. ASSUME Spared, UNCHANGED vars PROVE Spared'
      BY <2>1 DEF vars, callVars, screenVars, terminalVars, Spared, Spares
    <2>. QED BY <2>1, SparedPage, SparedTerminal DEF Next
  <1>2. Spared => NothingLost
    BY DEF Spared, NothingLost
  <1>. QED BY <1>1, <1>2, ShapeHolds, SparedInit, PTL DEF Spec
-----------------------------------------------------------------------------
(***************************************************************************)
(* Nothing is stored twice.                                                *)
(***************************************************************************)
\* What was typed, put in the cart or sent is a number typed by now.
Numbered ==
    /\ created \subseteq 1..typed /\ cart \subseteq 1..typed /\ form.text \in 0..typed
    /\ \A c \in Call : /\ calls[c].kind = "save" => calls[c].about.text \in 1..typed
                       /\ calls[c].kind \in {"sale", "orphan"} => calls[c].about \subseteq 1..typed

MakesRows == screen.form \in {"new", "edit"}

\* Only a form for new rows makes any.
RowsGiven ==
    /\ screen.form \in {"record", "given"} => form.row # New
    /\ screen.form = "none" => form.text = Nought
    /\ ~MakesRows => \A c \in Call : calls[c].kind = "save" => calls[c].about.row # New
    /\ screen.keyed \/ ~MakesRows => twice = {}

\* What made a row, as the page will know unless it heard of a failure.
Known == created \ unsure

\* The button is disabled while a save is under way; what it saves has made no row
\* when it is served, and what has made one stays in the form only until then.
SavedOnce ==
    /\ twice \subseteq unsure
    /\ \A c \in Call : calls[c].kind = "save" =>
          /\ saving
          /\ \A d \in Call : calls[d].kind = "save" => d = c
          /\ calls[c].stage = "out" /\ calls[c].about.row = New => calls[c].about.text \notin Known
    /\ ~left /\ form.row = New /\ form.text \in Known =>
          \E c \in Call : /\ calls[c].kind = "save" /\ calls[c].stage # "out"
                          /\ calls[c].about.row = New /\ calls[c].about.text = form.text

Guarded == screen.guard # "none" /\ ~screen.keyed /\ MakesRows

\* The same of the cart, and of sales whose page is gone.
SoldOnce ==
    /\ twice \subseteq unsure
    /\ \A c \in Call : calls[c].kind = "sale" =>
          /\ saving
          /\ \A d \in Call : calls[d].kind = "sale" => d = c
          /\ calls[c].stage = "out" => calls[c].about \cap Known = {}
    /\ \A i \in cart \cap Known :
          \E c \in Call : calls[c].kind = "sale" /\ calls[c].stage # "out" /\ i \in calls[c].about
    /\ \A c \in Call : calls[c].kind = "orphan" => calls[c].about \subseteq unsure

Once ==
    /\ Numbered
    /\ screen # POS => RowsGiven /\ (Guarded => SavedOnce)
    /\ screen = POS => SoldOnce

LEMMA OnceInit == Init => Once
  <1>. SUFFICES ASSUME Init PROVE Once
    OBVIOUS
  <1>1. PICK s \in AllPages \cup {POS} : ScreenInit(s)
    BY DEF Init
  <1>2. PICK x \in DOMAIN table :
           /\ form = IF s.form \in {"record", "given"} THEN [Blank EXCEPT !.row = x] ELSE Blank
           /\ CallsInit(Opening(s, view, x))
    BY <1>1 DEF ScreenInit
  <1>3. x \in Row
    BY <1>1, <1>2 DEF ScreenInit
  <1>4. form.text = Nought /\ (s.form \in {"record", "given"} => form.row # New)
    BY <1>2, <1>3, RowAssumption DEF Blank
  <1>5. Opening(s, view, x).kind \in {"idle", "load", "record"}
    BY OpeningShape
  <1>6. \A d \in Call : calls[d].kind \in {"idle", "load", "record"}
    BY <1>2, <1>5, IdleShape DEF CallsInit
  <1>7. /\ created = {} /\ twice = {} /\ unsure = {} /\ typed = 0 /\ cart = {} /\ screen = s
    BY <1>1 DEF ScreenInit, TerminalInit, Init
  <1>8. Numbered
    BY <1>4, <1>6, <1>7 DEF Numbered, Nought
  <1>9. RowsGiven /\ SavedOnce
    BY <1>4, <1>6, <1>7 DEF RowsGiven, SavedOnce, Known
  <1>10. SoldOnce
    BY <1>6, <1>7 DEF SoldOnce, Known
  <1>. QED BY <1>8, <1>9, <1>10 DEF Once

\* A step that makes no row, sends no save and takes no answer of one.
Passes(c) ==
    /\ UNCHANGED <<screen, typed, created, twice, unsure, saving, cart>>
    /\ form'.row = form.row /\ form'.text \in {Nought, form.text}
    /\ left => left'
    /\ Only(c)
    /\ \/ calls[c].kind # "save" /\ calls'[c].kind \notin {"save", "sale", "orphan"}
       \/ /\ calls'[c].kind = calls[c].kind /\ calls'[c].about = calls[c].about
          /\ calls'[c].stage # "out"

LEMMA NumberedPasses ==
    ASSUME Shape, Numbered, NEW c \in Call, Passes(c)
    PROVE  Numbered'
  <1>1. ASSUME NEW d \in Call
        PROVE  \/ calls'[d].kind = calls[d].kind /\ calls'[d].about = calls[d].about
               \/ calls'[d].kind \notin {"save", "sale", "orphan"}
    BY DEF Passes, Only
  <1>2. form'.text \in 0..typed
    BY DEF Passes, Numbered, Nought, Shape
  <1>. QED BY <1>1, <1>2 DEF Passes, Numbered

LEMMA RowsGivenPasses ==
    ASSUME RowsGiven, NEW c \in Call, Passes(c)
    PROVE  RowsGiven'
  <1>1. ASSUME NEW d \in Call
        PROVE  \/ calls'[d].kind = calls[d].kind /\ calls'[d].about = calls[d].about
               \/ calls'[d].kind # "save"
    BY DEF Passes, Only
  <1>. QED BY <1>1 DEF Passes, RowsGiven, MakesRows

LEMMA SavedOncePasses ==
    ASSUME Shape, Numbered, SavedOnce, NEW c \in Call, Passes(c)
    PROVE  SavedOnce'
  <1>1. ASSUME NEW d \in Call, calls'[d].kind = "save"
        PROVE  /\ calls[d].kind = "save" /\ calls[d].about = calls'[d].about
               /\ calls'[d].stage = "out" => calls[d].stage = "out"
    BY <1>1 DEF Passes, Only
  <1>2. ASSUME NEW d \in Call, calls[d].kind = "save", calls[d].stage # "out"
        PROVE  /\ calls'[d].kind = "save" /\ calls'[d].about = calls[d].about
               /\ calls'[d].stage # "out"
    BY <1>2 DEF Passes, Only
  <1>3. Nought \notin Known
    BY DEF Numbered, Known, Nought, Shape
  <1>4. form'.text \in Known => form'.text = form.text
    BY <1>3 DEF Passes
  <1>5. ~left' /\ form'.row = New /\ form'.text \in Known =>
          \E d \in Call : /\ calls'[d].kind = "save" /\ calls'[d].stage # "out"
                          /\ calls'[d].about.row = New /\ calls'[d].about.text = form'.text
    BY <1>2, <1>4 DEF SavedOnce, Passes
  <1>6. \A d \in Call : calls'[d].kind = "save" =>
          /\ saving'
          /\ \A e \in Call : calls'[e].kind = "save" => e = d
          /\ calls'[d].stage = "out" /\ calls'[d].about.row = New => calls'[d].about.text \notin Known
    BY <1>1 DEF SavedOnce, Passes
  <1>7. Known' = Known /\ twice' = twice /\ unsure' = unsure
    BY DEF Known, Passes
  <1>. QED BY <1>5, <1>6, <1>7 DEF SavedOnce

LEMMA OncePasses ==
    ASSUME Shape, Once, screen # POS, NEW c \in Call, Passes(c)
    PROVE  Once'
  <1>1. screen' = screen
    BY DEF Passes
  <1>2. Numbered' /\ RowsGiven' /\ (Guarded => SavedOnce')
    BY NumberedPasses, RowsGivenPasses, SavedOncePasses DEF Once
  <1>. QED BY <1>1, <1>2 DEF Once, Guarded, MakesRows

LEMMA PagePasses ==
    ASSUME Shape, screen # POS, NEW c \in Call, UNCHANGED terminalVars,
           \/ ChangeView(c) \/ Remove(c) \/ Toggle(c)
           \/ ServeLoad(c) \/ ServeAsked(c) \/ ServeEdit(c) \/ ServeRemove(c) \/ ServeToggle(c)
           \/ TakeList(c) \/ TakeRecord(c) \/ LoadFails(c) \/ PressFails(c) \/ Removed(c)
           \/ Toggled(c) \/ Lingered(c)
           \/ Lose(c) /\ UNCHANGED screenVars
    PROVE  Passes(c)
  <1>. USE OutShape, IdleShape, NotIdle DEF Shape, Load, At, terminalVars, Passes
  <1>1. CASE ChangeView(c)
    <2>1. calls[c].kind = "idle" /\ calls'[c].kind = "load" /\ Only(c)
      BY <1>1, SendIs DEF ChangeView
    <2>. QED BY <1>1, <2>1 DEF ChangeView
  <1>2. CASE Remove(c) \/ Toggle(c)
    <2>1. PICK kind \in {"remove", "toggle"} : Press(c, kind)
      BY <1>2 DEF Remove, Toggle
    <2>2. calls[c].kind = "idle" /\ calls'[c].kind = kind /\ Only(c)
      BY <2>1, SendIs DEF Press
    <2>. QED BY <2>1, <2>2 DEF Press
  <1>3. CASE ServeLoad(c) \/ ServeAsked(c) \/ ServeEdit(c) \/ ServeRemove(c) \/ ServeToggle(c)
    <2>1. (\E a : Answer(c, a)) \/ Refuse(c)
      BY <1>3 DEF ServeLoad, ServeAsked, ServeEdit, ServeRemove, ServeToggle
    <2>2. calls[c] # Idle
      BY <1>3 DEF ServeLoad, ServeAsked, ServeEdit, ServeRemove, ServeToggle
    <2>3. /\ Only(c) /\ calls'[c].kind = calls[c].kind /\ calls'[c].about = calls[c].about
          /\ calls'[c].stage # "out"
      BY <2>1, <2>2, AnswerIs, RefuseIs DEF Moved
    <2>4. UNCHANGED <<screen, typed, created, twice, unsure, saving, form, left>>
      BY <1>3 DEF ServeLoad, ServeAsked, ServeEdit, ServeRemove, ServeToggle, apiRest
    <2>. QED BY <2>3, <2>4
  <1>4. CASE Lose(c) /\ UNCHANGED screenVars
    <2>1. /\ Only(c) /\ calls'[c].kind = calls[c].kind /\ calls'[c].about = calls[c].about
          /\ calls'[c].stage # "out"
      BY <1>4, LoseIs DEF Moved
    <2>. QED BY <1>4, <2>1 DEF screenVars
  <1>5. CASE TakeList(c) \/ TakeRecord(c) \/ LoadFails(c) \/ PressFails(c) \/ Lingered(c)
    <2>1. PICK next \in {Idle} : Follow(c, next)
      BY <1>5 DEF TakeList, TakeRecord, LoadFails, PressFails, Lingered
    <2>2. Only(c) /\ calls'[c].kind = "idle"
      BY <2>1, FollowIs
    <2>3. calls[c].kind # "save"
      BY <1>5 DEF TakeList, TakeRecord, LoadFails, PressFails, Lingered
    <2>4. UNCHANGED <<screen, typed, created, twice, unsure, saving>>
      BY <1>5 DEF TakeList, TakeRecord, LoadFails, PressFails, Lingered, userRest
    <2>5. form'.row = form.row /\ form'.text \in {Nought, form.text}
      BY <1>5 DEF TakeList, TakeRecord, LoadFails, PressFails, Lingered
    <2>6. left' \in {left, TRUE}
      BY <1>5 DEF TakeList, TakeRecord, LoadFails, PressFails, Lingered
    <2>. QED BY <2>2, <2>3, <2>4, <2>5, <2>6
  <1>6. CASE Removed(c) \/ Toggled(c)
    <2>1. PICK next \in {Idle, Load(view)} : Follow(c, next)
      BY <1>6 DEF Removed, Toggled
    <2>2. Only(c) /\ calls'[c].kind \in {"idle", "load"}
      BY <2>1, FollowIs
    <2>. QED BY <1>6, <2>2 DEF Removed, Toggled, userRest
  <1>. QED BY <1>1, <1>2, <1>3, <1>4, <1>5, <1>6

LEMMA OnceEdit ==
    ASSUME Shape, Once, screen # POS, StartEdit \/ Cancel, UNCHANGED terminalVars
    PROVE  Once'
  <1>1. /\ UNCHANGED <<calls, screen, typed, created, twice, unsure, saving, left, cart>>
        /\ MakesRows /\ form'.text = Nought
    BY DEF StartEdit, Cancel, callVars, terminalVars, MakesRows, Blank
  <1>2. Nought \notin Known
    BY DEF Once, Numbered, Known, Nought, Shape
  <1>3. Numbered'
    BY <1>1 DEF Once, Numbered, Nought, Shape
  <1>4. RowsGiven'
    BY <1>1 DEF Once, RowsGiven, MakesRows
  <1>5. SavedOnce => SavedOnce'
    BY <1>1, <1>2 DEF SavedOnce, Known
  <1>. QED BY <1>1, <1>3, <1>4, <1>5 DEF Once, Guarded, MakesRows

LEMMA OnceType ==
    ASSUME Shape, Once, screen # POS, Type, UNCHANGED terminalVars
    PROVE  Once'
  <1>1. /\ UNCHANGED <<calls, screen, created, twice, unsure, saving, left, cart>>
        /\ form'.text = typed + 1 /\ form'.row = form.row /\ typed' = typed + 1
        /\ screen.form \in {"new", "edit", "record", "given"}
    BY DEF Type, callVars, terminalVars, Shape
  <1>2. typed + 1 \notin Known
    BY DEF Once, Numbered, Known, Shape
  <1>3. Numbered'
    BY <1>1 DEF Once, Numbered, Shape
  <1>4. RowsGiven'
    BY <1>1 DEF Once, RowsGiven, MakesRows
  <1>5. SavedOnce => SavedOnce'
    BY <1>1, <1>2 DEF SavedOnce, Known
  <1>. QED BY <1>1, <1>3, <1>4, <1>5 DEF Once, Guarded, MakesRows

LEMMA OnceSave ==
    ASSUME Shape, Once, screen # POS, ~left, NEW c \in Call, Save(c), UNCHANGED terminalVars
    PROVE  Once'
  <1>1. calls'[c] = Out("save", form) /\ calls[c].kind = "idle" /\ Only(c)
    BY SendIs, OutShape, IdleShape DEF Save, Shape
  <1>2. calls'[c].kind = "save" /\ calls'[c].stage = "out" /\ calls'[c].about = form
    BY <1>1, OutShape
  <1>3. /\ UNCHANGED <<screen, typed, created, twice, unsure, form, left, cart>>
        /\ form.text # Nought /\ (screen.guard # "none" => ~saving /\ saving')
    BY DEF Save, terminalVars
  <1>4. Numbered'
    BY <1>1, <1>2, <1>3 DEF Once, Numbered, Only, Shape, Nought
  <1>5. screen.form \in {"none", "new", "edit", "record", "given"}
    BY UsualPages DEF Shape, Usual
  <1>6. ~MakesRows => form.row # New
    BY <1>3, <1>5 DEF Once, RowsGiven, MakesRows
  <1>7. RowsGiven'
    BY <1>1, <1>2, <1>3, <1>6 DEF Once, RowsGiven, MakesRows, Only
  <1>8. ASSUME Guarded PROVE SavedOnce'
    <2>1. saving' /\ \A d \in Call : calls[d].kind # "save"
      BY <1>3, <1>8 DEF Once, SavedOnce, Guarded
    <2>2. \A d \in Call : calls'[d].kind = "save" => d = c
      BY <1>1, <2>1 DEF Only
    <2>3. ~(form.row = New /\ form.text \in Known)
      BY <1>8, <2>1 DEF Once, SavedOnce
    <2>4. Known' = Known
      BY <1>3 DEF Known
    <2>. QED BY <1>2, <1>3, <1>8, <2>1, <2>2, <2>3, <2>4 DEF SavedOnce, Once
  <1>. QED BY <1>3, <1>4, <1>7, <1>8 DEF Once, Guarded, MakesRows

LEMMA OnceServeNew ==
    ASSUME Shape, Once, screen # POS, NEW c \in Call, ServeNew(c), UNCHANGED terminalVars
    PROVE  Once'
  <1>0. calls[c].kind = "save" /\ calls[c].stage = "out" /\ calls[c].about.row = New /\ calls[c] # Idle
    BY IdleShape DEF ServeNew, At
  <1>1. CASE Refuse(c) /\ UNCHANGED <<created, twice>>
    <2>1. Moved(c, "failed", Pending)
      BY <1>0, <1>1, RefuseIs DEF Shape
    <2>2. Passes(c)
      BY <1>1, <2>1 DEF Moved, Passes, ServeNew, apiRest, terminalVars
    <2>. QED BY <2>2, OncePasses
  <1>2. DEFINE d == calls[c].about.text
  <1>3. CASE /\ ~(screen.keyed /\ d \in created)
             /\ \E x : Answer(c, [row |-> x, text |-> d])
             /\ created' = created \cup {d}
             /\ twice' = twice \cup (created \cap {d})
    <2>1. PICK a : Answer(c, a)
      BY <1>3
    <2>2. Moved(c, "served", a)
      BY <1>0, <2>1, AnswerIs DEF Shape
    <2>3. UNCHANGED <<screen, typed, unsure, saving, form, left, cart>>
      BY DEF ServeNew, apiRest, terminalVars
    <2>4. d \in 1..typed
      BY <1>0 DEF Once, Numbered
    <2>5. \A e \in Call : calls'[e].kind = calls[e].kind /\ calls'[e].about = calls[e].about
      BY <2>2 DEF Moved, Only
    <2>6. Numbered'
      BY <1>3, <2>3, <2>4, <2>5 DEF Once, Numbered
    <2>7. MakesRows
      BY <1>0 DEF Once, RowsGiven
    <2>8. screen.keyed => twice' = twice
      BY <1>3
    <2>9. RowsGiven'
      BY <2>3, <2>5, <2>7, <2>8 DEF Once, RowsGiven, MakesRows
    <2>10. ASSUME Guarded PROVE SavedOnce'
      <3>1. SavedOnce /\ d \notin Known
        BY <1>0, <2>10 DEF Once, SavedOnce
      <3>2. twice' \subseteq unsure
        BY <1>3, <3>1 DEF SavedOnce, Known
      <3>3. \A e \in Call : calls'[e].kind = "save" => e = c
        BY <1>0, <2>5, <3>1 DEF SavedOnce
      <3>4. calls'[c].stage = "served" /\ saving'
        BY <1>0, <2>2, <2>3, <3>1 DEF Moved, SavedOnce
      <3>5. ~left' /\ form'.row = New /\ form'.text \in Known' =>
              /\ calls'[c].kind = "save" /\ calls'[c].stage # "out"
              /\ calls'[c].about.row = New /\ calls'[c].about.text = form'.text
        <4>1. CASE form.text = d
          BY <1>0, <2>3, <2>5, <3>4, <4>1
        <4>2. CASE form.text # d
          <5>1. form'.text \in Known' => form.text \in Known
            BY <1>3, <2>3, <4>2 DEF Known
          <5>2. ~(~left /\ form.row = New /\ form.text \in Known)
            BY <1>0, <3>1 DEF SavedOnce
          <5>. QED BY <2>3, <5>1, <5>2
        <4>. QED BY <4>1, <4>2
      <3>. QED BY <2>3, <3>2, <3>3, <3>4, <3>5 DEF SavedOnce
    <2>. QED BY <2>3, <2>6, <2>9, <2>10 DEF Once, Guarded, MakesRows
  <1>. QED BY <1>1, <1>3 DEF ServeNew

\* An answer to a save has come.
LEMMA OnceSaved ==
    ASSUME Shape, Once, screen # POS, NEW c \in Call, UNCHANGED terminalVars,
           \/ SavedReload(c) \/ SavedPatch(c) \/ SavedLeave(c) \/ SavedStay(c) \/ SavedLinger(c)
           \/ SaveFails(c)
    PROVE  Once'
  <1>1. calls[c].kind = "save"
    BY DEF SavedReload, SavedPatch, SavedLeave, SavedStay, SavedLinger, SaveFails, Saved, At
  <1>2. PICK next \in {Idle, Load(view), Out("linger", calls[c].about.text)} : Follow(c, next)
    BY DEF SavedReload, SavedPatch, SavedLeave, SavedStay, SavedLinger, SaveFails
  <1>3. Only(c) /\ calls'[c].kind \in {"idle", "load", "linger"}
    BY <1>2, FollowIs, OutShape, IdleShape DEF Shape, Load
  <1>4. UNCHANGED <<screen, typed, created, twice, cart>>
    BY DEF SavedReload, SavedPatch, SavedLeave, SavedStay, SavedLinger, SaveFails, userRest,
           terminalVars
  <1>5. form' = form \/ (form' = Blank /\ screen.after \in {"reload", "patch"})
    BY DEF SavedReload, SavedPatch, SavedLeave, SavedStay, SavedLinger, SaveFails, Saved
  <1>6. form'.text \in {Nought, form.text}
    BY <1>5 DEF Blank
  <1>7. Numbered'
    BY <1>3, <1>4, <1>6 DEF Once, Numbered, Only, Nought, Shape
  <1>8. RowsGiven'
    <2>1. screen.form \in {"record", "given"} => form' = form
      BY <1>5, UsualPages DEF Shape, Usual
    <2>2. \A d \in Call : calls'[d].kind = "save" => calls[d].kind = "save" /\ calls'[d] = calls[d]
      BY <1>3 DEF Only
    <2>. QED BY <1>4, <1>6, <2>1, <2>2 DEF Once, RowsGiven, MakesRows
  <1>9. ASSUME Guarded PROVE SavedOnce'
    <2>1. SavedOnce
      BY <1>9 DEF Once
    <2>2. \A d \in Call : calls'[d].kind # "save"
      BY <1>1, <1>3, <2>1 DEF SavedOnce, Only
    <2>3. unsure \subseteq unsure'
      BY DEF SavedReload, SavedPatch, SavedLeave, SavedStay, SavedLinger, SaveFails
    <2>4. ~(~left' /\ form'.row = New /\ form'.text \in Known')
      <3>1. CASE SavedReload(c) \/ SavedPatch(c)
        <4>1. form'.text = Nought
          BY <3>1 DEF SavedReload, SavedPatch, Blank
        <4>. QED BY <4>1, <1>7 DEF Numbered, Known, Nought, Shape
      <3>2. CASE SavedLeave(c)
        BY <3>2 DEF SavedLeave
      <3>3. CASE SavedStay(c) \/ SavedLinger(c)
        <4>1. screen.after \in {"stay", "linger"}
          BY <3>3 DEF SavedStay, SavedLinger, Saved
        <4>. QED BY <4>1, <1>9, UsualPages DEF Shape, Usual, Guarded, MakesRows
      <3>4. CASE SaveFails(c)
        <4>1. form' = form /\ left' = left /\ unsure' = unsure \cup Making(calls[c].about)
          BY <3>4 DEF SaveFails
        <4>2. SUFFICES ASSUME ~left, form.row = New, form.text \in Known' PROVE FALSE
          BY <4>1
        <4>3. form.text \in Known
          BY <1>4, <2>3, <4>2 DEF Known
        <4>4. calls[c].about.row = New /\ calls[c].about.text = form.text
          BY <1>1, <2>1, <4>2, <4>3 DEF SavedOnce
        <4>. QED BY <4>1, <4>2, <4>4 DEF Known, Making
      <3>. QED BY <3>1, <3>2, <3>3, <3>4
    <2>. QED BY <1>4, <2>1, <2>2, <2>3, <2>4 DEF SavedOnce
  <1>. QED BY <1>4, <1>7, <1>8, <1>9 DEF Once, Guarded, MakesRows

LEMMA OncePage ==
    ASSUME Shape, Once, screen # POS, ~left, ScreenStep, UNCHANGED terminalVars
    PROVE  Once'
  BY OnceEdit, OnceType, OnceSave, OnceServeNew, OnceSaved, OncePasses, PagePasses
  DEF ScreenStep, Serve, Receive

\* A step of the terminal that stores no sale, sends none and takes no answer of one.
Trades(c) ==
    /\ UNCHANGED <<screen, typed, created, twice, unsure, saving, form>>
    /\ cart' \subseteq cart
    /\ Only(c)
    /\ \/ calls[c].kind \notin {"sale", "orphan"} /\ calls'[c].kind \in {"idle", "load", "scan"}
       \/ /\ calls'[c].kind = calls[c].kind /\ calls'[c].about = calls[c].about
          /\ calls'[c].stage # "out"
       \/ calls[c].kind = "orphan" /\ calls'[c].kind = "idle"

LEMMA OnceTrades ==
    ASSUME Shape, Once, screen = POS, NEW c \in Call, Trades(c)
    PROVE  Once'
  <1>1. ASSUME NEW d \in Call, calls'[d].kind \in {"sale", "orphan", "save"}
        PROVE  /\ calls'[d].kind = calls[d].kind /\ calls'[d].about = calls[d].about
               /\ calls'[d].stage = "out" => calls[d].stage = "out"
    BY <1>1 DEF Trades, Only
  <1>2. ASSUME NEW d \in Call, calls[d].kind = "sale", calls[d].stage # "out"
        PROVE  /\ calls'[d].kind = "sale" /\ calls'[d].about = calls[d].about
               /\ calls'[d].stage # "out"
    BY <1>2 DEF Trades, Only
  <1>3. Numbered'
    BY <1>1 DEF Trades, Once, Numbered
  <1>4. \A d \in Call : calls'[d].kind = "sale" =>
          /\ saving'
          /\ \A e \in Call : calls'[e].kind = "sale" => e = d
          /\ calls'[d].stage = "out" => calls'[d].about \cap Known = {}
    BY <1>1 DEF Once, SoldOnce, Trades
  <1>5. \A i \in cart' \cap Known :
          \E d \in Call : calls'[d].kind = "sale" /\ calls'[d].stage # "out" /\ i \in calls'[d].about
    BY <1>2 DEF Once, SoldOnce, Trades
  <1>6. \A d \in Call : calls'[d].kind = "orphan" => calls'[d].about \subseteq unsure
    BY <1>1 DEF Once, SoldOnce
  <1>7. Known' = Known /\ twice' = twice /\ unsure' = unsure /\ screen' = screen
    BY DEF Known, Trades
  <1>8. SoldOnce'
    BY <1>4, <1>5, <1>6, <1>7 DEF SoldOnce, Once
  <1>. QED BY <1>3, <1>7, <1>8 DEF Once

\* An item is put in the cart.
LEMMA OncePut ==
    ASSUME Shape, Once, screen = POS, Put, UNCHANGED <<screen, created, twice, unsure, saving, form>>,
           \A d \in Call : \/ calls'[d] = calls[d]
                           \/ calls[d].kind = "scan" /\ calls'[d].kind = "idle"
    PROVE  Once'
  <1>1. cart' = cart \cup {typed + 1} /\ typed' = typed + 1
    BY DEF Put
  <1>2. typed + 1 \notin Known
    BY DEF Once, Numbered, Known, Shape
  <1>3. ASSUME NEW d \in Call, calls'[d].kind \in {"sale", "orphan", "save"}
        PROVE  calls'[d] = calls[d]
    BY <1>3
  <1>4. ASSUME NEW d \in Call, calls[d].kind = "sale" PROVE calls'[d] = calls[d]
    BY <1>4
  <1>5. Numbered'
    BY <1>1, <1>3 DEF Once, Numbered, Shape
  <1>6. SoldOnce'
    <2>1. \A d \in Call : calls'[d].kind = "sale" =>
            /\ saving'
            /\ \A e \in Call : calls'[e].kind = "sale" => e = d
            /\ calls'[d].stage = "out" => calls'[d].about \cap Known = {}
      BY <1>3 DEF Once, SoldOnce
    <2>2. \A i \in cart' \cap Known :
            \E d \in Call : /\ calls'[d].kind = "sale" /\ calls'[d].stage # "out"
                            /\ i \in calls'[d].about
      BY <1>1, <1>2, <1>4 DEF Once, SoldOnce
    <2>3. \A d \in Call : calls'[d].kind = "orphan" => calls'[d].about \subseteq unsure
      BY <1>3 DEF Once, SoldOnce
    <2>4. Known' = Known
      BY DEF Known
    <2>. QED BY <2>1, <2>2, <2>3, <2>4 DEF SoldOnce, Once
  <1>. QED BY <1>5, <1>6 DEF Once

LEMMA OnceCheckout ==
    ASSUME Shape, Once, screen = POS, NEW c \in Call, Checkout(c)
    PROVE  Once'
  <1>1. calls'[c] = Out("sale", cart) /\ calls[c].kind = "idle" /\ Only(c)
    BY SendIs, OutShape, IdleShape DEF Checkout, Shape
  <1>2. calls'[c].kind = "sale" /\ calls'[c].stage = "out" /\ calls'[c].about = cart
    BY <1>1, OutShape
  <1>3. UNCHANGED <<screen, typed, created, twice, unsure, form, cart>> /\ ~saving /\ saving'
    BY DEF Checkout, terminalVars
  <1>4. \A d \in Call : calls[d].kind # "sale"
    BY <1>3 DEF Once, SoldOnce
  <1>5. cart \cap Known = {}
    BY <1>4 DEF Once, SoldOnce
  <1>6. Numbered'
    BY <1>1, <1>2, <1>3 DEF Once, Numbered, Only
  <1>7. \A d \in Call : calls'[d].kind = "sale" => d = c
    BY <1>4, <1>1 DEF Only
  <1>8. \A d \in Call : calls'[d].kind = "orphan" => calls'[d].about \subseteq unsure
    BY <1>1, <1>2 DEF Only, Once, SoldOnce
  <1>9. Known' = Known
    BY <1>3 DEF Known
  <1>10. SoldOnce'
    BY <1>2, <1>3, <1>5, <1>7, <1>8, <1>9 DEF SoldOnce, Once
  <1>. QED BY <1>3, <1>6, <1>10 DEF Once

LEMMA OnceServeSale ==
    ASSUME Shape, Once, screen = POS, NEW c \in Call, ServeSale(c)
    PROVE  Once'
  <1>1. calls[c].kind = "sale" /\ calls[c].stage = "out" /\ Moved(c, "served", "done")
    BY AnswerIs, IdleShape DEF ServeSale, At, Shape
  <1>2. DEFINE items == calls[c].about
  <1>3. created' = created \cup items /\ twice' = twice \cup (created \cap items)
    BY DEF ServeSale, Sell
  <1>4. UNCHANGED <<screen, typed, unsure, saving, form, cart>>
    BY DEF ServeSale, apiRest, terminalVars
  <1>5. \A d \in Call : calls'[d].kind = calls[d].kind /\ calls'[d].about = calls[d].about
    BY <1>1 DEF Moved, Only
  <1>6. calls'[c].stage = "served"
    BY <1>1 DEF Moved
  <1>7. Numbered'
    BY <1>1, <1>3, <1>4, <1>5 DEF Once, Numbered
  <1>8. \A d \in Call : calls'[d].kind = "sale" => d = c
    BY <1>1, <1>5 DEF Once, SoldOnce
  <1>9. twice' \subseteq unsure /\ saving
    BY <1>1, <1>3 DEF Once, SoldOnce, Known
  <1>10. ASSUME NEW i \in cart' \cap Known' PROVE i \in items
    <2>1. i \in items \/ i \in cart \cap Known
      BY <1>3, <1>4 DEF Known
    <2>2. ~(i \in cart \cap Known)
      BY <1>1 DEF Once, SoldOnce
    <2>. QED BY <2>1, <2>2
  <1>11. SoldOnce'
    BY <1>1, <1>4, <1>5, <1>6, <1>8, <1>9, <1>10 DEF SoldOnce, Once
  <1>. QED BY <1>4, <1>7, <1>11 DEF Once

LEMMA OnceSold ==
    ASSUME Shape, Once, screen = POS, NEW c \in Call, Sold(c) \/ SaleFails(c)
    PROVE  Once'
  <1>1. PICK next \in {Idle, Load(view)} : Follow(c, next)
    BY DEF Sold, SaleFails
  <1>2. calls[c].kind = "sale" /\ Only(c) /\ calls'[c].kind \in {"idle", "load"}
    BY <1>1, FollowIs, OutShape, IdleShape DEF Sold, SaleFails, At, Load, Shape
  <1>3. UNCHANGED <<screen, typed, created, twice, form>> /\ unsure \subseteq unsure'
    BY DEF Sold, SaleFails, userRest
  <1>4. cart' \subseteq cart
    BY DEF Sold, SaleFails, terminalVars
  <1>5. \A d \in Call : calls'[d].kind # "sale"
    BY <1>2 DEF Once, SoldOnce, Only
  <1>6. \A d \in Call : calls'[d].kind \in {"orphan", "save"} => calls'[d] = calls[d]
    BY <1>2 DEF Only
  <1>7. Numbered'
    BY <1>3, <1>4, <1>5, <1>6 DEF Once, Numbered
  <1>8. cart' \cap Known' = {}
    <2>1. CASE Sold(c)
      BY <2>1 DEF Sold
    <2>2. CASE SaleFails(c)
      <3>1. cart' = cart /\ unsure' = unsure \cup calls[c].about
        BY <2>2 DEF SaleFails, terminalVars
      <3>2. ASSUME NEW i \in cart \cap Known PROVE i \in calls[c].about
        BY <1>2 DEF Once, SoldOnce
      <3>. QED BY <1>3, <3>1, <3>2 DEF Known
    <2>. QED BY <2>1, <2>2
  <1>9. SoldOnce'
    BY <1>3, <1>5, <1>6, <1>8 DEF SoldOnce, Once
  <1>. QED BY <1>3, <1>7, <1>9 DEF Once

LEMMA OnceReload ==
    ASSUME Shape, Once, screen = POS, NEW c \in Call, Reload(c)
    PROVE  Once'
  <1>1. UNCHANGED <<screen, typed, created, twice, form, cart>>
    BY DEF Reload
  <1>2. unsure \subseteq unsure'
        /\ \A d \in Call : calls[d].kind = "sale" => calls[d].about \subseteq unsure'
    BY DEF Reload, Of
  <1>3. ASSUME NEW d \in Call
        PROVE  /\ calls'[d].kind \in {"load", "idle", "orphan"}
               /\ calls'[d].kind = "orphan" =>
                     calls[d].kind \in {"sale", "orphan"} /\ calls'[d].about = calls[d].about
    BY ReloadIs, OutShape, IdleShape DEF Load
  <1>4. Numbered'
    BY <1>1, <1>3 DEF Once, Numbered
  <1>5. cart' \cap Known' = {}
    BY <1>1, <1>2 DEF Known, Once, SoldOnce
  <1>6. \A d \in Call : calls'[d].kind = "orphan" => calls'[d].about \subseteq unsure'
    BY <1>2, <1>3 DEF Once, SoldOnce
  <1>7. SoldOnce'
    BY <1>1, <1>2, <1>3, <1>5, <1>6 DEF SoldOnce, Once
  <1>. QED BY <1>1, <1>4, <1>7 DEF Once

LEMMA OnceOrphan ==
    ASSUME Shape, Once, screen = POS, NEW c \in Call, ServeOrphan(c)
    PROVE  Once'
  <1>1. calls[c].kind = "orphan" /\ Only(c) /\ calls'[c].kind = "idle"
    BY FollowIs, IdleShape DEF ServeOrphan, Shape
  <1>2. UNCHANGED <<screen, typed, unsure, saving, form, cart>>
    BY DEF ServeOrphan, terminalVars
  <1>3. /\ created' \subseteq created \cup calls[c].about
        /\ twice' \subseteq twice \cup calls[c].about
    BY DEF ServeOrphan, Sell
  <1>4. calls[c].about \subseteq unsure /\ calls[c].about \subseteq 1..typed
    BY <1>1 DEF Once, SoldOnce, Numbered
  <1>5. Known' \subseteq Known
    BY <1>2, <1>3, <1>4 DEF Known
  <1>6. \A d \in Call : calls'[d].kind \in {"sale", "orphan", "save"} => calls'[d] = calls[d]
    BY <1>1 DEF Only
  <1>7. \A d \in Call : calls[d].kind = "sale" => calls'[d] = calls[d]
    BY <1>1 DEF Only
  <1>8. Numbered'
    BY <1>2, <1>3, <1>4, <1>6 DEF Once, Numbered
  <1>9. SoldOnce'
    <2>1. \A d \in Call : calls'[d].kind = "sale" =>
            /\ saving'
            /\ \A e \in Call : calls'[e].kind = "sale" => e = d
            /\ calls'[d].stage = "out" => calls'[d].about \cap Known' = {}
      BY <1>2, <1>5, <1>6 DEF Once, SoldOnce
    <2>2. \A i \in cart' \cap Known' :
            \E d \in Call : /\ calls'[d].kind = "sale" /\ calls'[d].stage # "out"
                            /\ i \in calls'[d].about
      BY <1>2, <1>5, <1>7 DEF Once, SoldOnce
    <2>3. twice' \subseteq unsure'
      BY <1>2, <1>3, <1>4 DEF Once, SoldOnce
    <2>. QED BY <1>2, <1>6, <2>1, <2>2, <2>3 DEF SoldOnce, Once
  <1>. QED BY <1>2, <1>8, <1>9 DEF Once

LEMMA TerminalTrades ==
    ASSUME Shape, screen = POS, NEW c \in Call,
           \/ (ChangeView(c) \/ ServeLoad(c)) /\ UNCHANGED terminalVars
           \/ Scan(c) \/ Retry(c) \/ ServeScan(c) \/ ScanMissed(c) \/ TakeProducts(c)
           \/ ProductsFail(c)
           \/ Lose(c) /\ UNCHANGED <<screenVars, terminalVars>>
    PROVE  Trades(c)
  <1>. USE OutShape, IdleShape, NotIdle DEF Shape, Load, At, terminalVars, Trades
  <1>1. CASE (ChangeView(c) /\ UNCHANGED terminalVars) \/ Scan(c) \/ Retry(c)
    <2>1. calls[c].kind = "idle" /\ calls'[c].kind \in {"load", "scan"} /\ Only(c)
      BY <1>1, SendIs DEF ChangeView, Scan, Retry
    <2>2. UNCHANGED <<screen, typed, created, twice, unsure, saving, form, cart>>
      BY <1>1 DEF ChangeView, Scan, Retry, screenVars, listRest
    <2>. QED BY <2>1, <2>2
  <1>2. CASE (ServeLoad(c) /\ UNCHANGED terminalVars) \/ ServeScan(c)
    <2>1. /\ Only(c) /\ calls'[c].kind = calls[c].kind /\ calls'[c].about = calls[c].about
          /\ calls'[c].stage # "out"
      BY <1>2, AnswerIs DEF ServeLoad, ServeScan, Moved
    <2>. QED BY <1>2, <2>1 DEF ServeLoad, ServeScan, apiRest, screenVars
  <1>3. CASE Lose(c) /\ UNCHANGED <<screenVars, terminalVars>>
    <2>1. /\ Only(c) /\ calls'[c].kind = calls[c].kind /\ calls'[c].about = calls[c].about
          /\ calls'[c].stage # "out"
      BY <1>3, LoseIs DEF Moved
    <2>. QED BY <1>3, <2>1 DEF screenVars
  <1>4. CASE ScanMissed(c) \/ TakeProducts(c) \/ ProductsFail(c)
    <2>1. calls[c].kind \in {"scan", "load"} /\ calls'[c].kind = "idle" /\ Only(c)
      BY <1>4, FollowIs DEF ScanMissed, TakeProducts, TakeList, ProductsFail
    <2>2. UNCHANGED <<screen, typed, created, twice, unsure, saving, form, cart>>
      BY <1>4 DEF ScanMissed, TakeProducts, TakeList, ProductsFail, screenVars, userRest
    <2>. QED BY <2>1, <2>2
  <1>. QED BY <1>1, <1>2, <1>3, <1>4

\* The cashier takes items out, or the browser goes offline.
LEMMA OnceTakeOut ==
    ASSUME Shape, Once, screen = POS, TakeOut \/ GoOffline
    PROVE  Once'
  <1>1. UNCHANGED <<calls, screen, typed, created, twice, unsure, saving, form>> /\ cart' \subseteq cart
    BY DEF TakeOut, GoOffline, callVars, screenVars
  <1>2. Known' = Known
    BY <1>1 DEF Known
  <1>3. Numbered'
    BY <1>1 DEF Once, Numbered
  <1>4. SoldOnce'
    BY <1>1, <1>2 DEF Once, SoldOnce
  <1>. QED BY <1>1, <1>3, <1>4 DEF Once

LEMMA OnceTerminal ==
    ASSUME Shape, Once, screen = POS, TerminalStep
    PROVE  Once'
  <1>1. ASSUME AddToCart PROVE Once'
    BY <1>1, OncePut DEF AddToCart, callVars
  <1>2. ASSUME NEW c \in Call, Scanned(c) PROVE Once'
    <2>1. calls[c].kind = "scan" /\ calls'[c].kind = "idle" /\ Only(c)
      BY <1>2, FollowIs, IdleShape DEF Scanned, At, Shape
    <2>. QED BY <1>2, <2>1, OncePut DEF Scanned, Only
  <1>. QED
    BY <1>1, <1>2, OnceTakeOut, TerminalTrades, OnceTrades, OnceCheckout, OnceServeSale, OnceSold,
       OnceReload, OnceOrphan DEF TerminalStep

LEMMA OnceHolds == Spec => []Once
  <1>1. Shape /\ Once /\ [Next]_vars => Once'
    <2>1. ASSUME Once, UNCHANGED vars PROVE Once'
      BY <2>1 DEF vars, callVars, screenVars, terminalVars, Once, Numbered, RowsGiven, MakesRows,
                  SavedOnce, SoldOnce, Known, Guarded
    <2>. QED BY <2>1, OncePage, OnceTerminal DEF Next
  <1>. QED BY <1>1, ShapeHolds, OnceInit, PTL DEF Spec

\* On every page whose button is disabled while it saves, and at the terminal,
\* nothing is stored twice unless the page heard that the first save failed.
THEOREM NothingIsStoredTwice == Spec => []NothingTwice
  <1>1. Once => NothingTwice
    BY DEF Once, NothingTwice, RowsGiven, Guarded, SavedOnce, SoldOnce
  <1>. QED BY <1>1, OnceHolds, PTL
-----------------------------------------------------------------------------
(***************************************************************************)
(* A list settles.                                                         *)
(***************************************************************************)
\* A page with no form saves nothing, and one with a list loads no record and is
\* not left when it has saved.
IsFun(f) == f = [x \in DOMAIN f |-> f[x]]
Listing ==
    /\ IsFun(table)
    /\ screen.form = "none" => \A c \in Call : calls[c].kind # "save"
    /\ HasList => \A c \in Call : calls[c].kind \notin {"record", "linger"}

\* The list shows what the page learned of the rows t.
Within(t) == \A x \in DOMAIN shown.rows : x \in DOMAIN t /\ shown.rows[x] = t[x]
Shows(t) ==
    /\ shown = [view |-> view, rows |-> shown.rows, patched |-> shown.patched]
    /\ IF PatchedView THEN Within(t) ELSE shown.rows = ListOf(view, t)
UpToDate == Shows(table)

\* A load brings what is there now, for the view chosen, or fails.
Fresh(c) ==
    /\ calls[c].kind = "load"
    /\ calls[c].stage = "out" => calls[c].about = view
    /\ calls[c].stage = "served" => calls[c].answer = Loaded(view, ListOf(view, table))

\* A list that is loaded anew after a change: the change is still under way, or
\* the one load that is brings what is there, or the list shows it.
Changes == {"save", "remove", "toggle", "sale"}
OneLoad == \A c, d \in Call : calls[c].kind = "load" /\ calls[d].kind = "load" => c = d
Reloads ==
    /\ OneLoad
    /\ \/ \E c \in Call : calls[c].kind \in Changes
       \/ \E c \in Call : Fresh(c)
       \/ UpToDate /\ \A c \in Call : calls[c].kind # "load"

\* A list that is patched after a change: only one call is under way, and the
\* list shows what is there but for what that call has done.
Patch(c) ==
    LET r == calls[c]
    IN  \/ Fresh(c)
        \/ r.kind \in {"save", "remove", "toggle"} /\ r.stage = "out" /\ UpToDate
        \/ r.kind \in {"save", "remove", "toggle"} /\ r.stage = "failed"
        \/ /\ r.kind = "save" /\ r.stage = "served"
           /\ \E t : /\ Shows(t)
                     /\ r.about.row = New \/ r.answer.row \in DOMAIN t
                     /\ table = With(t, r.answer.row, r.answer.text)
        \/ /\ r.kind = "remove" /\ r.stage = "served"
           /\ \E t : Shows(t) /\ table = Without(t, r.about)
        \/ /\ r.kind = "toggle" /\ r.stage = "served"
           /\ \E t : /\ Shows(t)
                     /\ r.about \in DOMAIN t
                     /\ table = [t EXCEPT ![r.about] = Switched]
Patched ==
    \/ /\ \A c \in Call : calls[c].kind = "idle"
       /\ UpToDate
    \/ \E c \in Call : /\ \A d \in Call \ {c} : calls[d].kind = "idle"
                       /\ Patch(c)

Settles == HasList /\ clean /\ ~left => IF Patches THEN Patched ELSE Reloads

\* What does not change while the list, the view and the rows do not.
LEMMA SameShown ==
    ASSUME UNCHANGED <<screen, view, shown>>, NEW t
    PROVE  Shows(t)' <=> Shows(t)
  <1>1. PatchedView' <=> PatchedView
    BY DEF PatchedView
  <1>2. ListOf(view, t)' = ListOf(view, t)
    BY DEF ListOf
  <1>. QED BY <1>1, <1>2 DEF Shows, Within

LEMMA SameUpToDate ==
    ASSUME UNCHANGED <<screen, view, shown, table>>, UpToDate
    PROVE  UpToDate'
  <1>1. PICK t : t = table
    OBVIOUS
  <1>2. Shows(t)'
    BY <1>1, SameShown DEF UpToDate
  <1>. QED BY <1>1, <1>2 DEF UpToDate, Shows, Within, PatchedView, ListOf

LEMMA SameFresh ==
    ASSUME UNCHANGED <<screen, view, table>>, NEW c \in Call, Fresh(c), calls'[c] = calls[c]
    PROVE  Fresh(c)'
  <1>1. ListOf(view, table)' = ListOf(view, table)
    BY DEF ListOf
  <1>. QED BY <1>1 DEF Fresh

LEMMA SamePatch ==
    ASSUME UNCHANGED <<screen, view, shown, table>>, NEW c \in Call, Patch(c), calls'[c] = calls[c]
    PROVE  Patch(c)'
  BY SameShown, SameUpToDate, SameFresh DEF Patch

LEMMA PartOf ==
    ASSUME NEW v, NEW t, NEW x \in DOMAIN ListOf(v, t)
    PROVE  x \in DOMAIN t /\ ListOf(v, t)[x] = t[x]
  BY DEF ListOf, Paged, Fitting

LEMMA ListingInit == Init => Listing
  <1>. SUFFICES ASSUME Init PROVE Listing
    OBVIOUS
  <1>1. PICK s \in AllPages \cup {POS} : ScreenInit(s)
    BY DEF Init
  <1>2. PICK x \in DOMAIN table : CallsInit(Opening(s, view, x))
    BY <1>1 DEF ScreenInit
  <1>3. \A d \in Call : calls[d] \in {Idle, Opening(s, view, x)}
    BY <1>2 DEF CallsInit
  <1>4. \A d \in Call : /\ calls[d].kind \in {"idle", "load", "record"}
                        /\ s.list # "none" => calls[d].kind \in {"idle", "load"}
    <2>1. PICK o : o = Opening(s, view, x)
      OBVIOUS
    <2>2. o.kind \in {"idle", "load", "record"} /\ (s.list # "none" => o.kind = "load")
      BY <2>1, OpeningShape
    <2>. QED BY <1>3, <2>1, <2>2, IdleShape
  <1>5. IsFun(table)
    BY <1>1 DEF ScreenInit, IsFun
  <1>. QED BY <1>1, <1>4, <1>5 DEF Listing, HasList, ScreenInit

LEMMA SettlesInit == Init => Settles
  <1>. SUFFICES ASSUME Init, HasList PROVE (IF Patches THEN Patched ELSE Reloads)
    BY DEF Settles
  <1>1. PICK s \in AllPages \cup {POS} : ScreenInit(s)
    BY DEF Init
  <1>2. PICK x \in DOMAIN table : CallsInit(Opening(s, view, x))
    BY <1>1 DEF ScreenInit
  <1>3. PICK c \in Call : calls = [d \in Call |-> IF d = c THEN Opening(s, view, x) ELSE Idle]
    BY <1>2 DEF CallsInit
  <1>4. Opening(s, view, x) = Out("load", view)
    BY <1>1 DEF Opening, HasList, ScreenInit
  <1>5. calls[c] = Out("load", view) /\ \A d \in Call \ {c} : calls[d].kind = "idle"
    BY <1>3, <1>4, IdleShape
  <1>6. Fresh(c)
    BY <1>5, OutShape DEF Fresh
  <1>. QED BY <1>5, <1>6 DEF Patched, Reloads, Patch, OneLoad

\* Steps after which all is well whatever was before.
LEMMA LoadSettles ==
    ASSUME NEW c \in Call, CallsOK, CallsOK', calls'[c] = Load(view'), Only(c), screen' = screen,
           clean' = Alone(c)
    PROVE  Settles'
  <1>1. SUFFICES ASSUME Alone(c) PROVE (IF Patches THEN Patched ELSE Reloads)'
    BY DEF Settles
  <1>2. Fresh(c)'
    BY OutShape DEF Fresh, Load
  <1>3. ASSUME Patches PROVE Patched'
    <2>1. \A d \in Call \ {c} : calls'[d].kind = "idle"
      BY <1>1, <1>3, IdleShape DEF Alone, Only
    <2>. QED BY <1>2, <2>1 DEF Patched, Patch
  <1>4. ASSUME ~Patches PROVE Reloads'
    <2>1. \A d \in Call \ {c} : calls'[d].kind # "load"
      BY <1>1, IdleShape DEF Alone, Only
    <2>. QED BY <1>2, <2>1 DEF Reloads, OneLoad
  <1>. QED BY <1>3, <1>4 DEF Patches

\* Steps that are none of the list's business.
LEMMA IdlySettles ==
    ASSUME Settles, CallsOK, UNCHANGED <<screen, view, shown, table, clean>>, left => left',
           \A d \in Call : \/ calls'[d] = calls[d]
                           \/ /\ ~Patches
                              /\ calls[d].kind \notin Changes \cup {"load"}
                              /\ calls'[d].kind \notin Changes \cup {"load"}
    PROVE  Settles'
  <1>1. SUFFICES ASSUME HasList, clean, ~left PROVE (IF Patches THEN Patched ELSE Reloads)'
    BY DEF Settles, HasList
  <1>2. ASSUME Patches PROVE Patched'
    BY <1>1, <1>2, SamePatch, SameUpToDate DEF Settles, Patched
  <1>3. ASSUME ~Patches PROVE Reloads'
    <2>1. Reloads
      BY <1>1, <1>3 DEF Settles
    <2>2. OneLoad'
      BY <1>3, <2>1 DEF Reloads, OneLoad
    <2>3. ASSUME NEW c \in Call, calls[c].kind \in Changes PROVE calls'[c].kind \in Changes
      BY <2>3
    <2>4. ASSUME NEW c \in Call, Fresh(c) PROVE Fresh(c)'
      <3>1. calls'[c] = calls[c]
        BY <2>4 DEF Fresh
      <3>. QED BY <2>4, <3>1, SameFresh
    <2>5. ASSUME UpToDate, \A c \in Call : calls[c].kind # "load"
          PROVE  UpToDate' /\ \A c \in Call : calls'[c].kind # "load"
      BY <2>5, SameUpToDate
    <2>. QED BY <2>1, <2>2, <2>3, <2>4, <2>5 DEF Reloads
  <1>. QED BY <1>2, <1>3 DEF Patches

\* A change is sent, or goes on.
LEMMA ChangeReloads ==
    ASSUME Settles, ~Patches, NEW c \in Call, Only(c), calls'[c].kind \in Changes,
           screen' = screen, clean' => clean, left => left'
    PROVE  Settles'
  <1>1. SUFFICES ASSUME HasList, clean, ~left PROVE Reloads'
    BY DEF Settles, HasList, Patches
  <1>2. OneLoad
    BY <1>1 DEF Settles, Reloads
  <1>3. OneLoad'
    BY <1>2 DEF OneLoad, Only, Changes
  <1>. QED BY <1>3 DEF Reloads

LEMMA FunctionsAre ==
    ASSUME NEW f, IsFun(f), NEW x, NEW v
    PROVE  /\ IsFun(With(f, x, v)) /\ IsFun(Without(f, x)) /\ IsFun([f EXCEPT ![x] = v])
           /\ x \in DOMAIN f => [f EXCEPT ![x] = v] = With(f, x, v)
  BY DEF IsFun, With, Without

LEMMA ListingStep ==
    ASSUME Listing, NEW c \in Call, Only(c), screen' = screen,
           table' = table \/ IsFun(table'),
           \/ calls'[c].kind = calls[c].kind
           \/ calls'[c].kind \notin {"save", "record", "linger"}
    PROVE  Listing'
  <1>1. \A d \in Call : \/ calls'[d].kind = calls[d].kind
                        \/ calls'[d].kind \notin {"save", "record", "linger"}
    BY DEF Only
  <1>2. IsFun(table')
    BY DEF Listing
  <1>3. IsFun(table)'
    BY <1>2 DEF IsFun
  <1>. QED BY <1>1, <1>3 DEF Listing, HasList

LEMMA ServeTable ==
    ASSUME IsFun(table), NEW c \in Call, Serve(c)
    PROVE  IsFun(table')
  <1>1. ASSUME NEW x, NEW v,
               \/ table' = With(table, x, v) \/ table' = Without(table, x)
               \/ table' = [table EXCEPT ![x] = v]
        PROVE  IsFun(table')
    <2>1. /\ IsFun(With(table, x, v)) /\ IsFun(Without(table, x))
          /\ IsFun([table EXCEPT ![x] = v])
      BY FunctionsAre
    <2>2. CASE table' = With(table, x, v)
      BY <2>1, <2>2
    <2>3. CASE table' = Without(table, x)
      BY <2>1, <2>3
    <2>4. CASE table' = [table EXCEPT ![x] = v]
      BY <2>1, <2>4, Zenon
    <2>. QED BY <1>1, <2>2, <2>3, <2>4
  <1>2. ASSUME ServeNew(c), UNCHANGED table PROVE IsFun(table')
    BY <1>2
  <1>3. ASSUME ServeNew(c), \E x \in Row \ DOMAIN table : table' = With(table, x, calls[c].about.text)
        PROVE  IsFun(table')
    BY <1>1, <1>3
  <1>4. CASE ServeNew(c)
    BY <1>2, <1>3, <1>4 DEF ServeNew
  <1>5. CASE ServeEdit(c)
    <2>1. CASE UNCHANGED table
      BY <2>1
    <2>2. CASE table' = [table EXCEPT ![calls[c].about.row] = calls[c].about.text]
      BY <1>1, <2>2
    <2>. QED BY <1>5, <2>1, <2>2 DEF ServeEdit
  <1>6. CASE ServeRemove(c)
    BY <1>1, <1>6 DEF ServeRemove
  <1>7. CASE ServeToggle(c)
    BY <1>1, <1>7 DEF ServeToggle
  <1>8. CASE ServeLoad(c) \/ ServeAsked(c)
    BY <1>8 DEF ServeLoad, ServeAsked
  <1>. QED BY <1>4, <1>5, <1>6, <1>7, <1>8 DEF Serve

LEMMA ListingPage ==
    ASSUME Shape, Once, Listing, screen # POS, ScreenStep
    PROVE  Listing'
  <1>. USE OutShape, IdleShape, NotIdle, ListingStep DEF Shape, Load, At
  <1>1. ASSUME StartEdit \/ Cancel \/ Type PROVE Listing'
    BY <1>1 DEF StartEdit, Cancel, Type, callVars, Listing, HasList, IsFun
  <1>2. ASSUME NEW c \in Call, ChangeView(c) PROVE Listing'
    <2>1. calls'[c].kind = "load" /\ Only(c)
      BY <1>2, SendIs DEF ChangeView
    <2>. QED BY <1>2, <2>1 DEF ChangeView
  <1>3. ASSUME NEW c \in Call, Save(c) PROVE Listing'
    <2>1. calls'[c].kind = "save" /\ Only(c)
      BY <1>3, SendIs DEF Save
    <2>2. screen.form # "none" /\ UNCHANGED <<screen, table>>
      BY <1>3 DEF Save, Once, RowsGiven
    <2>. QED BY <2>1, <2>2 DEF Listing, HasList, Only, IsFun
  <1>4. ASSUME NEW c \in Call, NEW kind \in {"remove", "toggle"}, Press(c, kind) PROVE Listing'
    <2>1. calls'[c].kind = kind /\ Only(c)
      BY <1>4, SendIs DEF Press
    <2>. QED BY <1>4, <2>1 DEF Press
  <1>5. ASSUME NEW c \in Call, Lose(c), UNCHANGED screenVars PROVE Listing'
    <2>1. calls'[c].kind = calls[c].kind /\ Only(c)
      BY <1>5, LoseIs DEF Moved
    <2>. QED BY <1>5, <2>1 DEF screenVars
  <1>6. ASSUME NEW c \in Call, Serve(c) PROVE Listing'
    <2>1. (\E a : Answer(c, a)) \/ Refuse(c)
      BY <1>6 DEF Serve, ServeLoad, ServeAsked, ServeNew, ServeEdit, ServeRemove, ServeToggle
    <2>2. calls[c] # Idle
      BY <1>6 DEF Serve, ServeLoad, ServeAsked, ServeNew, ServeEdit, ServeRemove, ServeToggle
    <2>3. calls'[c].kind = calls[c].kind /\ Only(c)
      BY <2>1, <2>2, AnswerIs, RefuseIs DEF Moved
    <2>4. screen' = screen
      BY <1>6 DEF Serve, ServeLoad, ServeAsked, ServeNew, ServeEdit, ServeRemove, ServeToggle,
                  apiRest
    <2>5. IsFun(table')
      BY <1>6, ServeTable DEF Listing
    <2>. QED BY <2>3, <2>4, <2>5
  <1>7. ASSUME NEW c \in Call, NEW next, CallShape(next), Follow(c, next)
        PROVE  calls'[c] = next /\ Only(c)
    BY <1>7, FollowIs
  <1>. USE DEF userRest, Saved
  <1>8. ASSUME NEW c \in Call,
               \/ TakeList(c) \/ TakeRecord(c) \/ LoadFails(c) \/ SaveFails(c) \/ PressFails(c)
               \/ Lingered(c)
        PROVE  Listing'
    <2>1. calls'[c].kind = "idle" /\ Only(c)
      BY <1>7, <1>8 DEF TakeList, TakeRecord, LoadFails, SaveFails, PressFails, Lingered
    <2>2. UNCHANGED <<screen, table>>
      BY <1>8 DEF TakeList, TakeRecord, LoadFails, SaveFails, PressFails, Lingered
    <2>. QED BY <2>1, <2>2
  <1>9. ASSUME NEW c \in Call, SavedReload(c) \/ SavedPatch(c) \/ SavedLeave(c) \/ SavedStay(c)
        PROVE  Listing'
    <2>1. calls'[c].kind \in {"idle", "load"} /\ Only(c)
      BY <1>7, <1>9 DEF SavedReload, SavedPatch, SavedLeave, SavedStay
    <2>2. UNCHANGED <<screen, table>>
      BY <1>9 DEF SavedReload, SavedPatch, SavedLeave, SavedStay
    <2>. QED BY <2>1, <2>2
  <1>10. ASSUME NEW c \in Call, SavedLinger(c) PROVE Listing'
    <2>1. calls'[c].kind \in {"idle", "linger"} /\ Only(c) /\ calls[c].kind = "save"
      BY <1>7, <1>10 DEF SavedLinger
    <2>2. UNCHANGED <<screen, table>> /\ screen.after = "linger"
      BY <1>10 DEF SavedLinger
    <2>3. screen.form # "none"
      BY <2>1 DEF Listing
    <2>4. ~HasList
      BY <2>2, <2>3, UsualPages DEF Usual, HasList
    <2>. QED BY <2>1, <2>2, <2>4 DEF Listing, HasList, Only, IsFun
  <1>11. ASSUME NEW c \in Call, Removed(c) \/ Toggled(c) PROVE Listing'
    <2>1. calls'[c].kind \in {"idle", "load"} /\ Only(c)
      BY <1>7, <1>11 DEF Removed, Toggled
    <2>. QED BY <1>11, <2>1 DEF Removed, Toggled
  <1>. HIDE DEF Shape
  <1>. QED BY <1>1, <1>2, <1>3, <1>4, <1>5, <1>6, <1>8, <1>9, <1>10, <1>11
           DEF ScreenStep, Remove, Toggle, Receive

LEMMA ListingTerminal ==
    ASSUME Shape, Listing, screen = POS, TerminalStep
    PROVE  Listing'
  <1>1. screen' = screen /\ screen.list # "none" /\ screen.form # "none"
    <2>1. screen' = screen
      BY ShapeTerminal DEF TerminalStep, AddToCart, TakeOut, GoOffline, Scan, Scanned, ScanMissed,
         Checkout, Retry, Reload, ServeSale, ServeOrphan, ServeScan, Sold, SaleFails, TakeProducts,
         TakeList, ProductsFail, ChangeView, ServeLoad, screenVars, apiRest, userRest, listRest
    <2>. QED BY <2>1 DEF POS
  <1>2. \A c \in Call : calls'[c].kind \in TerminalKinds
    BY <1>1, ShapeTerminal DEF Shape, KindOK
  <1>3. \/ table' = table
        \/ \E x, i : table' = [table EXCEPT ![x] = i]
    BY DEF TerminalStep, AddToCart, TakeOut, GoOffline, Scan, Scanned, ScanMissed,
         Checkout, Retry, Reload, ServeSale, ServeOrphan, ServeScan, Sold, SaleFails, TakeProducts,
         TakeList, ProductsFail, ChangeView, ServeLoad, screenVars, apiRest, userRest, listRest, Sell
  <1>4. IsFun(table)'
    BY <1>3, FunctionsAre DEF Listing, IsFun
  <1>. QED BY <1>1, <1>2, <1>4 DEF Listing, HasList, TerminalKinds

\* The one call under way on a page that patches its list.
LEMMA OnlyOne ==
    ASSUME Settles, HasList, clean, ~left, Patches, NEW c \in Call, calls[c].kind # "idle"
    PROVE  Patch(c) /\ \A d \in Call \ {c} : calls[d].kind = "idle"
  BY DEF Settles, Patched

LEMMA SendSettles ==
    ASSUME Settles, CallsOK, NEW c \in Call, NEW kind \in {"save", "remove", "toggle", "sale"},
           NEW about, Send(c, Out(kind, about)), UNCHANGED <<screen, view, shown, table, left>>,
           ~Patches => clean' = clean,
           Patches => Changing(c) /\ kind # "sale"
    PROVE  Settles'
  <1>1. calls[c].kind = "idle" /\ calls'[c] = Out(kind, about) /\ Only(c)
    BY SendIs, OutShape, IdleShape
  <1>2. calls'[c].kind = kind /\ calls'[c].stage = "out"
    BY <1>1, OutShape
  <1>3. CASE ~Patches
    BY <1>1, <1>2, <1>3, ChangeReloads DEF Changes
  <1>4. CASE Patches
    <2>1. SUFFICES ASSUME HasList, clean', ~left PROVE Patched'
      BY <1>4 DEF Settles, HasList, Patches
    <2>2. clean /\ \A d \in Call \ {c} : calls[d].kind = "idle"
      BY <1>4, <2>1, IdleShape DEF Changing
    <2>3. UpToDate
      BY <1>1, <1>4, <2>1, <2>2, OnlyOne DEF Settles, Patched, Patch, Fresh
    <2>4. Patch(c)'
      BY <1>2, <1>4, <2>3, SameUpToDate DEF Patch
    <2>5. \A d \in Call \ {c} : calls'[d].kind = "idle"
      BY <1>1, <2>2 DEF Only
    <2>. QED BY <2>4, <2>5 DEF Patched
  <1>. QED BY <1>3, <1>4

LEMMA FailSettles ==
    ASSUME Settles, Listing, NEW c \in Call, calls[c].kind # "idle", Moved(c, "failed", Pending),
           UNCHANGED <<screen, view, shown, table, clean, left>>,
           calls[c].kind \in PageKinds \cup TerminalKinds
    PROVE  Settles'
  <1>1. SUFFICES ASSUME HasList, clean, ~left PROVE (IF Patches THEN Patched ELSE Reloads)'
    BY DEF Settles, HasList
  <1>2. calls'[c].kind = calls[c].kind /\ calls'[c].stage = "failed" /\ Only(c)
    BY DEF Moved
  <1>3. ASSUME Patches PROVE Patched'
    <2>1. Patch(c) /\ \A d \in Call \ {c} : calls[d].kind = "idle"
      BY <1>1, <1>3, OnlyOne
    <2>2. Patch(c)'
      BY <1>2, <2>1 DEF Patch, Fresh
    <2>. QED BY <1>2, <2>1, <2>2 DEF Patched, Only
  <1>4. ASSUME ~Patches PROVE Reloads'
    <2>1. Reloads
      BY <1>1, <1>4 DEF Settles
    <2>2. \A d \in Call : calls'[d].kind = calls[d].kind
      BY <1>2 DEF Only
    <2>3. ASSUME NEW d \in Call, Fresh(d) PROVE Fresh(d)'
      <3>1. calls[d].stage = "failed" \/ calls'[d] = calls[d] \/ calls'[d].stage = "failed"
        BY <1>2 DEF Only
      <3>2. CASE calls'[d] = calls[d]
        BY <2>3, <3>2, SameFresh
      <3>. QED BY <1>2, <2>3, <3>1, <3>2 DEF Fresh, Only
    <2>. QED BY <2>1, <2>2, <2>3, SameUpToDate DEF Reloads, OneLoad
  <1>. QED BY <1>3, <1>4 DEF Patches

LEMMA LoadServedSettles ==
    ASSUME Settles, CallsOK, NEW c \in Call, ServeLoad(c)
    PROVE  Settles'
  <1>1. calls[c].kind = "load" /\ calls[c].stage = "out"
    BY DEF ServeLoad, At
  <1>2. Moved(c, "served", Loaded(calls[c].about, ListOf(calls[c].about, table)))
    BY <1>1, AnswerIs, IdleShape DEF ServeLoad
  <1>3. UNCHANGED <<screen, view, shown, table, clean, left>>
    BY DEF ServeLoad, apiRest
  <1>4. SUFFICES ASSUME HasList, clean, ~left PROVE (IF Patches THEN Patched ELSE Reloads)'
    BY <1>3 DEF Settles, HasList
  <1>5. Fresh(c) => Fresh(c)'
    BY <1>1, <1>2, <1>3 DEF Fresh, Moved, Loaded, ListOf
  <1>6. ASSUME Patches PROVE Patched'
    <2>1. Patch(c) /\ \A d \in Call \ {c} : calls[d].kind = "idle"
      BY <1>1, <1>4, <1>6, OnlyOne
    <2>2. Fresh(c)'
      BY <1>1, <1>5, <2>1 DEF Patch
    <2>. QED BY <1>2, <2>1, <2>2 DEF Patched, Patch, Moved, Only
  <1>7. ASSUME ~Patches PROVE Reloads'
    <2>1. Reloads
      BY <1>4, <1>7 DEF Settles
    <2>2. \A d \in Call : calls'[d].kind = calls[d].kind
      BY <1>2 DEF Moved, Only
    <2>3. ASSUME NEW d \in Call, Fresh(d) PROVE Fresh(d)'
      BY <1>1, <1>5, <2>1, <2>3 DEF Reloads, OneLoad, Fresh
    <2>. QED BY <1>1, <2>1, <2>2, <2>3 DEF Reloads, OneLoad
  <1>. QED BY <1>3, <1>6, <1>7 DEF Patches

LEMMA TakeListSettles ==
    ASSUME Settles, CallsOK, NEW c \in Call, TakeList(c)
    PROVE  Settles'
  <1>1. calls[c].kind = "load" /\ calls[c].stage = "served" /\ shown' = calls[c].answer
    BY DEF TakeList, At
  <1>2. calls'[c].kind = "idle" /\ Only(c)
    BY FollowIs, IdleShape DEF TakeList
  <1>3. UNCHANGED <<screen, view, table, clean, left>>
    BY DEF TakeList, userRest
  <1>4. SUFFICES ASSUME HasList, clean, ~left PROVE (IF Patches THEN Patched ELSE Reloads)'
    BY <1>3 DEF Settles, HasList
  <1>5. Fresh(c) => UpToDate'
    BY <1>1, <1>3 DEF Fresh, UpToDate, Shows, Loaded, PatchedView, ListOf
  <1>6. ASSUME Patches PROVE Patched'
    <2>1. Patch(c) /\ \A d \in Call \ {c} : calls[d].kind = "idle"
      BY <1>1, <1>4, <1>6, OnlyOne
    <2>2. UpToDate'
      BY <1>1, <1>5, <2>1 DEF Patch
    <2>. QED BY <1>2, <2>1, <2>2 DEF Patched, Only
  <1>7. ASSUME ~Patches PROVE Reloads'
    <2>1. Reloads
      BY <1>4, <1>7 DEF Settles
    <2>2. \A d \in Call : calls'[d].kind # "load"
      BY <1>1, <1>2, <2>1 DEF Reloads, OneLoad, Only
    <2>3. ASSUME NEW d \in Call, calls[d].kind \in Changes PROVE calls'[d].kind \in Changes
      BY <1>1, <1>2, <2>3 DEF Only, Changes
    <2>4. ASSUME NEW d \in Call, Fresh(d) PROVE UpToDate'
      BY <1>1, <1>5, <2>1, <2>4 DEF Reloads, OneLoad, Fresh
    <2>. QED BY <1>1, <2>1, <2>2, <2>3, <2>4 DEF Reloads, OneLoad
  <1>. QED BY <1>3, <1>6, <1>7 DEF Patches

\* What a change does to the table is what its answer will do to the list.
LEMMA ChangeServedSettles ==
    ASSUME Settles, CallsOK, IsFun(table), NEW c \in Call, NEW answer, Answer(c, answer),
           calls[c].kind \in {"save", "remove", "toggle"}, calls[c].stage = "out",
           UNCHANGED <<screen, view, shown, clean, left>>,
           \/ /\ calls[c].kind = "save"
              /\ calls[c].about.row = New \/ answer.row \in DOMAIN table
              /\ table' = With(table, answer.row, answer.text)
           \/ calls[c].kind = "remove" /\ table' = Without(table, calls[c].about)
           \/ /\ calls[c].kind = "toggle" /\ calls[c].about \in DOMAIN table
              /\ table' = [table EXCEPT ![calls[c].about] = Switched]
    PROVE  Settles'
  <1>1. Moved(c, "served", answer)
    BY AnswerIs, IdleShape
  <1>2. /\ calls'[c].kind = calls[c].kind /\ calls'[c].about = calls[c].about
        /\ calls'[c].stage = "served" /\ calls'[c].answer = answer /\ Only(c)
    BY <1>1 DEF Moved
  <1>3. CASE ~Patches
    BY <1>2, <1>3, ChangeReloads DEF Changes
  <1>4. CASE Patches
    <2>1. SUFFICES ASSUME HasList, clean, ~left PROVE Patched'
      BY <1>4 DEF Settles, HasList, Patches
    <2>2. Patch(c) /\ \A d \in Call \ {c} : calls[d].kind = "idle"
      BY <1>4, <2>1, OnlyOne
    <2>3. PICK t : t = table /\ Shows(t)
      BY <2>2 DEF Patch, Fresh, UpToDate
    <2>4. Shows(t)'
      BY <2>3 DEF Shows, PatchedView, Within, ListOf
    <2>5. Patch(c)'
      BY <1>2, <2>3, <2>4 DEF Patch
    <2>. QED BY <1>2, <2>2, <2>5 DEF Patched, Only
  <1>. QED BY <1>3, <1>4

\* The page has what it needs of an answer, and sends no more.
LEMMA PatchedSettles ==
    ASSUME Settles, CallsOK, Patches, NEW c \in Call, Follow(c, Idle),
           UNCHANGED <<screen, view, table, clean, left>>, calls[c].stage = "served",
           HasList => screen.list \in {"plain", "views"},
           \/ /\ calls[c].kind = "save" /\ screen.list # "views"
              /\ shown' = IF \/ calls[c].about.row = New
                             \/ calls[c].answer.row \in DOMAIN shown.rows
                          THEN [shown EXCEPT !.rows = With(@, calls[c].answer.row,
                                                           calls[c].answer.text),
                                             !.patched = TRUE]
                          ELSE shown
           \/ /\ calls[c].kind = "remove"
              /\ shown' = [shown EXCEPT !.rows = Without(@, calls[c].about), !.patched = TRUE]
           \/ /\ calls[c].kind = "toggle"
              /\ shown' = [shown EXCEPT !.rows = SwitchIn(@, calls[c].about), !.patched = TRUE]
    PROVE  Settles'
  <1>1. calls'[c].kind = "idle" /\ Only(c)
    BY FollowIs, IdleShape
  <1>2. SUFFICES ASSUME HasList, clean, ~left PROVE Patched'
    BY DEF Settles, HasList, Patches
  <1>3. Patch(c) /\ \A d \in Call \ {c} : calls[d].kind = "idle"
    BY <1>2, OnlyOne, IdleShape DEF Patch, Fresh
  <1>4. PICK t : /\ Shows(t)
                 /\ \/ /\ calls[c].kind = "save"
                       /\ calls[c].about.row = New \/ calls[c].answer.row \in DOMAIN t
                       /\ table = With(t, calls[c].answer.row, calls[c].answer.text)
                    \/ calls[c].kind = "remove" /\ table = Without(t, calls[c].about)
                    \/ /\ calls[c].kind = "toggle" /\ calls[c].about \in DOMAIN t
                       /\ table = [t EXCEPT ![calls[c].about] = Switched]
    BY <1>3 DEF Patch, Fresh, UpToDate
  <1>5. PICK f, p : shown = [view |-> view, rows |-> f, patched |-> p]
    BY <1>4 DEF Shows
  <1>6. Within(t)
    BY <1>4, PartOf DEF Shows, Within
  <1>7. CASE screen.list = "plain"
    <2>1. f = t
      BY <1>4, <1>5, <1>7 DEF Shows, PatchedView, ListOf
    <2>2. \E q : shown' = [view |-> view, rows |-> table, patched |-> q]
      <3>1. CASE calls[c].kind = "save"
        BY <1>4, <1>5, <2>1, <3>1
      <3>2. CASE calls[c].kind = "remove"
        BY <1>4, <1>5, <2>1, <3>2
      <3>3. CASE calls[c].kind = "toggle"
        <4>1. PICK a : a = calls[c].about
          OBVIOUS
        <4>2. SwitchIn(t, a) = [t EXCEPT ![a] = Switched]
          BY DEF SwitchIn
        <4>3. table = SwitchIn(t, a)
          BY <1>4, <3>3, <4>1, <4>2
        <4>4. shown' = [shown EXCEPT !.rows = SwitchIn(@, a), !.patched = TRUE]
          BY <3>3, <4>1
        <4>. QED BY <1>5, <2>1, <4>3, <4>4
      <3>. QED BY <1>4, <3>1, <3>2, <3>3
    <2>3. UpToDate'
      BY <1>7, <2>2 DEF UpToDate, Shows, PatchedView, ListOf
    <2>. QED BY <1>1, <1>3, <2>3 DEF Patched, Only
  <1>8. CASE screen.list = "views"
    <2>1. CASE calls[c].kind = "remove"
      <3>1. shown' = [view |-> view, rows |-> Without(f, calls[c].about), patched |-> TRUE]
        BY <1>5, <1>8, <2>1
      <3>2. Within(table)'
        BY <1>4, <1>5, <1>6, <2>1, <3>1 DEF Within, Without
      <3>. QED BY <1>1, <1>3, <1>8, <3>1, <3>2 DEF Patched, UpToDate, Shows, PatchedView, Only
    <2>2. CASE calls[c].kind = "toggle"
      <3>1. shown' = [view |-> view, rows |-> SwitchIn(f, calls[c].about), patched |-> TRUE]
        BY <1>5, <1>8, <2>2
      <3>2. Within(table)'
        BY <1>4, <1>5, <1>6, <2>2, <3>1 DEF Within, SwitchIn
      <3>. QED BY <1>1, <1>3, <1>8, <3>1, <3>2 DEF Patched, UpToDate, Shows, PatchedView, Only
    <2>. QED BY <1>4, <1>8, <2>1, <2>2
  <1>. QED BY <1>2, <1>7, <1>8

LEMMA SettlesPage ==
    ASSUME Shape, Listing, Settles, screen # POS, ScreenStep
    PROVE  Settles'
  <1>0. CallsOK /\ CallsOK' /\ (HasList => screen.list \in {"plain", "views"})
    BY ShapePage, UsualPages DEF Shape, Usual, HasList
  <1>1. ASSUME StartEdit \/ Cancel \/ Type PROVE Settles'
    <2>1. UNCHANGED <<calls, screen, view, shown, table, clean, left>>
      BY <1>1 DEF StartEdit, Cancel, Type, callVars
    <2>. QED BY <1>0, <2>1, IdlySettles
  <1>2. ASSUME NEW c \in Call, ChangeView(c) PROVE Settles'
    <2>1. PICK v \in View : view' = v /\ Send(c, Load(v))
      BY <1>2 DEF ChangeView
    <2>2. calls'[c] = Load(view') /\ Only(c)
      BY <1>0, <2>1, SendIs, OutShape DEF Load
    <2>. QED BY <1>0, <1>2, <2>2, LoadSettles DEF ChangeView, Loading
  <1>3. ASSUME NEW c \in Call, Save(c) PROVE Settles'
    <2>1. Send(c, Out("save", form)) /\ UNCHANGED <<screen, view, shown, table, left>> /\ Changing(c)
      BY <1>3 DEF Save
    <2>2. ~Patches => clean' = clean
      BY <2>1 DEF Changing, Shape
    <2>. QED BY <1>0, <2>1, <2>2, SendSettles
  <1>4. ASSUME NEW c \in Call, NEW kind \in {"remove", "toggle"}, Press(c, kind) PROVE Settles'
    <2>1. PICK x \in Listed : Send(c, Out(kind, x))
      BY <1>4 DEF Press
    <2>2. UNCHANGED <<screen, view, shown, table, left>> /\ Changing(c)
      BY <1>4 DEF Press
    <2>3. ~Patches => clean' = clean
      BY <2>2 DEF Changing, Shape
    <2>. QED BY <1>0, <2>1, <2>2, <2>3, SendSettles
  <1>5. \A c \in Call : calls[c].kind \in PageKinds
    BY DEF Shape, KindOK
  <1>6. ASSUME NEW c \in Call, Lose(c), UNCHANGED screenVars PROVE Settles'
    <2>1. Moved(c, "failed", Pending) /\ calls[c].kind # "idle"
      BY <1>0, <1>6, LoseIs, NotIdle
    <2>2. UNCHANGED <<screen, view, shown, table, clean, left>>
      BY <1>6 DEF screenVars
    <2>. QED BY <1>5, <2>1, <2>2, FailSettles
  <1>7. ASSUME NEW c \in Call, Refuse(c), calls[c].kind # "idle",
               UNCHANGED <<screen, view, shown, table, clean, left>>
        PROVE  Settles'
    BY <1>0, <1>5, <1>7, RefuseIs, NotIdle, FailSettles
  <1>8. ASSUME NEW c \in Call, ServeAsked(c) PROVE Settles'
    <2>1. ~HasList /\ screen' = screen
      BY <1>8 DEF ServeAsked, At, Listing, apiRest
    <2>. QED BY <2>1 DEF Settles, HasList
  <1>9. ASSUME NEW c \in Call, ServeNew(c) PROVE Settles'
    <2>1. /\ UNCHANGED <<screen, view, shown, clean, left>>
          /\ calls[c].kind = "save" /\ calls[c].stage = "out" /\ calls[c].about.row = New
      BY <1>9 DEF ServeNew, At, apiRest
    <2>2. \/ Refuse(c) /\ UNCHANGED table
          \/ \E x : /\ table' = With(table, x, calls[c].about.text)
                    /\ Answer(c, [row |-> x, text |-> calls[c].about.text])
      BY <1>9 DEF ServeNew
    <2>3. ASSUME NEW x, table' = With(table, x, calls[c].about.text),
                 Answer(c, [row |-> x, text |-> calls[c].about.text])
          PROVE  Settles'
      <3>1. PICK a : a = [row |-> x, text |-> calls[c].about.text]
        OBVIOUS
      <3>2. Answer(c, a) /\ table' = With(table, a.row, a.text)
        BY <2>3, <3>1
      <3>. QED BY <1>0, <2>1, <3>2, ChangeServedSettles DEF Listing
    <2>. QED BY <1>7, <2>1, <2>2, <2>3
  <1>10. ASSUME NEW c \in Call, ServeEdit(c) \/ ServeRemove(c) \/ ServeToggle(c) PROVE Settles'
    <2>1. UNCHANGED <<screen, view, shown, clean, left>> /\ calls[c].stage = "out"
      BY <1>10 DEF ServeEdit, ServeRemove, ServeToggle, At, apiRest
    <2>2. CASE ServeEdit(c) /\ calls[c].about.row \in DOMAIN table
      <3>1. PICK a : a = calls[c].about
        OBVIOUS
      <3>2. Answer(c, a) /\ table' = [table EXCEPT ![a.row] = a.text] /\ calls[c].kind = "save"
        BY <2>2, <3>1 DEF ServeEdit, At
      <3>3. a.row \in DOMAIN table /\ IsFun(table)
        BY <2>2, <3>1 DEF Listing
      <3>4. [table EXCEPT ![a.row] = a.text] = With(table, a.row, a.text)
        BY <3>3, FunctionsAre
      <3>5. table' = With(table, a.row, a.text)
        BY <3>2, <3>4, Zenon
      <3>. QED BY <1>0, <2>1, <3>2, <3>3, <3>5, ChangeServedSettles
    <2>3. CASE ServeRemove(c) /\ calls[c].about \in DOMAIN table
      <3>1. /\ Answer(c, calls[c].about) /\ table' = Without(table, calls[c].about)
            /\ calls[c].kind = "remove"
        BY <2>3 DEF ServeRemove, At
      <3>. QED BY <1>0, <2>1, <3>1, ChangeServedSettles DEF Listing
    <2>4. CASE ServeToggle(c) /\ calls[c].about \in DOMAIN table
      <3>1. /\ Answer(c, calls[c].about) /\ table' = [table EXCEPT ![calls[c].about] = Switched]
            /\ calls[c].kind = "toggle"
        BY <2>4 DEF ServeToggle, At
      <3>. QED BY <1>0, <2>1, <2>4, <3>1, ChangeServedSettles DEF Listing
    <2>5. CASE Refuse(c) /\ UNCHANGED table
      BY <1>7, <1>10, <2>1, <2>5 DEF ServeEdit, ServeRemove, ServeToggle, At
    <2>. QED BY <1>10, <2>2, <2>3, <2>4, <2>5 DEF ServeEdit, ServeRemove, ServeToggle
  <1>11. ASSUME ~clean' \/ ~HasList, screen' = screen PROVE Settles'
    BY <1>11 DEF Settles, HasList
  <1>12. ASSUME NEW c \in Call, TakeRecord(c) \/ Lingered(c) \/ SavedLeave(c) \/ SavedStay(c) \/ SavedLinger(c)
         PROVE  Settles'
    <2>1. CASE TakeRecord(c) \/ Lingered(c)
      BY <1>11, <2>1 DEF TakeRecord, Lingered, At, Listing, userRest
    <2>2. CASE SavedLeave(c) \/ SavedStay(c) \/ SavedLinger(c)
      <3>1. calls[c].kind = "save" /\ screen.after \in {"leave", "stay", "linger"} /\ screen' = screen
        BY <2>2 DEF SavedLeave, SavedStay, SavedLinger, Saved, At, userRest
      <3>2. ~HasList
        BY <3>1, UsualPages DEF Listing, Usual, HasList, Shape
      <3>. QED BY <1>11, <3>1, <3>2
    <2>. QED BY <1>12, <2>1, <2>2
  <1>13. ASSUME NEW c \in Call, LoadFails(c) \/ SaveFails(c) \/ PressFails(c) PROVE Settles'
    <2>1. ~clean' /\ screen' = screen
      BY <1>13 DEF LoadFails, SaveFails, PressFails, userRest
    <2>. QED BY <1>11, <2>1
  <1>14. ASSUME NEW c \in Call, Follow(c, Load(view)), UNCHANGED <<screen, view>>, Loading(c)
         PROVE  Settles'
    <2>1. calls'[c] = Load(view') /\ Only(c)
      BY <1>0, <1>14, FollowIs, OutShape DEF Load
    <2>. QED BY <1>0, <1>14, <2>1, LoadSettles DEF Loading
  <1>15. ASSUME NEW c \in Call, SavedReload(c) PROVE Settles'
    <2>1. CASE HasList
      BY <1>14, <1>15, <2>1 DEF SavedReload, userRest
    <2>2. CASE ~HasList
      BY <1>11, <1>15, <2>2 DEF SavedReload, userRest
    <2>. QED BY <2>1, <2>2
  <1>16. ASSUME NEW c \in Call, SavedPatch(c) PROVE Settles'
    <2>1. /\ calls[c].kind = "save" /\ calls[c].stage = "served" /\ Follow(c, Idle)
          /\ UNCHANGED <<screen, view, table, clean, left>>
      BY <1>16 DEF SavedPatch, Saved, At, userRest
    <2>2. Patches
      BY <1>16 DEF SavedPatch, Saved, Patches
    <2>3. shown' = IF \/ calls[c].about.row = New
                      \/ calls[c].answer.row \in DOMAIN shown.rows
                   THEN [shown EXCEPT !.rows = With(@, calls[c].answer.row,
                                                    calls[c].answer.text), !.patched = TRUE]
                   ELSE shown
      BY <1>16 DEF SavedPatch
    <2>4. screen.form # "none" /\ screen.after = "patch"
      BY <1>16, <2>1 DEF SavedPatch, Saved, Listing
    <2>5. screen.list # "views"
      BY <2>4, UsualPages DEF Usual, Shape
    <2>. QED BY <1>0, <1>11, <2>1, <2>2, <2>3, <2>5, PatchedSettles
  <1>17. ASSUME NEW c \in Call, Removed(c) PROVE Settles'
    <2>1. CASE screen.remove = "reload" /\ Follow(c, Load(view)) /\ Loading(c)
      BY <1>14, <1>17, <2>1 DEF Removed, userRest
    <2>2. CASE /\ screen.remove = "patch" /\ Follow(c, Idle) /\ UNCHANGED clean
               /\ shown' = [shown EXCEPT !.rows = Without(@, calls[c].about), !.patched = TRUE]
      BY <1>0, <1>17, <2>2, PatchedSettles DEF Removed, At, userRest, Patches
    <2>. QED BY <1>17, <2>1, <2>2 DEF Removed
  <1>18. ASSUME NEW c \in Call, Toggled(c) PROVE Settles'
    <2>1. CASE screen.toggle = "reload" /\ Follow(c, Load(view)) /\ Loading(c)
      BY <1>14, <1>18, <2>1 DEF Toggled, userRest
    <2>2. CASE /\ screen.toggle = "patch" /\ Follow(c, Idle) /\ UNCHANGED clean
               /\ shown' = [shown EXCEPT !.rows = SwitchIn(@, calls[c].about), !.patched = TRUE]
      BY <1>0, <1>18, <2>2, PatchedSettles DEF Toggled, At, userRest, Patches
    <2>. QED BY <1>18, <2>1, <2>2 DEF Toggled
  <1>. QED
    BY <1>0, <1>1, <1>2, <1>3, <1>4, <1>6, <1>8, <1>9, <1>10, <1>12, <1>13, <1>15, <1>16, <1>17,
       <1>18, LoadServedSettles, TakeListSettles
    DEF ScreenStep, Remove, Toggle, Serve, Receive

LEMMA SettlesTerminal ==
    ASSUME Shape, Listing, Settles, screen = POS, TerminalStep
    PROVE  Settles'
  <1>0. CallsOK /\ CallsOK' /\ ~Patches
    BY ShapeTerminal DEF Shape, Patches, POS
  <1>1. ASSUME AddToCart \/ TakeOut \/ GoOffline PROVE Settles'
    <2>1. UNCHANGED <<calls, screen, view, shown, table, clean, left>>
      BY <1>1 DEF AddToCart, TakeOut, GoOffline, callVars, screenVars
    <2>. QED BY <1>0, <2>1, IdlySettles
  <1>2. ASSUME NEW c \in Call, UNCHANGED <<screen, view, shown, table, clean, left>>, Only(c),
               calls[c].kind \in {"idle", "scan", "orphan"}, calls'[c].kind \in {"idle", "scan"}
        PROVE  Settles'
    BY <1>0, <1>2, IdlySettles DEF Only, Changes
  <1>3. ASSUME NEW c \in Call, Scan(c) PROVE Settles'
    <2>1. calls[c].kind = "idle" /\ calls'[c].kind = "scan" /\ Only(c)
      BY <1>0, <1>3, SendIs, OutShape, IdleShape DEF Scan
    <2>. QED BY <1>2, <1>3, <2>1 DEF Scan, screenVars
  <1>4. ASSUME NEW c \in Call, Scanned(c) \/ ScanMissed(c) PROVE Settles'
    <2>1. calls[c].kind = "scan" /\ calls'[c].kind = "idle" /\ Only(c)
      BY <1>0, <1>4, FollowIs, IdleShape DEF Scanned, ScanMissed, At
    <2>. QED BY <1>2, <1>4, <2>1 DEF Scanned, ScanMissed, screenVars
  <1>5. ASSUME NEW c \in Call, ServeScan(c) PROVE Settles'
    <2>1. calls[c].kind = "scan" /\ calls'[c].kind = "scan" /\ Only(c)
      BY <1>0, <1>5, AnswerIs, IdleShape DEF ServeScan, At, Moved
    <2>. QED BY <1>2, <1>5, <2>1 DEF ServeScan, screenVars
  <1>6. ASSUME ~clean', screen' = screen PROVE Settles'
    BY <1>6 DEF Settles
  <1>7. ASSUME NEW c \in Call, ServeOrphan(c) PROVE Settles'
    <2>1. calls[c].kind = "orphan" /\ calls'[c].kind = "idle" /\ Only(c)
      BY <1>0, <1>7, FollowIs, IdleShape DEF ServeOrphan
    <2>2. UNCHANGED <<screen, view, shown, left>> /\ (~clean' \/ UNCHANGED <<table, clean>>)
      BY <1>7 DEF ServeOrphan
    <2>. QED BY <1>2, <1>6, <2>1, <2>2
  <1>8. ASSUME NEW c \in Call, SaleFails(c) \/ ProductsFail(c) PROVE Settles'
    <2>1. ~clean' /\ screen' = screen
      BY <1>8 DEF SaleFails, ProductsFail, userRest
    <2>. QED BY <1>6, <2>1
  <1>9. ASSUME NEW c \in Call, Checkout(c) PROVE Settles'
    BY <1>0, <1>9, SendSettles DEF Checkout
  <1>10. ASSUME NEW c \in Call, ServeSale(c) PROVE Settles'
    <2>1. calls'[c].kind = "sale" /\ Only(c)
      BY <1>0, <1>10, AnswerIs, IdleShape DEF ServeSale, At, Moved
    <2>2. UNCHANGED <<screen, clean, left>>
      BY <1>10 DEF ServeSale, apiRest
    <2>. QED BY <1>0, <2>1, <2>2, ChangeReloads DEF Changes
  <1>11. ASSUME NEW c \in Call, calls'[c] = Load(view'), Only(c), screen' = screen, Loading(c)
         PROVE  Settles'
    BY <1>0, <1>11, LoadSettles DEF Loading
  <1>12. ASSUME NEW c \in Call, ChangeView(c) PROVE Settles'
    <2>1. PICK v \in View : view' = v /\ Send(c, Load(v))
      BY <1>12 DEF ChangeView
    <2>2. calls'[c] = Load(view') /\ Only(c)
      BY <1>0, <2>1, SendIs, OutShape DEF Load
    <2>. QED BY <1>11, <1>12, <2>2 DEF ChangeView
  <1>13. ASSUME NEW c \in Call, Retry(c) \/ Sold(c) PROVE Settles'
    <2>1. (Send(c, Load(view)) \/ Follow(c, Load(view))) /\ view' = view /\ screen' = screen
      BY <1>13 DEF Retry, Sold, listRest, userRest
    <2>2. calls'[c] = Load(view') /\ Only(c)
      BY <1>0, <2>1, SendIs, FollowIs, OutShape DEF Load
    <2>. QED BY <1>11, <1>13, <2>1, <2>2 DEF Retry, Sold
  <1>14. ASSUME NEW c \in Call, Lose(c), UNCHANGED screenVars PROVE Settles'
    <2>1. Moved(c, "failed", Pending) /\ calls[c].kind # "idle"
      BY <1>0, <1>14, LoseIs, NotIdle
    <2>2. UNCHANGED <<screen, view, shown, table, clean, left>>
      BY <1>14 DEF screenVars
    <2>. QED BY <2>1, <2>2, FailSettles DEF Shape, KindOK
  <1>15. ASSUME NEW c \in Call, Reload(c) PROVE Settles'
    <2>1. calls'[c] = Load(All) /\ \A d \in Call \ {c} : calls'[d].kind # "load"
      BY <1>15, ReloadIs, OutShape, IdleShape
    <2>2. view' = All /\ screen' = screen
      BY <1>15 DEF Reload
    <2>3. Fresh(c)'
      BY <2>1, <2>2, OutShape DEF Fresh, Load
    <2>. QED BY <1>0, <2>1, <2>2, <2>3 DEF Settles, Reloads, OneLoad, Patches
  <1>. QED
    BY <1>0, <1>1, <1>3, <1>4, <1>5, <1>7, <1>8, <1>9, <1>10, <1>12, <1>13, <1>14, <1>15,
       LoadServedSettles, TakeListSettles
    DEF TerminalStep, TakeProducts

\* Once nothing is under way a page's list is what the API has for the view
\* chosen, unless the call that loaded it crossed another or one failed since.
THEOREM EveryListSettles == Spec => []ListsSettle
  <1>1. Shape /\ Once /\ Listing /\ [Next]_vars => Listing'
    <2>1. ASSUME Listing, UNCHANGED vars PROVE Listing'
      BY <2>1 DEF vars, callVars, screenVars, Listing, HasList, IsFun
    <2>. QED BY <2>1, ListingPage, ListingTerminal DEF Next
  <1>2. Shape /\ Listing /\ Settles /\ [Next]_vars => Settles'
    <2>1. ASSUME Shape, Settles, UNCHANGED vars PROVE Settles'
      BY <2>1, IdlySettles DEF vars, callVars, screenVars, Shape
    <2>. QED BY <2>1, SettlesPage, SettlesTerminal DEF Next
  <1>3. Shape /\ Settles => ListsSettle
    <2>1. SUFFICES ASSUME Shape, Settles, HasList, clean, ~left, Quiet PROVE UpToDate
      BY DEF ListsSettle, UpToDate, Shows, Within, RowsAreThere
    <2>2. \A c \in Call : calls[c].kind = "idle"
      BY <2>1, IdleShape DEF Quiet
    <2>. QED BY <2>1, <2>2 DEF Settles, Patched, Patch, Fresh, Reloads, Changes
  <1>. QED BY <1>1, <1>2, <1>3, ShapeHolds, OnceHolds, ListingInit, SettlesInit, PTL DEF Spec
-----------------------------------------------------------------------------
(***************************************************************************)
(* The flag and the queue of the interceptor.                              *)
(***************************************************************************)
\* The subject holds no token while one is fetched, and one while it is tried.
SubjectOK == \A r \in Request : /\ Refreshing(r) => subject = 0
                                /\ pc[r] = "retry" => subject # 0

ISession == SessionTypeOK /\ FlagIsOwned /\ SubjectOK /\ QueueIsServed

\* No request is in flight when the page is first loaded.
LEMMA SessionInitial == SessionInit => ISession
<1> SUFFICES ASSUME SessionInit PROVE ISession
  OBVIOUS
<1>1. DataOK
  BY SessionAssumption DEF SessionInit, DataOK, Empty, Kept
<1>2. FlagIsOwned /\ SubjectOK /\ QueueIsServed
  BY DEF SessionInit, FlagIsOwned, SubjectOK, QueueIsServed, Queued, Owns, Refreshing
<1>3. isRefreshing \in BOOLEAN
  BY DEF SessionInit
<1> QED
  BY <1>1, <1>2, <1>3 DEF ISession, SessionTypeOK

\* Steps keep the types.
LEMMA SessionDataStays ==
  ASSUME DataOK, [SessionNext]_sessionVars
  PROVE  DataOK'
<1> USE SessionAssumption DEF DataOK, Kept, Empty, Store, LogOut, CallRefresh, Finish, Queued
<1>1. ASSUME NEW r \in Request, SendRequest(r) PROVE DataOK'
  BY <1>1 DEF SendRequest
<1>2. ASSUME NEW r \in Request, Answered(r) PROVE DataOK'
  BY <1>2 DEF Answered
<1>3. ASSUME NEW r \in Request, GiveUp(r) PROVE DataOK'
  BY <1>3 DEF GiveUp
<1>4. ASSUME NEW r \in Request, WaitForRefresh(r) PROVE DataOK'
  BY <1>4 DEF WaitForRefresh
<1>5. ASSUME NEW r \in Request, StartRefresh(r) PROVE DataOK'
  BY <1>5 DEF StartRefresh, RefreshWith
<1>6. ASSUME NEW r \in Request, Refreshed(r) PROVE DataOK'
  BY <1>6 DEF Refreshed
<1>7. ASSUME NEW r \in Request, RefreshFailed(r) PROVE DataOK'
  BY <1>7 DEF RefreshFailed
<1>8. ASSUME NEW r \in Request, RetryAnswered(r) PROVE DataOK'
  BY <1>8 DEF RetryAnswered
<1>9. ASSUME NEW r \in Request, RetryFailed(r) PROVE DataOK'
  BY <1>9 DEF RetryFailed
<1>10. ASSUME NEW r \in Request, Unsubscribe(r) PROVE DataOK'
  BY <1>10 DEF Unsubscribe
<1>11. CASE Login
  BY <1>11 DEF Login
<1>12. CASE UserLogout
  BY <1>12 DEF UserLogout
<1>13. CASE ReloadTab
  BY <1>13 DEF ReloadTab
<1>14. CASE Expire
  BY <1>14 DEF Expire
<1>15. CASE ShowWarning
  BY <1>15 DEF ShowWarning
<1>16. CASE CloseWarning
  BY <1>16 DEF CloseWarning
<1>17. CASE Activity
  BY <1>17 DEF Activity
<1>18. CASE AfterClosed
  BY <1>18 DEF AfterClosed
<1>19. CASE DialogRefreshed
  BY <1>19 DEF DialogRefreshed
<1>20. CASE DialogRefreshFailed
  BY <1>20 DEF DialogRefreshFailed
<1>21. CASE UNCHANGED sessionVars
  BY <1>21 DEF sessionVars
<1> QED
  BY <1>1, <1>2, <1>3, <1>4, <1>5, <1>6, <1>7, <1>8, <1>9, <1>10, <1>11,
     <1>12, <1>13, <1>14, <1>15, <1>16, <1>17, <1>18, <1>19, <1>20, <1>21 DEF SessionNext, Reply

\* The flag stays a flag.
LEMMA SessionFlagStays ==
  ASSUME isRefreshing \in BOOLEAN, [SessionNext]_sessionVars
  PROVE  isRefreshing' \in BOOLEAN
<1>1. ASSUME NEW r \in Request, Unsubscribe(r) PROVE isRefreshing' \in BOOLEAN
  BY <1>1 DEF Unsubscribe
<1>2. CASE isRefreshing' = TRUE \/ isRefreshing' = FALSE \/ isRefreshing' = isRefreshing
  BY <1>2
<1> QED
  BY <1>1, <1>2 DEF SessionNext, Reply, SendRequest, Answered, GiveUp, WaitForRefresh, StartRefresh, Refreshed,
                    RefreshFailed, RetryAnswered, RetryFailed, Login, UserLogout, ReloadTab, Expire,
                    ShowWarning, CloseWarning, Activity, AfterClosed, DialogRefreshed,
                    DialogRefreshFailed, sessionVars

\* Steps keep flag, subject and queue in accord.
LEMMA SessionStepKeeps ==
  ASSUME ISession, [SessionNext]_sessionVars
  PROVE  ISession'
<1>1. SessionTypeOK'
  BY SessionDataStays, SessionFlagStays DEF ISession, SessionTypeOK
<1> USE DEF ISession, FlagIsOwned, SubjectOK, QueueIsServed, Queued, Owns, Refreshing
<1>2. CASE UNCHANGED <<isRefreshing, subject, pc, stranded>>
  BY <1>1, <1>2
<1>3. ASSUME NEW r \in Request, SendRequest(r) \/ Answered(r) \/ GiveUp(r) PROVE ISession'
  BY <1>1, <1>3 DEF SessionTypeOK, DataOK, SendRequest, Answered, GiveUp, Finish
<1>4. ASSUME NEW r \in Request, WaitForRefresh(r) PROVE ISession'
  BY <1>1, <1>4 DEF SessionTypeOK, DataOK, WaitForRefresh
<1>5. ASSUME NEW r \in Request, StartRefresh(r) PROVE ISession'
  BY <1>1, <1>5 DEF SessionTypeOK, DataOK, StartRefresh, RefreshWith
<1>6. ASSUME NEW r \in Request, Refreshed(r) PROVE ISession'
  BY <1>1, <1>6 DEF SessionTypeOK, DataOK, Refreshed, Store
<1>7. ASSUME NEW r \in Request, RefreshFailed(r) PROVE ISession'
  BY <1>1, <1>7 DEF SessionTypeOK, DataOK, RefreshFailed, Finish
<1>8. ASSUME NEW r \in Request, RetryAnswered(r) \/ RetryFailed(r) PROVE ISession'
  BY <1>1, <1>8 DEF SessionTypeOK, DataOK, RetryAnswered, RetryFailed, Finish
<1>9. ASSUME NEW r \in Request, Unsubscribe(r) PROVE ISession'
  BY <1>1, <1>9 DEF SessionTypeOK, DataOK, Unsubscribe, Finish
<1>10. CASE ReloadTab
  BY <1>1, <1>10 DEF SessionTypeOK, DataOK, ReloadTab
<1> QED
  BY <1>2, <1>3, <1>4, <1>5, <1>6, <1>7, <1>8, <1>9, <1>10
     DEF SessionNext, Reply, Login, UserLogout, Expire, ShowWarning, CloseWarning, Activity, AfterClosed,
         DialogRefreshed, DialogRefreshFailed, sessionVars

\* What the theorems below may assume of a reachable state.
LEMMA SessionInvariant == SessionSpec => []ISession
  BY SessionInitial, SessionStepKeeps, PTL DEF SessionSpec

\* Tokens, places and flags keep their types.
THEOREM SessionTypes == SessionSpec => []SessionTypeOK
  BY SessionInvariant, PTL DEF ISession

\* The flag is up exactly while a single request refreshes or retries.
THEOREM RefreshIsExclusive == SessionSpec => []FlagIsOwned
  BY SessionInvariant, PTL DEF ISession

\* Whoever is queued waits for a refresh in flight, or for one that ended without
\* a token, and has missed none.
THEOREM QueueWaitsForRefresh == SessionSpec => []QueueIsServed
  BY SessionInvariant, PTL DEF ISession

\* No request goes out again while a token is being fetched.
THEOREM ResendsWait == SessionSpec => ResendWaitsForToken
<1>1. ASSUME ISession, [SessionNext]_sessionVars, NEW r \in Request, NEW o \in Request,
             pc[r] # "resent", pc'[r] = "resent"
      PROVE  ~Refreshing(o)'
  <2>1. PICK q \in Request : WaitForRefresh(q) \/ Refreshed(q)
    BY <1>1 DEF ISession, SessionTypeOK, DataOK, SessionNext, Reply, SendRequest, Answered, GiveUp, StartRefresh, RefreshWith,
                RefreshFailed, RetryAnswered, RetryFailed, Unsubscribe, Finish, ReloadTab, Login,
                UserLogout, Expire, ShowWarning, CloseWarning, Activity, AfterClosed,
                DialogRefreshed, DialogRefreshFailed, sessionVars
  <2>2. CASE WaitForRefresh(q)
    <3>1. q = r /\ subject # 0 /\ pc' = [pc EXCEPT ![r] = "resent"]
      BY <1>1, <2>2 DEF ISession, SessionTypeOK, DataOK, WaitForRefresh
    <3> QED
      BY <1>1, <3>1 DEF ISession, SessionTypeOK, DataOK, SubjectOK, Refreshing
  <2>3. CASE Refreshed(q)
    BY <1>1, <2>3 DEF ISession, SessionTypeOK, DataOK, FlagIsOwned, Owns, Refreshed, Refreshing, Queued
  <2> QED
    BY <2>1, <2>2, <2>3
<1>2. ISession /\ [SessionNext]_sessionVars =>
         [\A r, o \in Request : pc[r] # "resent" /\ pc'[r] = "resent" => ~Refreshing(o)']_sessionVars
  BY <1>1
<1> QED
  BY <1>2, SessionInvariant, PTL DEF SessionSpec, ResendWaitsForToken
=============================================================================
