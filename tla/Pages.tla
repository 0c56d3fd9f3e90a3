-------------------------------- MODULE Pages --------------------------------
(***************************************************************************)
(* The pages of the web application, one definition for each component (or *)
(* tab of one): its features, as module Screens knows them. Two pages with *)
(* the same features behave alike.                                         *)
(*                                                                         *)
(* Of a page with several lists or forms each is a page of its own here;   *)
(* sums, charts, downloads and dialogs that ask for confirmation are left  *)
(* out, and so are buttons for all rows at once.                           *)
(***************************************************************************)

\* Most pages: a list with a form beside it.
Table == [list |-> "plain", spinner |-> "ends", form |-> "edit", guard |-> "ends",
          after |-> "reload", remove |-> "reload", toggle |-> "none", keyed |-> FALSE]

\* A list with no form, and a form with no list.
ListPage == [Table EXCEPT !.form = "none", !.guard = "none", !.remove = "none"]
FormPage == [Table EXCEPT !.list = "none", !.spinner = "none", !.form = "new", !.after = "leave",
                          !.remove = "none"]
-----------------------------------------------------------------------------
(***************************************************************************)
(* Catalog.                                                                *)
(***************************************************************************)
UnitsPage == Table
BrandsPage == Table
CategoriesPage == Table
ProductsPage == [ListPage EXCEPT !.remove = "reload"]
ProductSearch == [ListPage EXCEPT !.list = "views"]
ProductForm == [FormPage EXCEPT !.after = "linger", !.keyed = TRUE]
ProductEditForm == [FormPage EXCEPT !.form = "record", !.spinner = "ends", !.after = "linger"]
BarcodePrint == ListPage
VariationTemplatesPage == [Table EXCEPT !.spinner = "none"]
WarrantiesPage == [Table EXCEPT !.spinner = "none"]
PriceGroupsPage == [Table EXCEPT !.spinner = "none"]
DiscountsPage == [Table EXCEPT !.spinner = "none"]
LabelsPage == [Table EXCEPT !.spinner = "none"]
ImportPage == [FormPage EXCEPT !.after = "stay", !.keyed = TRUE]

(***************************************************************************)
(* Sales, purchases, stock and money.                                      *)
(***************************************************************************)
SalesPage == [ListPage EXCEPT !.list = "views", !.remove = "reload", !.toggle = "reload"]
SalePage == [Table EXCEPT !.spinner = "none", !.form = "new", !.remove = "none"]
SaleForm == FormPage
PurchasesPage == [ListPage EXCEPT !.list = "views", !.toggle = "reload"]
PurchasePage == [Table EXCEPT !.spinner = "none", !.form = "new", !.remove = "none"]
PurchaseForm == FormPage
TransfersPage == [Table EXCEPT !.list = "views", !.form = "new", !.remove = "none"]
AdjustmentsPage == [Table EXCEPT !.list = "views", !.form = "new", !.remove = "none"]
StockPage == ListPage
HistoryPage == [ListPage EXCEPT !.remove = "reload"]
EntryForm == FormPage
PaymentsPage == [Table EXCEPT !.list = "views", !.form = "new"]
ExpensesPage == [ListPage EXCEPT !.list = "views", !.remove = "reload"]
ExpenseForm == FormPage
RegisterPage == [Table EXCEPT !.form = "new", !.remove = "none"]
AccountTypesTab == [Table EXCEPT !.spinner = "none", !.form = "new", !.remove = "none"]
AccountsTab == Table
PostingsTab == [Table EXCEPT !.list = "views", !.form = "new"]
StatementsTab == [ListPage EXCEPT !.list = "views"]
TaxRatesPage == Table
TaxRatesSettings == [Table EXCEPT !.spinner = "none", !.form = "new", !.toggle = "reload"]

(***************************************************************************)
(* Contacts and trades.                                                    *)
(***************************************************************************)
ContactsPage == [ListPage EXCEPT !.remove = "patch", !.toggle = "patch"]
ContactImport == [FormPage EXCEPT !.list = "plain", !.spinner = "ends", !.after = "reload"]
ContactForm == [FormPage EXCEPT !.form = "record", !.spinner = "ends"]
ContactPage == ListPage
CustomerGroupsPage == [Table EXCEPT !.spinner = "none"]
TablesTab == Table
BookingsTab == [Table EXCEPT !.list = "views", !.form = "new", !.toggle = "reload"]
SchedulesTab == [Table EXCEPT !.list = "views", !.form = "new", !.toggle = "reload"]
CampaignsTab == [Table EXCEPT !.form = "new", !.toggle = "reload"]
CallLogsTab == [Table EXCEPT !.list = "views", !.form = "new"]

\* Nothing keeps these from being saved twice, or brings the list back when it
\* cannot be loaded.
Careless == [Table EXCEPT !.spinner = "success", !.guard = "none"]
RoomsPage == [Careless EXCEPT !.form = "new"]
ProjectsPage == Careless
EssentialsPage == [Careless EXCEPT !.form = "new", !.toggle = "reload"]
PackagesPage == Careless
RepairSettings == [Careless EXCEPT !.spinner = "none", !.form = "new"]
SyncLogPage == [Careless EXCEPT !.list = "views", !.form = "none", !.remove = "none"]

\* In these a save that failed leaves its button disabled.
Stuck == [Table EXCEPT !.spinner = "success", !.guard = "success"]
JobSheetsPage == [Stuck EXCEPT !.list = "views"]
AssetsPage == Stuck
RecipesPage == Stuck

(***************************************************************************)
(* The business and its settings.                                          *)
(***************************************************************************)
BusinessesPage == [ListPage EXCEPT !.remove = "reload"]
BusinessForm == [FormPage EXCEPT !.form = "record"]
ProfilePage == [FormPage EXCEPT !.form = "record", !.after = "stay"]
DrawerSettings == [FormPage EXCEPT !.form = "record", !.spinner = "ends", !.after = "stay"]
LocationsPage == Table
LayoutsTab == [Table EXCEPT !.spinner = "none"]
TemplatesPage == [Table EXCEPT !.spinner = "none"]
UsersPage == [Table EXCEPT !.list = "views", !.spinner = "none", !.form = "new", !.toggle = "reload",
                           !.keyed = TRUE]
SchedulesPage == [Table EXCEPT !.after = "patch", !.remove = "patch", !.toggle = "patch"]
NotificationsPage == [ListPage EXCEPT !.list = "views", !.remove = "patch", !.toggle = "patch"]
AuditPage == [ListPage EXCEPT !.list = "views"]
DashboardPage == ListPage
ReportsPage == [ListPage EXCEPT !.list = "views"]
RegisterForm == [FormPage EXCEPT !.after = "linger", !.keyed = TRUE]
ResetForm == [FormPage EXCEPT !.form = "given", !.after = "leave"]
ForgotForm == [FormPage EXCEPT !.form = "given", !.after = "leave"]

Catalog == {UnitsPage, BrandsPage, CategoriesPage, ProductsPage, ProductSearch, ProductForm,
            ProductEditForm, BarcodePrint, VariationTemplatesPage, WarrantiesPage,
            PriceGroupsPage, DiscountsPage, LabelsPage, ImportPage}
Trade == {SalesPage, SalePage, SaleForm, PurchasesPage, PurchasePage, PurchaseForm,
          TransfersPage, AdjustmentsPage, StockPage, HistoryPage, EntryForm, PaymentsPage,
          ExpensesPage, ExpenseForm, RegisterPage, AccountTypesTab, AccountsTab, PostingsTab,
          StatementsTab, TaxRatesPage, TaxRatesSettings}
Relations == {ContactsPage, ContactImport, ContactForm, ContactPage, CustomerGroupsPage,
              TablesTab, BookingsTab, SchedulesTab, CampaignsTab, CallLogsTab, RoomsPage,
              ProjectsPage, EssentialsPage, PackagesPage, RepairSettings, SyncLogPage,
              JobSheetsPage, AssetsPage, RecipesPage}
Settings == {BusinessesPage, BusinessForm, ProfilePage, DrawerSettings, LocationsPage, LayoutsTab,
             TemplatesPage, UsersPage, SchedulesPage, NotificationsPage, AuditPage, DashboardPage,
             ReportsPage, RegisterForm, ResetForm, ForgotForm}
=============================================================================
