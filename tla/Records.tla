------------------------------- MODULE Records -------------------------------
(***************************************************************************)
(* The services that keep plain records: brands, contacts, bookings,       *)
(* accounts, assets, projects and the like. Each operation is one of a few *)
(* kinds (a row made, changed, removed, with the lookups that come first)  *)
(* on a table of which the schema says what a row belongs to and what      *)
(* becomes of it when that is deleted. Of a row we keep what it belongs    *)
(* to, whether it is in use, and its key, where the code means some column *)
(* to tell rows apart although the schema has no unique index for it; all  *)
(* other columns are left out. Two bookings that overlap on a table are    *)
(* two rows with the same key.                                             *)
(***************************************************************************)
EXTENDS Requests

CONSTANTS Key,    \* numbers of keyed rows
          MaxId   \* bound on rows made

VARIABLES rows,      \* function on <<table, id>>
          lastId,
          unchecked, \* history: tables in which a key was written with no check
          shrunk,    \* history: tables that lost rows with what they belonged to
          lost,      \* history: rows deleted after they were found to have none
                     \* below them, and that had some
          late       \* history: accounts closed before a posting reached them

recordVars == <<rows, lastId, unchecked, shrunk, lost, late>>

ASSUME RecordAssumption == Key \subseteq Nat /\ MaxId \in Nat

NoRow == <<>>
NoKey == -1

\* What a row of the table belongs to, what becomes of it when that is deleted
\* (the schema's onDelete), and how the table's own rows are removed.
Plain(drop) == [of |-> "none", gone |-> "detach", drop |-> drop]
Part(of, gone, drop) == [of |-> of, gone |-> gone, drop |-> drop]

BrandTables == [brand |-> Plain("soft")]
ContactTables == [contact |-> Plain("soft")]
ExpenseTables ==
    [expenseCategory |-> Plain("soft"), expense |-> Part("expenseCategory", "detach", "soft")]
AccountTables ==
    [accountType |-> Plain("hard"), account |-> Part("accountType", "restrict", "hard"),
     posting |-> Part("account", "cascade", "hard")]
RestaurantTables ==
    [diningTable |-> Plain("hard"), booking |-> Part("diningTable", "detach", "hard")]
CrmTables == [campaign |-> Plain("hard"), schedule |-> Plain("hard"), callLog |-> Plain("hard")]
RecipeTables ==
    [ingredientGroup |-> Plain("hard"), recipe |-> Plain("hard"),
     ingredient |-> Part("recipe", "cascade", "hard")]
RepairTables ==
    [repairStatus |-> Plain("hard"), deviceModel |-> Plain("hard"),
     jobSheet |-> Part("repairStatus", "restrict", "hard")]
AssetTables ==
    [asset |-> Plain("hard"), assetTransaction |-> Part("asset", "cascade", "hard"),
     assetWarranty |-> Part("asset", "cascade", "hard"),
     maintenance |-> Part("asset", "cascade", "hard")]
ProjectTables ==
    [project |-> Plain("hard"), task |-> Part("project", "cascade", "hard"),
     timeLog |-> Part("project", "cascade", "hard"), comment |-> Part("task", "cascade", "hard")]
EssentialsTables ==
    [leaveType |-> Plain("hard"), leave |-> Part("leaveType", "detach", "hard"),
     payroll |-> Plain("hard"), document |-> Plain("hard"), reminder |-> Plain("hard")]
HmsTables ==
    [roomType |-> Plain("soft"), room |-> Part("roomType", "restrict", "soft"),
     extra |-> Plain("hard"), bookingLine |-> Part("room", "restrict", "hard")]
PackageTables ==
    [package |-> Plain("soft"), subscription |-> Part("package", "restrict", "soft")]
LocationTables == [location |-> Plain("hard")]
VariationTables ==
    [variationTemplate |-> Plain("hard"),
     valueTemplate |-> Part("variationTemplate", "cascade", "hard"),
     productVariation |-> Plain("hard"),
     variation |-> Part("productVariation", "cascade", "soft")]
CustomerGroupTables == [customerGroup |-> Plain("hard")]
PriceGroupTables == [priceGroup |-> Plain("soft")]
DiscountTables == [discount |-> Plain("hard")]
WarrantyTables == [warranty |-> Plain("hard")]
TemplateTables == [template |-> Plain("hard")]

Groups ==
    {BrandTables, ContactTables, ExpenseTables, AccountTables, RestaurantTables, CrmTables,
     RecipeTables, RepairTables, AssetTables, ProjectTables, EssentialsTables, HmsTables,
     PackageTables, LocationTables, VariationTables, CustomerGroupTables, PriceGroupTables,
     DiscountTables, WarrantyTables, TemplateTables}

Tables == UNION {DOMAIN g : g \in Groups}
Schema == [t \in Tables |-> (CHOOSE g \in Groups : t \in DOMAIN g)[t]]

Keyed == {"contact", "expense", "assetTransaction", "account", "booking"}
Numbered == {"expense", "assetTransaction"}  \* by how many there are, unless one is typed

RecordsOK ==
    /\ DOMAIN rows \subseteq Tables \X (1..lastId)
    /\ \A x \in DOMAIN rows :
          /\ rows[x].of \in DOMAIN rows \cup {NoRow}
          /\ rows[x].of # NoRow => rows[x].of[1] = Schema[x[1]].of
          /\ rows[x].live \in BOOLEAN /\ rows[x].closed \in BOOLEAN
          /\ (rows[x].key # NoKey) => x[1] \in Keyed
    /\ lastId \in 0..MaxId
    /\ unchecked \cup shrunk \subseteq Tables

\* The tables of each service.
Service ==
    [brands |-> DOMAIN BrandTables, customerGroups |-> DOMAIN CustomerGroupTables,
     warranties |-> DOMAIN WarrantyTables, priceGroups |-> DOMAIN PriceGroupTables,
     discounts |-> DOMAIN DiscountTables, templates |-> DOMAIN TemplateTables,
     locations |-> DOMAIN LocationTables, contacts |-> DOMAIN ContactTables,
     expenses |-> DOMAIN ExpenseTables, variations |-> DOMAIN VariationTables,
     crm |-> DOMAIN CrmTables, essentials |-> DOMAIN EssentialsTables,
     superadmin |-> DOMAIN PackageTables, hms |-> DOMAIN HmsTables,
     projects |-> DOMAIN ProjectTables, repair |-> DOMAIN RepairTables,
     manufacturing |-> DOMAIN RecipeTables, assets |-> DOMAIN AssetTables,
     accounting |-> DOMAIN AccountTables, restaurant |-> DOMAIN RestaurantTables]

NewRow(of, key) == [of |-> of, key |-> key, live |-> TRUE, closed |-> FALSE]

\* Of the tables ts: each that belongs to none has two rows, each other one, of the
\* first.
RecordsInit(ts) ==
    /\ LET root(t) == Schema[t].of = "none"
           first(t) == <<t, IF root(t) THEN 1 ELSE 3>>
           key(t, i) == IF t \notin Keyed THEN NoKey ELSE IF root(t) THEN i ELSE 1
       IN  rows = [x \in {y \in ts \X (1..3) : root(y[1]) <=> y[2] < 3} |->
              NewRow(IF root(x[1]) THEN NoRow ELSE first(Schema[x[1]].of), key(x[1], x[2]))]
    /\ lastId = 3
    /\ unchecked = {}
    /\ shrunk = {}
    /\ lost = {}
    /\ late = {}

RowsOf(t) == {x \in DOMAIN rows : x[1] = t}
InUse(t) == {x \in RowsOf(t) : rows[x].live}
\* What a new row may belong to; a detachable one may belong to nothing.
Owners(t) == RowsOf(Schema[t].of) \cup
             (IF Schema[t].of = "none" \/ Schema[t].gone = "detach" THEN {NoRow} ELSE {})

KeyTaken(t, k, but) == \E x \in InUse(t) \ {but} : rows[x].key = k

\* INSERT: its id is new; what it belongs to must exist (foreign key).
Inserted(t, of, key) ==
    /\ lastId < MaxId
    /\ lastId' = lastId + 1
    /\ rows' = [x \in DOMAIN rows \cup {<<t, lastId + 1>>} |->
                   IF x = <<t, lastId + 1>> THEN NewRow(of, key) ELSE rows[x]]

Belonging(xs, gone) == {y \in DOMAIN rows : rows[y].of \in xs /\ Schema[y[1]].gone = gone}
\* What goes with the row x: three generations, as deep as the schema is.
GoesWith(x) == LET parts == Belonging({x}, "cascade")
               IN  {x} \cup parts \cup Belonging(parts, "cascade")

\* DELETE: refused by a foreign key while there is a row that restricts it;
\* others go with it, or belong to nothing from now on.
Deletable(x) == x \in DOMAIN rows /\ Belonging({x}, "restrict") = {}
Deleted(x) ==
    /\ rows' = [y \in DOMAIN rows \ GoesWith(x) |->
                   IF rows[y].of = x THEN [rows[y] EXCEPT !.of = NoRow] ELSE rows[y]]
    /\ shrunk' = shrunk \cup {y[1] : y \in GoesWith(x) \ {x}}

NoRecordHistory == UNCHANGED <<unchecked, shrunk, lost, late>>

\* Two that save keyed rows, and what is done to an account while it is posted to.
RecordRivals == {{"save"}, {"post", "drop"}, {"post", "change"}}
AllOf(t) == <<t>>
-----------------------------------------------------------------------------
(***************************************************************************)
(* Rows made.                                                              *)
(***************************************************************************)
\* A handler of one statement.
MakeNow(r, t) ==
    \E of \in Owners(t) :
        /\ Arrive(r, "ok", Nothing)
        /\ Inserted(t, of, NoKey)
        /\ NoRecordHistory

\* What the row is to belong to is looked up first.
MakePart(r, t) ==
    \E of \in RowsOf(Schema[t].of) :
        /\ Begin(r, "insertRow", [on |-> of, kind |-> "part", table |-> t, of |-> of,
                                  key |-> NoKey],
                 RecordRivals)
        /\ UNCHANGED recordVars

\* No row in use has the key; it may be left away.
MakeKeyed(r, t) ==
    \E of \in Owners(t), k \in Key :
        /\ ~KeyTaken(t, k, NoRow)
        /\ Begin(r, "insertRow", [on |-> AllOf(t), kind |-> "save", table |-> t, of |-> of,
                                  key |-> k], RecordRivals)
        /\ UNCHANGED recordVars

\* The number is one more than there are rows, those no more in use included.
MakeNumbered(r, t) ==
    \E of \in Owners(t) :
        /\ Begin(r, "insertRow", [on |-> AllOf(t), kind |-> "save", table |-> t, of |-> of,
                                  key |-> Cardinality(RowsOf(t)) + 1], RecordRivals)
        /\ UNCHANGED recordVars

\* The number is typed.
MakeTyped(r, t) ==
    \E of \in Owners(t), k \in Key :
        /\ Arrive(r, "ok", Nothing)
        /\ Inserted(t, of, k)
        /\ unchecked' = unchecked \cup {t}
        /\ UNCHANGED <<shrunk, lost, late>>

\* The insert of a row some lookup came before.
InsertRow(r) ==
    LET h == req[r]
    IN  /\ pc[r] = "insertRow"
        /\ IF h.of \in DOMAIN rows \cup {NoRow}
           THEN /\ Go(r, "insertRow", "ok")
                /\ Inserted(h.table, h.of, h.key)
                /\ late' = IF h.kind = "post" /\ rows[h.of].closed THEN late \cup {h.of} ELSE late
           ELSE Go(r, "insertRow", "error") /\ UNCHANGED <<rows, lastId, late>>
        /\ UNCHANGED <<unchecked, shrunk, lost>>
-----------------------------------------------------------------------------
(***************************************************************************)
(* Rows changed and removed.                                               *)
(***************************************************************************)
\* An update finds its row, then writes it. Those of expenses and bookings may
\* write a key, and look at no other row.
FindToChange(r, t) ==
    \E x \in InUse(t), k \in Key \cup {NoKey} :
        /\ t \notin {"expense", "booking"} => k = NoKey
        /\ Begin(r, "writeRow", [on |-> AllOf(t), kind |-> "change", id |-> x, key |-> k,
                                 closing |-> "keep", checked |-> k = NoKey], RecordRivals)
        /\ UNCHANGED recordVars

\* It finds no other row in use with the key it is to write.
FindToRekeyRow(r, t) ==
    \E x \in InUse(t), k \in Key :
        /\ ~KeyTaken(t, k, x)
        /\ Begin(r, "writeRow", [on |-> AllOf(t), kind |-> "save", id |-> x, key |-> k,
                                 closing |-> "keep", checked |-> TRUE], RecordRivals)
        /\ UNCHANGED recordVars

\* A row after a change; what is not given stays.
Rewritten(row, h) ==
    [row EXCEPT !.key = IF h.key = NoKey THEN row.key ELSE h.key,
                !.closed = (row.closed \/ h.closing = "close") /\ h.closing # "reopen"]

\* The update: an error if the row is deleted by now (P2025).
WriteRow(r) ==
    LET h == req[r]
    IN  /\ pc[r] = "writeRow"
        /\ IF h.id \in DOMAIN rows
           THEN /\ Go(r, "writeRow", "ok")
                /\ rows' = [rows EXCEPT ![h.id] = Rewritten(rows[h.id], h)]
                /\ unchecked' = IF h.checked THEN unchecked ELSE unchecked \cup {h.id[1]}
           ELSE Go(r, "writeRow", "error") /\ UNCHANGED <<rows, unchecked>>
        /\ UNCHANGED <<lastId, shrunk, lost, late>>

FindToDropRow(r, t) ==
    \E x \in InUse(t) :
        /\ Begin(r, "dropRow", [on |-> x, kind |-> "drop", id |-> x, counted |-> FALSE],
                 RecordRivals)
        /\ UNCHANGED recordVars

\* It is also looked for rows that belong to it; there must be none.
FindToDropEmpty(r, t) ==
    \E x \in InUse(t) :
        /\ Begin(r, "countBelow", [on |-> x, kind |-> "drop", id |-> x, counted |-> TRUE],
                 RecordRivals)
        /\ UNCHANGED recordVars

CountBelow(r) ==
    /\ pc[r] = "countBelow"
    /\ Go(r, "countBelow",
          IF \E y \in DOMAIN rows : rows[y].of = req[r].id THEN "refused" ELSE "dropRow")
    /\ UNCHANGED recordVars

\* The row is marked deleted, or deleted.
DropRow(r) ==
    LET x == req[r].id
    IN  /\ pc[r] = "dropRow"
        /\ IF Schema[x[1]].drop = "soft" /\ x \in DOMAIN rows
           THEN /\ Go(r, "dropRow", "ok")
                /\ rows' = [rows EXCEPT ![x].live = FALSE]
                /\ UNCHANGED <<shrunk, lost>>
           ELSE IF Schema[x[1]].drop = "hard" /\ Deletable(x)
           THEN /\ Go(r, "dropRow", "ok")
                /\ Deleted(x)
                /\ lost' = IF req[r].counted /\ GoesWith(x) # {x} THEN lost \cup {x} ELSE lost
           ELSE Go(r, "dropRow", "error") /\ UNCHANGED <<rows, shrunk, lost>>
        /\ UNCHANGED <<lastId, unchecked, late>>

\* deleteMany, or an update with no lookup: one statement.
DropNow(r, t) ==
    \E x \in RowsOf(t) :
        /\ Arrive(r, "ok", Nothing)
        /\ IF Schema[t].drop = "soft"
           THEN rows' = [rows EXCEPT ![x].live = FALSE] /\ UNCHANGED shrunk
           ELSE Deletable(x) /\ Deleted(x)
        /\ UNCHANGED <<lastId, unchecked, lost, late>>

RecordStep(r) == InsertRow(r) \/ WriteRow(r) \/ CountBelow(r) \/ DropRow(r)
-----------------------------------------------------------------------------
(***************************************************************************)
(* The operations of the services.                                         *)
(***************************************************************************)
CreateBrand(r) == MakeNow(r, "brand")
UpdateBrand(r) == FindToChange(r, "brand")
RemoveBrand(r) == FindToDropRow(r, "brand")

BrandsStep(r) ==
    \/ CreateBrand(r) \/ UpdateBrand(r) \/ RemoveBrand(r)

CreateCustomerGroup(r) == MakeNow(r, "customerGroup")
UpdateCustomerGroup(r) == FindToChange(r, "customerGroup")
RemoveCustomerGroup(r) == FindToDropRow(r, "customerGroup")

CustomerGroupsStep(r) ==
    \/ CreateCustomerGroup(r) \/ UpdateCustomerGroup(r) \/ RemoveCustomerGroup(r)

CreateWarranty(r) == MakeNow(r, "warranty")
UpdateWarranty(r) == FindToChange(r, "warranty")
RemoveWarranty(r) == FindToDropRow(r, "warranty")

WarrantiesStep(r) ==
    \/ CreateWarranty(r) \/ UpdateWarranty(r) \/ RemoveWarranty(r)

CreatePriceGroup(r) == MakeNow(r, "priceGroup")
UpdatePriceGroup(r) == FindToChange(r, "priceGroup")
RemovePriceGroup(r) == FindToDropRow(r, "priceGroup")

PriceGroupsStep(r) ==
    \/ CreatePriceGroup(r) \/ UpdatePriceGroup(r) \/ RemovePriceGroup(r)

CreateDiscount(r) == MakeNow(r, "discount")
UpdateDiscount(r) == FindToChange(r, "discount")
RemoveDiscount(r) == FindToDropRow(r, "discount")

DiscountsStep(r) ==
    \/ CreateDiscount(r) \/ UpdateDiscount(r) \/ RemoveDiscount(r)

CreateNotificationTemplate(r) == MakeNow(r, "template")
UpdateNotificationTemplate(r) == FindToChange(r, "template")
RemoveNotificationTemplate(r) == FindToDropRow(r, "template")

TemplatesStep(r) ==
    \/ CreateNotificationTemplate(r) \/ UpdateNotificationTemplate(r)
    \/ RemoveNotificationTemplate(r)

CreateLocation(r) == MakeNow(r, "location")
UpdateLocation(r) == FindToChange(r, "location")
RemoveLocation(r) == FindToDropRow(r, "location")

LocationsStep(r) ==
    \/ CreateLocation(r) \/ UpdateLocation(r) \/ RemoveLocation(r)

CreateExpenseCategory(r) == MakeNow(r, "expenseCategory")
UpdateExpenseCategory(r) == FindToChange(r, "expenseCategory")
RemoveExpenseCategory(r) == FindToDropRow(r, "expenseCategory")
CreateExpense(r) == MakeNumbered(r, "expense") \/ MakeTyped(r, "expense")
UpdateExpense(r) == FindToChange(r, "expense")
RemoveExpense(r) == FindToDropRow(r, "expense")

ExpensesStep(r) ==
    \/ CreateExpenseCategory(r) \/ UpdateExpenseCategory(r) \/ RemoveExpenseCategory(r)
    \/ CreateExpense(r) \/ UpdateExpense(r) \/ RemoveExpense(r)

CreateVariationTemplate(r) == MakeNow(r, "variationTemplate")
UpdateVariationTemplate(r) == FindToChange(r, "variationTemplate")
RemoveVariationTemplate(r) == FindToDropRow(r, "variationTemplate")
CreateValueTemplate(r) == MakeNow(r, "valueTemplate")
RemoveValueTemplate(r) == FindToDropRow(r, "valueTemplate")
CreateProductVariation(r) == MakeNow(r, "productVariation")
RemoveProductVariation(r) == FindToDropRow(r, "productVariation")
CreateVariation(r) == MakeNow(r, "variation")
UpdateVariation(r) == FindToChange(r, "variation")
RemoveVariation(r) == FindToDropRow(r, "variation")

VariationsStep(r) ==
    \/ CreateVariationTemplate(r) \/ UpdateVariationTemplate(r)
    \/ RemoveVariationTemplate(r) \/ CreateValueTemplate(r) \/ RemoveValueTemplate(r)
    \/ CreateProductVariation(r) \/ RemoveProductVariation(r) \/ CreateVariation(r)
    \/ UpdateVariation(r) \/ RemoveVariation(r)

CreateCampaign(r) == MakeNow(r, "campaign")
UpdateCampaign(r) == FindToChange(r, "campaign")
RemoveCampaign(r) == FindToDropRow(r, "campaign")
CreateSchedule(r) == MakeNow(r, "schedule")
UpdateSchedule(r) == FindToChange(r, "schedule")
RemoveSchedule(r) == FindToDropRow(r, "schedule")
CreateCallLog(r) == MakeNow(r, "callLog")
RemoveCallLog(r) == FindToDropRow(r, "callLog")

CrmStep(r) ==
    \/ CreateCampaign(r) \/ UpdateCampaign(r) \/ RemoveCampaign(r) \/ CreateSchedule(r)
    \/ UpdateSchedule(r) \/ RemoveSchedule(r) \/ CreateCallLog(r) \/ RemoveCallLog(r)

CreateLeaveType(r) == MakeNow(r, "leaveType")
RemoveLeaveType(r) == DropNow(r, "leaveType")
CreateLeave(r) == MakeNow(r, "leave")
UpdateLeave(r) == FindToChange(r, "leave")
RemoveLeave(r) == DropNow(r, "leave")
CreatePayroll(r) == MakeNow(r, "payroll")
RemovePayroll(r) == DropNow(r, "payroll")
CreateDocument(r) == MakeNow(r, "document")
RemoveDocument(r) == DropNow(r, "document")
CreateReminder(r) == MakeNow(r, "reminder")
RemoveReminder(r) == DropNow(r, "reminder")

EssentialsStep(r) ==
    \/ CreateLeaveType(r) \/ RemoveLeaveType(r) \/ CreateLeave(r) \/ UpdateLeave(r)
    \/ RemoveLeave(r) \/ CreatePayroll(r) \/ RemovePayroll(r) \/ CreateDocument(r)
    \/ RemoveDocument(r) \/ CreateReminder(r) \/ RemoveReminder(r)

CreatePackage(r) == MakeNow(r, "package")
UpdatePackage(r) == FindToChange(r, "package")
RemovePackage(r) == FindToDropRow(r, "package")
CreateSubscription(r) == MakeNow(r, "subscription")
UpdateSubscription(r) == FindToChange(r, "subscription")
RemoveSubscription(r) == FindToDropRow(r, "subscription")

SuperadminStep(r) ==
    \/ CreatePackage(r) \/ UpdatePackage(r) \/ RemovePackage(r) \/ CreateSubscription(r)
    \/ UpdateSubscription(r) \/ RemoveSubscription(r)

CreateRoomType(r) == MakeNow(r, "roomType")
RemoveRoomType(r) == FindToDropRow(r, "roomType")
CreateRoom(r) == MakeNow(r, "room")
RemoveRoom(r) == DropNow(r, "room")
CreateExtra(r) == MakeNow(r, "extra")
RemoveExtra(r) == DropNow(r, "extra")
CreateBookingLine(r) == MakeNow(r, "bookingLine")

HmsStep(r) ==
    \/ CreateRoomType(r) \/ RemoveRoomType(r) \/ CreateRoom(r) \/ RemoveRoom(r)
    \/ CreateExtra(r) \/ RemoveExtra(r) \/ CreateBookingLine(r)

CreateProject(r) == MakeNow(r, "project")
UpdateProject(r) == FindToChange(r, "project")
RemoveProject(r) == FindToDropRow(r, "project")
CreateTask(r) == MakeNow(r, "task")
UpdateTask(r) == FindToChange(r, "task")
RemoveTask(r) == FindToDropRow(r, "task")
CreateTimeLog(r) == MakeNow(r, "timeLog")
CreateComment(r) == MakeNow(r, "comment")
RemoveComment(r) == DropNow(r, "comment")

ProjectsStep(r) ==
    \/ CreateProject(r) \/ UpdateProject(r) \/ RemoveProject(r) \/ CreateTask(r)
    \/ UpdateTask(r) \/ RemoveTask(r) \/ CreateTimeLog(r) \/ CreateComment(r)
    \/ RemoveComment(r)

CreateRepairStatus(r) == MakeNow(r, "repairStatus")
RemoveRepairStatus(r) == FindToDropRow(r, "repairStatus")
CreateDeviceModel(r) == MakeNow(r, "deviceModel")
RemoveDeviceModel(r) == FindToDropRow(r, "deviceModel")
CreateJobSheet(r) == MakeNow(r, "jobSheet")
UpdateJobSheet(r) == FindToChange(r, "jobSheet")
RemoveJobSheet(r) == FindToDropRow(r, "jobSheet")

RepairStep(r) ==
    \/ CreateRepairStatus(r) \/ RemoveRepairStatus(r) \/ CreateDeviceModel(r)
    \/ RemoveDeviceModel(r) \/ CreateJobSheet(r) \/ UpdateJobSheet(r) \/ RemoveJobSheet(r)

CreateAsset(r) == MakeNow(r, "asset")
UpdateAsset(r) == FindToChange(r, "asset")
RemoveAsset(r) == FindToDropRow(r, "asset")
CreateAssetTransaction(r) == MakeNumbered(r, "assetTransaction") \/ MakeTyped(r, "assetTransaction")
CreateAssetWarranty(r) == MakePart(r, "assetWarranty")
RemoveAssetWarranty(r) == FindToDropRow(r, "assetWarranty")
CreateMaintenance(r) == MakePart(r, "maintenance")
UpdateMaintenance(r) == FindToChange(r, "maintenance")
RemoveMaintenance(r) == FindToDropRow(r, "maintenance")

AssetsStep(r) ==
    \/ CreateAsset(r) \/ UpdateAsset(r) \/ RemoveAsset(r) \/ CreateAssetTransaction(r)
    \/ CreateAssetWarranty(r) \/ RemoveAssetWarranty(r) \/ CreateMaintenance(r)
    \/ UpdateMaintenance(r) \/ RemoveMaintenance(r)

\* Recipes: the recipe and its ingredients in one transaction.
CreateRecipe(r) ==
    \E parts \in {0, 1} :
        /\ lastId + 1 + parts <= MaxId
        /\ Arrive(r, "ok", Nothing)
        /\ lastId' = lastId + 1 + parts
        /\ LET recipe == <<"recipe", lastId + 1>>
               new == {recipe} \cup {<<"ingredient", i>> : i \in (lastId + 2)..(lastId + 1 + parts)}
           IN  rows' = [x \in DOMAIN rows \cup new |->
                           IF x = recipe THEN NewRow(NoRow, NoKey)
                           ELSE IF x \in new THEN NewRow(recipe, NoKey) ELSE rows[x]]
        /\ NoRecordHistory

FindRecipe(r) ==
    \E x \in RowsOf("recipe") :
        /\ Arrive(r, "storeRecipe", [id |-> x])
        /\ UNCHANGED recordVars

\* The update of the recipe; its ingredients stay, or are deleted and others made:
\* all of it or, if the recipe is gone, nothing.
StoreRecipe(r) ==
    LET x == req[r].id
        part == <<"ingredient", lastId + 1>>
        kept == DOMAIN rows \ Belonging({x}, "cascade")
    IN  /\ pc[r] = "storeRecipe"
        /\ IF x \notin DOMAIN rows
           THEN Go(r, "storeRecipe", "error") /\ UNCHANGED <<rows, lastId>>
           ELSE /\ Go(r, "storeRecipe", "ok")
                /\ \/ UNCHANGED <<rows, lastId>>
                   \/ rows' = [y \in kept |-> rows[y]] /\ UNCHANGED lastId
                   \/ /\ lastId < MaxId
                      /\ lastId' = lastId + 1
                      /\ rows' = [y \in kept \cup {part} |->
                                     IF y = part THEN NewRow(x, NoKey) ELSE rows[y]]
        /\ NoRecordHistory

CreateIngredientGroup(r) == MakeNow(r, "ingredientGroup")
RemoveIngredientGroup(r) == FindToDropRow(r, "ingredientGroup")
RemoveRecipe(r) == FindToDropRow(r, "recipe")

ManufacturingStep(r) ==
    \/ CreateRecipe(r) \/ FindRecipe(r) \/ StoreRecipe(r) \/ RemoveRecipe(r)
    \/ CreateIngredientGroup(r) \/ RemoveIngredientGroup(r)

\* Contacts: in use, no two have one mobile number.
CreateContact(r) == MakeKeyed(r, "contact")

\* Mutant: the row itself is the only one looked at.
UpdateContactAlone(r) ==
    \E x \in InUse("contact"), k \in Key :
        /\ Begin(r, "writeRow", [on |-> AllOf("contact"), kind |-> "save", id |-> x, key |-> k,
                                 closing |-> "keep", checked |-> TRUE], RecordRivals)
        /\ UNCHANGED recordVars

UpdateContact(r) == FindToChange(r, "contact") \/ FindToRekeyRow(r, "contact")
RemoveContact(r) == FindToDropRow(r, "contact")

\* importContacts goes through its rows; one whose number is taken is skipped.
ImportContacts(r) ==
    /\ Begin(r, "importContact", [on |-> AllOf("contact"), kind |-> "save"], RecordRivals)
    /\ UNCHANGED recordVars

ImportContact(r) ==
    \E k \in Key :
        /\ ~KeyTaken("contact", k, NoRow)
        /\ Hold(r, "importContact", "insertContact",
                [on |-> AllOf("contact"), kind |-> "save", key |-> k])
        /\ UNCHANGED recordVars

InsertContact(r) ==
    /\ pc[r] = "insertContact"
    /\ Inserted("contact", NoRow, req[r].key)
    /\ Go(r, "insertContact", "importContact")
    /\ NoRecordHistory

ImportedContacts(r) == Go(r, "importContact", "ok") /\ UNCHANGED recordVars

ContactsStep(r) ==
    \/ CreateContact(r) \/ UpdateContact(r) \/ RemoveContact(r)
    \/ ImportContacts(r) \/ ImportContact(r) \/ InsertContact(r) \/ ImportedContacts(r)

\* Accounts: a number is looked for when the account is made, not when it is
\* changed; an account that has postings is not deleted, a closed one not posted to.
CreateAccountType(r) == MakeNow(r, "accountType")
DeleteAccountType(r) == FindToDropEmpty(r, "accountType")
CreateAccount(r) == MakeKeyed(r, "account")
DeleteAccount(r) == FindToDropEmpty(r, "account")
DeletePosting(r) == FindToDropRow(r, "posting")

UpdateAccount(r) ==
    \E x \in InUse("account"), k \in Key \cup {NoKey}, c \in {"keep", "close", "reopen"} :
        /\ Begin(r, "writeRow", [on |-> x, kind |-> "change", id |-> x, key |-> k, closing |-> c,
                                 checked |-> k = NoKey], RecordRivals)
        /\ UNCHANGED recordVars

\* Mutant: whether it is closed is not asked.
PostAnyway(r) ==
    \E x \in InUse("account") :
        /\ Begin(r, "insertRow", [on |-> x, kind |-> "post", table |-> "posting", of |-> x,
                                  key |-> NoKey], RecordRivals)
        /\ UNCHANGED recordVars

CreatePosting(r) ==
    \E x \in InUse("account") :
        /\ ~rows[x].closed
        /\ Begin(r, "insertRow", [on |-> x, kind |-> "post", table |-> "posting", of |-> x,
                                  key |-> NoKey], RecordRivals)
        /\ UNCHANGED recordVars

AccountingStep(r) ==
    \/ CreateAccountType(r) \/ DeleteAccountType(r)
    \/ CreateAccount(r) \/ UpdateAccount(r) \/ DeleteAccount(r)
    \/ CreatePosting(r) \/ DeletePosting(r)

\* Bookings: the table, if one is asked for, must be free for the time when the
\* booking is made.
CreateTable(r) == MakeNow(r, "diningTable")
UpdateTable(r) == FindToChange(r, "diningTable")
RemoveTable(r) == FindToDropRow(r, "diningTable")
CreateBooking(r) == MakeKeyed(r, "booking") \/ MakeNow(r, "booking")
UpdateBooking(r) == FindToChange(r, "booking")
RemoveBooking(r) == FindToDropRow(r, "booking")

RestaurantStep(r) ==
    \/ CreateTable(r) \/ UpdateTable(r) \/ RemoveTable(r)
    \/ CreateBooking(r) \/ UpdateBooking(r) \/ RemoveBooking(r)
-----------------------------------------------------------------------------
ServiceStep(s, r) ==
    \/ s = "brands" /\ BrandsStep(r)
    \/ s = "customerGroups" /\ CustomerGroupsStep(r)
    \/ s = "warranties" /\ WarrantiesStep(r)
    \/ s = "priceGroups" /\ PriceGroupsStep(r)
    \/ s = "discounts" /\ DiscountsStep(r)
    \/ s = "templates" /\ TemplatesStep(r)
    \/ s = "locations" /\ LocationsStep(r)
    \/ s = "expenses" /\ ExpensesStep(r)
    \/ s = "variations" /\ VariationsStep(r)
    \/ s = "crm" /\ CrmStep(r)
    \/ s = "essentials" /\ EssentialsStep(r)
    \/ s = "superadmin" /\ SuperadminStep(r)
    \/ s = "hms" /\ HmsStep(r)
    \/ s = "projects" /\ ProjectsStep(r)
    \/ s = "repair" /\ RepairStep(r)
    \/ s = "assets" /\ AssetsStep(r)
    \/ s = "manufacturing" /\ ManufacturingStep(r)
    \/ s = "contacts" /\ ContactsStep(r)
    \/ s = "accounting" /\ AccountingStep(r)
    \/ s = "restaurant" /\ RestaurantStep(r)
    \/ RecordStep(r)

\* The clients turn to the service s; other services write other tables.
RecordsNext(s) ==
    \/ \E r \in Request : ServiceStep(s, r)
    \/ \E r \in Request : Fail(r) /\ UNCHANGED recordVars
    \/ Halt /\ UNCHANGED recordVars

RecordsSpec(s) ==
    RequestInit /\ RecordsInit(Service[s]) /\ [][RecordsNext(s)]_<<requestVars, recordVars>>
-----------------------------------------------------------------------------
(***************************************************************************)
(* Properties.                                                             *)
(***************************************************************************)
\* Rows in use do not share a number (a mobile, an account's, a reference, a
\* table's time), unless two that save such rows were under way together, one
\* was typed in or changed with no check, or the number counts rows and some of
\* them went with what they belonged to.
KeysExplained ==
    \A t \in Keyed :
        \/ Together(AllOf(t), "save", "save")
        \/ t \in unchecked
        \/ t \in Numbered \cap shrunk
        \/ \A x, y \in InUse(t) :
              rows[x].key = rows[y].key /\ rows[x].key # NoKey => x = y

\* An account goes with postings on it only if one was posted while it was being
\* deleted, a closed one is posted to only if it was closed meanwhile, and no type
\* of accounts goes with its accounts.
PostingsExplained ==
    /\ \A x \in lost : x[1] = "account" /\ Together(x, "post", "drop")
    /\ \A x \in late : Together(x, "post", "change")
=============================================================================
