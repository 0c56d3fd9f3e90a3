------------------------------ MODULE Defaults ------------------------------
(***************************************************************************)
(* TaxRatesService and the settings kept by DocumentsService: tax rates,   *)
(* invoice layouts and invoice schemes, of each of which one may be the    *)
(* default, and the taxes a group tax is made of. A row that becomes the   *)
(* default is written by two statements: one takes the mark from the       *)
(* others, one writes the row. Tax rates are deleted softly, the others    *)
(* are gone. Names, rates and the lines printed are left out.              *)
(***************************************************************************)
EXTENDS Requests

CONSTANTS Setting  \* ids of rows, existing or to come, of each table

VARIABLES settings, \* of each table the rows: a function on the existing ids
          bare,     \* history: tables whose default was taken away, none put in its place
          subTaxes, \* of each group tax, the taxes it is made of
          asked,    \* history: what each group was last asked to be made of
          halved    \* history: groups emptied by a request that could not fill them

settingVars == <<settings, bare>>
groupVars == <<subTaxes, asked, halved>>
defaultVars == <<settingVars, groupVars>>

SettingTables == {"tax", "layout", "scheme"}
NoSetting == "none"

ASSUME SettingAssumption == Setting # {} /\ NoSetting \notin Setting

DefaultsOK ==
    /\ DOMAIN settings = SettingTables
    /\ \A t \in SettingTables :
          /\ DOMAIN settings[t] \subseteq Setting
          /\ \A s \in DOMAIN settings[t] : settings[t][s] \in [default : BOOLEAN, live : BOOLEAN]
    /\ bare \subseteq SettingTables
    /\ subTaxes \in [Setting -> SUBSET DOMAIN settings["tax"]]
    /\ halved \subseteq Setting

\* Each table has one row, the default.
DefaultsInit ==
    /\ settings = [t \in SettingTables |->
          [s \in {CHOOSE s \in Setting : TRUE} |-> [default |-> TRUE, live |-> TRUE]]]
    /\ bare = {}
    /\ subTaxes = [s \in Setting |-> {}]
    /\ asked = [s \in Setting |-> {}]
    /\ halved = {}

SettingsInUse(t) == {s \in DOMAIN settings[t] : settings[t][s].live}
Marked(t) == {s \in SettingsInUse(t) : settings[t][s].default}

Table(t) == <<"table", t>>
Group(g) == <<"group", g>>
DefaultRivals == {{"mark"}, {"setTaxes"}, {"setTaxes", "addTax"}}
-----------------------------------------------------------------------------
(***************************************************************************)
(* The default of a table.                                                 *)
(***************************************************************************)
\* A row is asked for, to be the default or not.
CreateIn(r, t) ==
    \E default \in BOOLEAN :
        /\ Begin(r, IF default THEN "unmark" ELSE "insert",
                 [on |-> Table(t), kind |-> IF default THEN "mark" ELSE "other", table |-> t,
                  id |-> NoSetting, default |-> default], DefaultRivals)
        /\ UNCHANGED defaultVars

\* An update finds the row: it makes it the default, no default, or neither.
UpdateIn(r, t) ==
    \E s \in SettingsInUse(t), change \in {"mark", "unmark", "rename"} :
        /\ Begin(r, CASE change = "mark" -> "unmark" [] change = "unmark" -> "unmarkOne"
                        [] change = "rename" -> "rename",
                 [on |-> Table(t), kind |-> change, table |-> t, id |-> s, default |-> TRUE],
                 DefaultRivals)
        /\ UNCHANGED defaultVars

RemoveIn(r, t) ==
    \E s \in SettingsInUse(t) :
        /\ Begin(r, "remove", [on |-> Table(t), kind |-> "remove", table |-> t, id |-> s],
                 DefaultRivals)
        /\ UNCHANGED defaultVars

CreateTaxRate(r) == CreateIn(r, "tax")
UpdateTaxRate(r) == UpdateIn(r, "tax")
RemoveTaxRate(r) == RemoveIn(r, "tax")
CreateInvoiceLayout(r) == CreateIn(r, "layout")
UpdateInvoiceLayout(r) == UpdateIn(r, "layout")
RemoveInvoiceLayout(r) == RemoveIn(r, "layout")
CreateInvoiceScheme(r) == CreateIn(r, "scheme")
UpdateInvoiceScheme(r) == UpdateIn(r, "scheme")
RemoveInvoiceScheme(r) == RemoveIn(r, "scheme")

\* Mutant: the mark is taken from nobody.
UnmarkNobody(r) ==
    /\ Go(r, "unmark", IF req[r].id = NoSetting THEN "insert" ELSE "mark")
    /\ UNCHANGED defaultVars

\* updateMany: the mark is taken from all rows in use but the one that gets it.
Unmark(r) ==
    LET h == req[r]
    IN  /\ Go(r, "unmark", IF h.id = NoSetting THEN "insert" ELSE "mark")
        /\ settings' = [settings EXCEPT ![h.table] = [s \in DOMAIN @ |->
               IF s # h.id /\ @[s].live THEN [@[s] EXCEPT !.default = FALSE] ELSE @[s]]]
        /\ UNCHANGED <<bare, groupVars>>

InsertSetting(r) ==
    LET h == req[r]
    IN  /\ pc[r] = "insert"
        /\ \E s \in Setting \ DOMAIN settings[h.table] :
              settings' = [settings EXCEPT ![h.table] =
                  [x \in DOMAIN @ \cup {s} |->
                      IF x = s THEN [default |-> h.default, live |-> TRUE] ELSE @[x]]]
        /\ bare' = IF h.default THEN bare \ {h.table} ELSE bare
        /\ Go(r, "insert", "ok")
        /\ UNCHANGED groupVars

\* The update of the row. It may have been removed: a tax rate is still there to
\* be written, of the others there is nothing to write (P2025).
StoreSetting(r) ==
    LET h == req[r]
        t == h.table
    IN  /\ pc[r] \in {"mark", "unmarkOne", "rename"}
        /\ IF h.id \in DOMAIN settings[t]
           THEN /\ Go(r, pc[r], "ok")
                /\ settings' = [settings EXCEPT ![t][h.id].default =
                       CASE pc[r] = "mark" -> TRUE
                         [] pc[r] = "unmarkOne" -> FALSE
                         [] pc[r] = "rename" -> @]
           ELSE Go(r, pc[r], "error") /\ UNCHANGED settings
        /\ bare' = IF pc[r] = "mark" /\ h.id \in SettingsInUse(t) THEN bare \ {t}
                   ELSE IF pc[r] = "mark" \/ (pc[r] = "unmarkOne" /\ h.id \in Marked(t))
                   THEN bare \cup {t} ELSE bare
        /\ UNCHANGED groupVars

\* A tax rate is marked deleted, a layout or a scheme is deleted.
DeleteSetting(r) ==
    LET h == req[r]
        t == h.table
    IN  /\ pc[r] = "remove"
        /\ IF h.id \in DOMAIN settings[t]
           THEN /\ Go(r, "remove", "ok")
                /\ settings' = [settings EXCEPT ![t] =
                       IF t = "tax" THEN [@ EXCEPT ![h.id].live = FALSE]
                       ELSE [s \in DOMAIN @ \ {h.id} |-> @[s]]]
           ELSE Go(r, "remove", "error") /\ UNCHANGED settings
        /\ bare' = IF h.id \in Marked(t) THEN bare \cup {t} ELSE bare
        /\ UNCHANGED groupVars
-----------------------------------------------------------------------------
(***************************************************************************)
(* The taxes of a group. Neither the group nor its taxes are looked at     *)
(* again when they are written, and a tax deleted stays in its groups.     *)
(***************************************************************************)
FindGroup(r) ==
    \E g \in SettingsInUse("tax"), s \in SUBSET DOMAIN settings["tax"] :
        /\ Begin(r, "clearTaxes", [on |-> Group(g), kind |-> "setTaxes", id |-> g, taxes |-> s],
                 DefaultRivals)
        /\ UNCHANGED defaultVars

\* Mutant: the taxes before are kept.
ClearNoTaxes(r) ==
    /\ Go(r, "clearTaxes", IF req[r].taxes = {} THEN "ok" ELSE "storeTaxes")
    /\ asked' = [asked EXCEPT ![req[r].id] = req[r].taxes]
    /\ halved' = halved \ {req[r].id}
    /\ UNCHANGED <<settingVars, subTaxes>>

\* setSubTaxes replaces all: the rows there are go first.
ClearTaxes(r) ==
    LET h == req[r]
    IN  /\ Go(r, "clearTaxes", IF h.taxes = {} THEN "ok" ELSE "storeTaxes")
        /\ subTaxes' = [subTaxes EXCEPT ![h.id] = {}]
        /\ asked' = [asked EXCEPT ![h.id] = h.taxes]
        /\ halved' = halved \ {h.id}
        /\ UNCHANGED settingVars

StoreTaxes(r) ==
    LET h == req[r]
    IN  /\ Go(r, "storeTaxes", "ok")
        /\ subTaxes' = [subTaxes EXCEPT ![h.id] = @ \cup h.taxes]
        /\ UNCHANGED <<settingVars, asked, halved>>

\* addSubTax finds the group, then the tax; then one of its rows is there.
FindToAdd(r) ==
    \E g, s \in SettingsInUse("tax") :
        /\ Begin(r, "addTax", [on |-> Group(g), kind |-> "addTax", id |-> g, tax |-> s],
                 DefaultRivals)
        /\ UNCHANGED defaultVars

AddSubTax(r) ==
    LET h == req[r]
    IN  /\ Go(r, "addTax", "ok")
        /\ subTaxes' = [subTaxes EXCEPT ![h.id] = @ \cup {h.tax}]
        /\ asked' = [asked EXCEPT ![h.id] = @ \cup {h.tax}]
        /\ UNCHANGED <<settingVars, halved>>

FindToTake(r) ==
    \E g \in SettingsInUse("tax"), s \in DOMAIN settings["tax"] :
        /\ Begin(r, "takeTax", [on |-> Group(g), kind |-> "addTax", id |-> g, tax |-> s],
                 DefaultRivals)
        /\ UNCHANGED defaultVars

RemoveSubTax(r) ==
    LET h == req[r]
    IN  /\ Go(r, "takeTax", "ok")
        /\ subTaxes' = [subTaxes EXCEPT ![h.id] = @ \ {h.tax}]
        /\ asked' = [asked EXCEPT ![h.id] = @ \ {h.tax}]
        /\ UNCHANGED <<settingVars, halved>>

TaxRateStep(r) ==
    \/ CreateTaxRate(r) \/ UpdateTaxRate(r) \/ RemoveTaxRate(r)
    \/ FindGroup(r) \/ ClearTaxes(r) \/ StoreTaxes(r)
    \/ FindToAdd(r) \/ AddSubTax(r) \/ FindToTake(r) \/ RemoveSubTax(r)

InvoiceSettingStep(r) ==
    \/ CreateInvoiceLayout(r) \/ UpdateInvoiceLayout(r) \/ RemoveInvoiceLayout(r)
    \/ CreateInvoiceScheme(r) \/ UpdateInvoiceScheme(r) \/ RemoveInvoiceScheme(r)

SettingStep(r) == Unmark(r) \/ InsertSetting(r) \/ StoreSetting(r) \/ DeleteSetting(r)

\* What requests leave behind that end before their last statement.
DefaultsLeftBy(rs) ==
    /\ bare' = bare \cup {req[r].table : r \in {x \in rs :
                               pc[x] \in {"insert", "mark"} /\ req[x].kind = "mark"}}
    /\ halved' = halved \cup {req[r].id : r \in {x \in rs : pc[x] = "storeTaxes"}}
    /\ UNCHANGED <<settings, subTaxes, asked>>

DefaultsNext ==
    \/ \E r \in Request : TaxRateStep(r) \/ InvoiceSettingStep(r) \/ SettingStep(r)
    \/ \E r \in Request : Fail(r) /\ DefaultsLeftBy({r})
    \/ Halt /\ DefaultsLeftBy(Request)

DefaultsSpec == RequestInit /\ DefaultsInit /\ [][DefaultsNext]_<<requestVars, defaultVars>>
-----------------------------------------------------------------------------
(***************************************************************************)
(* Properties.                                                             *)
(***************************************************************************)
\* A table has one default: two are marked only if two requests for a new
\* default were under way together; none is only while such a request is between
\* its statements, after one was cut short or found its row gone, or when the
\* default was itself removed or unmarked.
DefaultsExplained ==
    \A t \in SettingTables :
        /\ \/ Together(Table(t), "mark", "mark")
           \/ \A s, u \in Marked(t) : s = u
        /\ \/ Marked(t) # {} \/ t \in bare
           \/ \E r \in Request :
                 pc[r] \in {"insert", "mark"} /\ req[r].table = t /\ req[r].kind = "mark"

\* A group tax is made of what it was last asked to be, unless its taxes are just
\* being replaced, were replaced by two requests at a time (then it gets those of
\* both) or by one while another was changed, or its last replacement stopped half
\* way.
GroupTaxesAsAsked ==
    \A g \in Setting :
        \/ Together(Group(g), "setTaxes", "setTaxes") \/ Together(Group(g), "setTaxes", "addTax")
        \/ \E r \in Request : pc[r] = "storeTaxes" /\ req[r].id = g
        \/ g \in halved \/ subTaxes[g] = asked[g]
=============================================================================
