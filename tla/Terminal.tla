------------------------------ MODULE Terminal ------------------------------
(***************************************************************************)
(* The sales terminal (pos.component.ts): a list of products to search in, *)
(* a cart kept in localStorage, and the checkout that sends it. The list   *)
(* is kept in localStorage too, for when it cannot be loaded.              *)
(*                                                                         *)
(* Each time something is put in the cart it is a new item, with the next  *)
(* number typed; prices, discounts and the customer are left out.          *)
(***************************************************************************)
EXTENDS Screens

VARIABLES cart,      \* the items
          kept,      \* in localStorage: no products, or a list of them
          isOffline  \* the banner

terminalVars == <<cart, kept, isOffline>>

POS == [list |-> "views", spinner |-> "ends", form |-> "cart", guard |-> "ends",
        after |-> "reload", remove |-> "none", toggle |-> "none", keyed |-> FALSE]

TerminalInit ==
    /\ screen = POS => view = All
    /\ cart = {}
    /\ kept = {}
    /\ isOffline \in (IF screen = POS THEN BOOLEAN ELSE {FALSE})

listRest == <<screen, table, form, left, typed, late, lost, created, twice, unsure, failed>>
-----------------------------------------------------------------------------
\* An item goes in the cart; a checkout under way has been sent without it.
Put ==
    /\ typed < MaxDraft
    /\ typed' = typed + 1
    /\ cart' = cart \cup {typed + 1}
    /\ late' = IF InFlight("sale") THEN late \cup {typed + 1} ELSE late

AddToCart ==
    /\ DOMAIN shown.rows # {}
    /\ Put
    /\ UNCHANGED <<callVars, screen, table, view, shown, loading, saving, form, left, lost,
                   created, twice, unsure, failed, clean, kept, isOffline>>

\* A barcode is looked up; the item goes in whatever cart there is by then.
Scan(c) ==
    /\ Send(c, Out("scan", Nought))
    /\ UNCHANGED <<screenVars, terminalVars>>

Scanned(c) ==
    /\ At(c, "scan", "served")
    /\ Put
    /\ Follow(c, Idle)
    /\ UNCHANGED <<screen, table, view, shown, loading, saving, form, left, lost,
                   created, twice, unsure, failed, clean, kept, isOffline>>

\* No product has the code, or the lookup fails.
ScanMissed(c) ==
    /\ calls[c].kind = "scan"
    /\ calls[c].stage \in {"served", "failed"}
    /\ Follow(c, Idle)
    /\ UNCHANGED <<screenVars, terminalVars>>

\* The cashier takes an item out, or clears the cart (Escape).
TakeOut ==
    /\ \E items \in {{i} : i \in cart} \cup {cart} : items # {} /\ cart' = cart \ items
    /\ UNCHANGED <<callVars, screenVars, kept, isOffline>>

\* checkout, by the button or by F2: what is in the cart is sent.
Checkout(c) ==
    /\ cart # {}
    /\ ~saving
    /\ Send(c, Out("sale", cart))
    /\ saving' = TRUE
    /\ UNCHANGED <<screen, table, view, shown, loading, form, left, typed, late, lost, created,
                   twice, unsure, failed, clean, terminalVars>>

\* The sale is stored, and a product has less stock than it had.
Sell(items) ==
    /\ created' = created \cup items
    /\ twice' = twice \cup (created \cap items)
    /\ \E x \in DOMAIN table, i \in items : table' = [table EXCEPT ![x] = i]

ServeSale(c) ==
    /\ At(c, "sale", "out")
    /\ Sell(calls[c].about)
    /\ Answer(c, "done")
    /\ UNCHANGED <<apiRest, terminalVars>>

ServeScan(c) ==
    /\ At(c, "scan", "out")
    /\ Answer(c, "done")
    /\ UNCHANGED <<screenVars, terminalVars>>

\* The cart is cleared, with what was put in it since, and the list loaded anew.
Sold(c) ==
    /\ At(c, "sale", "served")
    /\ cart' = {}
    /\ lost' = lost \cup (cart \ calls[c].about)
    /\ saving' = FALSE
    /\ Follow(c, Load(view))
    /\ Loading(c)
    /\ UNCHANGED <<userRest, shown, form, left, unsure, failed, kept, isOffline>>

\* The cart stays; nothing is queued, and the sale may have been stored.
SaleFails(c) ==
    /\ At(c, "sale", "failed")
    /\ saving' = FALSE
    /\ unsure' = unsure \cup calls[c].about
    /\ failed' = failed \cup {"save"}
    /\ clean' = FALSE
    /\ Follow(c, Idle)
    /\ UNCHANGED <<userRest, shown, loading, form, left, lost, terminalVars>>
-----------------------------------------------------------------------------
\* loadProducts: what comes when nothing is searched for is kept.
TakeProducts(c) ==
    /\ TakeList(c)
    /\ isOffline' = FALSE
    /\ kept' = IF calls[c].about = All THEN {calls[c].answer.rows} ELSE kept
    /\ UNCHANGED cart

\* ... and searched and shown when they cannot be loaded.
ProductsFail(c) ==
    /\ At(c, "load", "failed")
    /\ isOffline' = TRUE
    /\ loading' = FALSE
    /\ LET v == calls[c].about
       IN  shown' \in IF kept = {} THEN {shown} ELSE {Loaded(v, Fitting(v, f)) : f \in kept}
    /\ failed' = failed \cup {"load"}
    /\ clean' = FALSE
    /\ Follow(c, Idle)
    /\ UNCHANGED <<userRest, saving, form, left, lost, unsure, cart, kept>>

\* The browser goes offline; when it is online again, and when the cashier asks
\* for it, the list is loaded anew.
GoOffline == isOffline' = TRUE /\ UNCHANGED <<callVars, screenVars, cart, kept>>

Retry(c) ==
    /\ isOffline
    /\ isOffline' \in BOOLEAN
    /\ Send(c, Load(view))
    /\ Loading(c)
    /\ UNCHANGED <<listRest, view, shown, saving, cart, kept>>

\* The page is loaded anew with the cart and the products kept, and no search. A
\* sale on its way goes on with nobody waiting for its answer.
Reload(c) ==
    /\ ~At(c, "sale", "out") /\ calls[c].kind # "orphan"
    /\ unsure' = unsure \cup UNION {calls[d].about : d \in Of("sale")}
    /\ view' = All
    /\ shown' = Loaded(All, <<>>)
    /\ loading' = TRUE
    /\ saving' = FALSE
    /\ calls' = [d \in Call |->
           IF d = c THEN Load(All)
           ELSE IF At(d, "sale", "out") THEN Out("orphan", calls[d].about)
           ELSE IF calls[d].kind = "orphan" THEN calls[d] ELSE Idle]
    /\ clean' = TRUE
    /\ isOffline' \in BOOLEAN
    /\ UNCHANGED <<screen, table, form, left, typed, late, lost, created, twice, failed, losses,
                   cart, kept>>

\* It is stored, unknown to the page, or lost.
ServeOrphan(c) ==
    /\ calls[c].kind = "orphan"
    /\ \/ At(c, "orphan", "out") /\ Sell(calls[c].about) /\ clean' = FALSE
       \/ At(c, "orphan", "failed") /\ UNCHANGED <<table, created, twice, clean>>
    /\ Follow(c, Idle)
    /\ UNCHANGED <<screen, view, shown, loading, saving, form, left, typed, late, lost, unsure,
                   failed, terminalVars>>

TerminalStep ==
    \/ AddToCart \/ TakeOut \/ GoOffline
    \/ \E c \in Call :
           \/ Scan(c) \/ Scanned(c) \/ ScanMissed(c) \/ Checkout(c) \/ Retry(c) \/ Reload(c)
           \/ ServeSale(c) \/ ServeOrphan(c) \/ ServeScan(c) \/ Sold(c) \/ SaleFails(c)
           \/ TakeProducts(c) \/ ProductsFail(c)
           \/ (ChangeView(c) \/ ServeLoad(c)) /\ UNCHANGED terminalVars
           \/ Lose(c) /\ UNCHANGED <<screenVars, terminalVars>>
=============================================================================
