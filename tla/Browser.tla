------------------------------- MODULE Browser -------------------------------
(***************************************************************************)
(* The web application in one tab: any of its pages is open, with calls of *)
(* its own under way. Pages share nothing but the API's tables and the     *)
(* login (module WebSession), so a behaviour is about one page, from when  *)
(* it opens.                                                               *)
(***************************************************************************)
EXTENDS Terminal, Pages

vars == <<callVars, screenVars, terminalVars>>

AllPages == Catalog \cup Trade \cup Relations \cup Settings

Init ==
    /\ \E s \in AllPages \cup {POS} : ScreenInit(s)
    /\ TerminalInit

Next ==
    /\ ~left
    /\ \/ screen # POS /\ ScreenStep /\ UNCHANGED terminalVars
       \/ screen = POS /\ TerminalStep

Spec == Init /\ [][Next]_vars
-----------------------------------------------------------------------------
TypeOK ==
    /\ screen \in Features
    /\ \A c \in Call : calls[c] # Idle => calls[c].stage \in {"out", "served", "failed"}
    /\ losses \in 0..MaxLost
    /\ table \in Tables
    /\ view \in View /\ shown \in [view : View, rows : Tables, patched : BOOLEAN]
    /\ {loading, saving, left, clean, isOffline} \subseteq BOOLEAN
    /\ form.row \in Row \cup {New} /\ form.text \in 0..MaxDraft
    /\ typed \in 0..MaxDraft
    /\ UNION {late, lost, created, twice, unsure, cart} \subseteq 1..typed
    /\ failed \subseteq {"load", "save"}
    /\ kept \subseteq Tables

(***************************************************************************)
(* What a page shows, keeps and sends, on every page.                      *)
(***************************************************************************)
\* A list of a view was patched in place, which cannot tell whether the row still
\* passes the filter, and which row moves up to the page.
PatchedView == screen.list = "views" /\ shown.patched

\* Every row shown is there, with the content it has.
RowsAreThere == \A x \in DOMAIN shown.rows : x \in DOMAIN table /\ shown.rows[x] = table[x]

\* Once nothing is under way, and unless the call that loaded it crossed another or a
\* call failed since, the list is of the view chosen; it is what the API answers for
\* that view, after whatever was saved, deleted or sold, save when a row of a view was
\* deleted or switched in place: then it is at least of rows as they are.
ListsSettle ==
    HasList /\ ~left /\ clean /\ Quiet =>
        /\ shown.view = view
        /\ IF PatchedView THEN RowsAreThere ELSE shown.rows = ListOf(view, table)

\* Nothing the user typed, or put in the cart, is thrown away: save what came
\* while a save, or the record itself, was on its way.
NothingLost == lost \subseteq late

\* Nothing is stored twice from one form or cart, unless the first save failed
\* for all the page knew, or the page does not disable its button.
NothingTwice == screen.guard # "none" => twice \subseteq unsure

\* A button disabled or a list hidden is so because of a call under way; or for
\* good, after a failure its page has no handler for.
FlagsExplained ==
    /\ saving => \/ InFlight("save") \/ InFlight("sale") \/ left
                 \/ screen.guard = "success" /\ "save" \in failed
    /\ loading => \/ InFlight("load") \/ InFlight("record") \/ left
                  \/ screen.spinner = "success" /\ "load" \in failed
=============================================================================
