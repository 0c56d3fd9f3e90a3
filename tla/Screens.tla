------------------------------- MODULE Screens -------------------------------
(***************************************************************************)
(* A page of the web application: a component with a list, a form, or      *)
(* both, over a table of the API. Most pages are of one make, and differ   *)
(* in a few features (module Pages says which page has which).             *)
(*                                                                         *)
(*   list    none | plain | views: it is loaded as the page opens and      *)
(*           after changes, with all rows, though the page may show some;  *)
(*           or the API is asked for a filter, a tab or a page of rows,    *)
(*           and again when another is chosen                              *)
(*   spinner none | ends | success: a flag is up while the list (or the    *)
(*           record) loads, which hides it; it comes down when the load    *)
(*           ends, or only when it succeeds                                *)
(*   form    none | new | edit | record | given: for new rows; for new     *)
(*           rows and those of the list; for the one row the page is       *)
(*           about, which it loads, or which it need not load              *)
(*   guard   none | ends | success: a flag is up while a save is under     *)
(*           way, which disables the button that saves                     *)
(*   after   reload | patch | leave | stay | linger: what follows a save:  *)
(*           the list is loaded anew, the row is put in the list, the page *)
(*           is left, nothing, or the page is left a while after, when a   *)
(*           picture has been sent or a timer runs out                     *)
(*   keyed   the API refuses a second row with the key of another          *)
(*   remove, toggle  none | reload | patch: rows of the list are deleted,  *)
(*           or their switch is changed, and what follows                  *)
(*                                                                         *)
(* What a user types is a number. Of the content of a row we keep what was *)
(* written last: such a number, or that it was switched, whichever way.    *)
(* JavaScript runs one handler at a time, so a step is a handler.          *)
(***************************************************************************)
EXTENDS Calls, FiniteSets

CONSTANTS Row,     \* numbered in the order in which the API lists them
          View,    \* the filters, tabs and pages to choose from
          All,     \* the one with nothing chosen, which is a page of rows all the same
          Fit,     \* which content passes the filter of which view
          Span,    \* of what passes, the places that are on the page of a view
          MaxDraft \* bound on what is typed

ASSUME DraftAssumption == MaxDraft \in Nat

VARIABLES screen,  \* the features of the page that is open
          table,   \* on the API: the rows there are
          view,    \* the one chosen
          shown,   \* the list on the page
          loading, saving, \* the flags
          form,    \* the row it is for, or New, and what is typed in it
          left,    \* the page was left
          typed,   \* history: numbers typed so far
          late,    \* history: those typed while a save or the record's load was in flight
          lost,    \* history: those that a handler threw away
          created, twice, \* history: those that made a row, and more than one
          unsure,  \* history: those of a new row whose save failed, for all the page knows
          failed,  \* history: kinds of call that failed
          clean    \* history: the list was loaded by a call that crossed no other

screenVars == <<screen, table, view, shown, loading, saving, form, left, typed, late, lost,
                created, twice, unsure, failed, clean>>

New == 0

\* No row has that for its number.
ASSUME RowAssumption == Row \subseteq Nat \ {New}

Nought == 0
Blank == [row |-> New, text |-> Nought]
Draft == 1..MaxDraft
Switched == MaxDraft + 1
Content == 0..Switched

ASSUME ViewAssumption ==
    /\ All \in View
    /\ Fit \subseteq View \X Content /\ \A x \in Content : <<All, x>> \in Fit
    /\ Span \in [View -> SUBSET Nat]

Features ==
    [list : {"none", "plain", "views"}, spinner : {"none", "ends", "success"},
     form : {"none", "new", "edit", "record", "given", "cart"}, guard : {"none", "ends", "success"},
     after : {"reload", "patch", "leave", "stay", "linger"},
     remove : {"none", "reload", "patch"}, toggle : {"none", "reload", "patch"},
     keyed : BOOLEAN]

Tables == UNION {[R -> Content] : R \in SUBSET Row}
Without(f, x) == [y \in DOMAIN f \ {x} |-> f[y]]
With(f, x, v) == [y \in DOMAIN f \cup {x} |-> IF y = x THEN v ELSE f[y]]
SwitchIn(f, x) == [y \in DOMAIN f |-> IF y = x THEN Switched ELSE f[y]]

\* What the API answers when asked for all rows, or for those of a view.
Fitting(v, f) == [x \in {y \in DOMAIN f : <<v, f[y]>> \in Fit} |-> f[x]]
Paged(v, f) ==
    [x \in {y \in DOMAIN f : Cardinality({z \in DOMAIN f : z < y}) \in Span[v]} |-> f[x]]
ListOf(v, f) == IF screen.list = "plain" THEN f ELSE Paged(v, Fitting(v, f))

\* A list as it was loaded; it is patched once a row of it was deleted or changed.
Loaded(v, rows) == [view |-> v, rows |-> rows, patched |-> FALSE]

HasList == screen.list # "none"
Patches == "patch" \in {screen.after, screen.remove, screen.toggle}

\* What a page loads as it opens.
Opening(s, v, x) ==
    IF s.list # "none" THEN Out("load", v)
    ELSE IF s.form = "record" THEN Out("record", x) ELSE Idle

\* A page that makes rows opens with one there is, other pages with all.
ScreenInit(s) ==
    /\ screen = s
    /\ \E R \in (IF s.form = "none" THEN {Row} ELSE {{x} : x \in Row}) :
           table = [x \in R |-> Nought]
    /\ view \in (IF s.list = "views" THEN View ELSE {All})
    /\ shown = Loaded(view, <<>>)
    /\ saving = FALSE
    /\ loading = (s.spinner # "none")
    /\ \E x \in DOMAIN table :
           /\ form = IF s.form \in {"record", "given"} THEN [Blank EXCEPT !.row = x] ELSE Blank
           /\ CallsInit(Opening(s, view, x))
    /\ left = FALSE
    /\ typed = 0
    /\ late = {} /\ lost = {} /\ created = {} /\ twice = {} /\ unsure = {} /\ failed = {}
    /\ clean = TRUE

\* Call c crosses no other that could bring the list what is out of date.
Alone(c) == \A d \in Call \ {c} : calls[d].kind = "load" \/ Patches => calls[d] = Idle
Changing(c) == clean' = (clean /\ (Patches => \A d \in Call \ {c} : calls[d] = Idle))
Load(v) == Out("load", v)
Loading(c) == loading' = (screen.spinner # "none") /\ clean' = Alone(c)
Listed == IF screen.spinner # "none" /\ loading THEN {} ELSE DOMAIN shown.rows
-----------------------------------------------------------------------------
(***************************************************************************)
(* The user.                                                               *)
(***************************************************************************)
ChangeView(c) ==
    /\ screen.list = "views"
    /\ \E v \in View : view' = v /\ Send(c, Load(v))
    /\ Loading(c)
    /\ UNCHANGED <<screen, table, shown, saving, form, left, typed, late, lost, created, twice,
                   unsure, failed>>

\* The button of a row fills the form with it.
StartEdit ==
    /\ screen.form = "edit"
    /\ \E x \in Listed : form' = [row |-> x, text |-> Nought]
    /\ UNCHANGED <<callVars, screen, table, view, shown, loading, saving, left, typed, late, lost,
                   created, twice, unsure, failed, clean>>

\* The form is emptied, or closed.
Cancel ==
    /\ screen.form \in {"new", "edit"}
    /\ form' = Blank
    /\ UNCHANGED <<callVars, screen, table, view, shown, loading, saving, left, typed, late, lost,
                   created, twice, unsure, failed, clean>>

\* While it loads, a record with a spinner has no form.
Visible == screen.form = "record" /\ screen.spinner # "none" => ~loading

\* The user types on while calls are under way: no form is disabled meanwhile.
Type ==
    /\ screen.form \in {"new", "edit", "record", "given"}
    /\ Visible
    /\ typed < MaxDraft
    /\ typed' = typed + 1
    /\ form' = [form EXCEPT !.text = typed + 1]
    /\ late' = IF InFlight("save") \/ InFlight("record") \/ InFlight("linger")
               THEN late \cup {typed + 1} ELSE late
    /\ UNCHANGED <<callVars, screen, table, view, shown, loading, saving, left, lost, created,
                   twice, unsure, failed, clean>>

\* Mutant: the button is never disabled.
SaveUnguarded(c) ==
    /\ form.text # Nought
    /\ Visible
    /\ Send(c, Out("save", form))
    /\ saving' = (screen.guard # "none")
    /\ Changing(c)
    /\ UNCHANGED <<screen, table, view, shown, loading, form, left, typed, late, lost, created,
                   twice, unsure, failed>>

\* The form is valid, and its button enabled.
Save(c) ==
    /\ form.text # Nought
    /\ Visible
    /\ screen.guard # "none" => ~saving
    /\ Send(c, Out("save", form))
    /\ saving' = (screen.guard # "none")
    /\ Changing(c)
    /\ UNCHANGED <<screen, table, view, shown, loading, form, left, typed, late, lost, created,
                   twice, unsure, failed>>

\* The button that deletes a row, and the one that switches it.
Press(c, kind) ==
    /\ \E x \in Listed : Send(c, Out(kind, x))
    /\ Changing(c)
    /\ UNCHANGED <<screen, table, view, shown, loading, saving, form, left, typed, late, lost,
                   created, twice, unsure, failed>>
Remove(c) == screen.remove # "none" /\ Press(c, "remove")
Toggle(c) == screen.toggle # "none" /\ Press(c, "toggle")
-----------------------------------------------------------------------------
(***************************************************************************)
(* The API, as far as the page can tell.                                   *)
(***************************************************************************)
apiRest == <<screen, view, shown, loading, saving, form, left, typed, late, lost, unsure, failed, clean>>

\* From the table: a list that the API keeps in its cache is module Products' affair.
ServeLoad(c) ==
    /\ At(c, "load", "out")
    /\ Answer(c, Loaded(calls[c].about, ListOf(calls[c].about, table)))
    /\ UNCHANGED <<apiRest, table, created, twice>>

ServeAsked(c) ==
    /\ At(c, "record", "out") \/ At(c, "linger", "out")
    /\ Answer(c, "done")
    /\ UNCHANGED <<apiRest, table, created, twice>>

\* A row is made, unless there is one like it.
ServeNew(c) ==
    /\ At(c, "save", "out")
    /\ calls[c].about.row = New
    /\ LET d == calls[c].about.text
       IN  \/ /\ screen.keyed /\ d \in created
              /\ Refuse(c)
              /\ UNCHANGED <<table, created, twice>>
           \/ /\ ~(screen.keyed /\ d \in created)
              /\ \E x \in Row \ DOMAIN table :
                     /\ table' = With(table, x, d)
                     /\ Answer(c, [row |-> x, text |-> d])
              /\ created' = created \cup {d}
              /\ twice' = twice \cup (created \cap {d})
    /\ UNCHANGED apiRest

\* A row is changed if it is still there.
ServeEdit(c) ==
    /\ At(c, "save", "out")
    /\ calls[c].about.row # New
    /\ LET s == calls[c].about
       IN  \/ /\ s.row \in DOMAIN table
              /\ table' = [table EXCEPT ![s.row] = s.text]
              /\ Answer(c, s)
           \/ /\ s.row \notin DOMAIN table
              /\ Refuse(c)
              /\ UNCHANGED table
    /\ UNCHANGED <<apiRest, created, twice>>

ServeRemove(c) ==
    /\ At(c, "remove", "out")
    /\ LET x == calls[c].about
       IN  \/ x \in DOMAIN table /\ table' = Without(table, x) /\ Answer(c, x)
           \/ x \notin DOMAIN table /\ Refuse(c) /\ UNCHANGED table
    /\ UNCHANGED <<apiRest, created, twice>>

ServeToggle(c) ==
    /\ At(c, "toggle", "out")
    /\ LET x == calls[c].about
       IN  \/ /\ x \in DOMAIN table
              /\ table' = [table EXCEPT ![x] = Switched]
              /\ Answer(c, x)
           \/ x \notin DOMAIN table /\ Refuse(c) /\ UNCHANGED table
    /\ UNCHANGED <<apiRest, created, twice>>

Serve(c) == \/ ServeLoad(c) \/ ServeAsked(c) \/ ServeNew(c) \/ ServeEdit(c)
            \/ ServeRemove(c) \/ ServeToggle(c)
-----------------------------------------------------------------------------
(***************************************************************************)
(* The handlers of the answers.                                            *)
(***************************************************************************)
userRest == <<screen, table, view, typed, late, created, twice>>

\* The list takes whatever the answer brings, for whatever it was asked.
TakeList(c) ==
    /\ At(c, "load", "served")
    /\ shown' = calls[c].answer
    /\ loading' = FALSE
    /\ Follow(c, Idle)
    /\ UNCHANGED <<userRest, saving, form, left, lost, unsure, failed, clean>>

\* The record fills the form, over what was typed.
TakeRecord(c) ==
    /\ At(c, "record", "served")
    /\ form' = [form EXCEPT !.text = Nought]
    /\ lost' = lost \cup ({form.text} \ {Nought})
    /\ loading' = FALSE
    /\ Follow(c, Idle)
    /\ UNCHANGED <<userRest, shown, saving, left, unsure, failed, clean>>

\* Mutant: the flag is not taken down.
EndSaveStuck == UNCHANGED saving

\* The form is emptied after a save, and with it what was typed meanwhile.
EndSave == saving' = FALSE
Discard(d) == lost' = lost \cup ({form.text} \ {Nought, d})

Saved(c, after) == At(c, "save", "served") /\ screen.after = after

SavedReload(c) ==
    /\ Saved(c, "reload")
    /\ EndSave
    /\ form' = Blank
    /\ Discard(calls[c].about.text)
    /\ Follow(c, IF HasList THEN Load(view) ELSE Idle)
    /\ IF HasList THEN Loading(c) ELSE UNCHANGED <<loading, clean>>
    /\ UNCHANGED <<userRest, shown, left, unsure, failed>>

SavedPatch(c) ==
    /\ Saved(c, "patch")
    /\ EndSave
    /\ form' = Blank
    /\ LET s == calls[c].answer
       IN  /\ Discard(s.text)
           /\ shown' = IF calls[c].about.row = New \/ s.row \in DOMAIN shown.rows
                       THEN [shown EXCEPT !.rows = With(@, s.row, s.text), !.patched = TRUE]
                       ELSE shown
    /\ Follow(c, Idle)
    /\ UNCHANGED <<userRest, loading, left, unsure, failed, clean>>

SavedLeave(c) ==
    /\ Saved(c, "leave")
    /\ left' = TRUE
    /\ Discard(calls[c].about.text)
    /\ Follow(c, Idle)
    /\ UNCHANGED <<userRest, shown, loading, saving, form, unsure, failed, clean>>

SavedStay(c) ==
    /\ Saved(c, "stay")
    /\ EndSave
    /\ Follow(c, Idle)
    /\ UNCHANGED <<userRest, shown, loading, form, left, lost, unsure, failed, clean>>

\* The button is enabled again while the picture is on its way; without one the
\* page is left at once.
SavedLinger(c) ==
    /\ Saved(c, "linger")
    /\ EndSave
    /\ \/ /\ Follow(c, Out("linger", calls[c].about.text))
          /\ UNCHANGED <<left, lost>>
       \/ /\ left' = TRUE
          /\ Discard(calls[c].about.text)
          /\ Follow(c, Idle)
    /\ UNCHANGED <<userRest, shown, loading, form, unsure, failed, clean>>

\* With the picture stored, or without it, the page is left.
Lingered(c) ==
    /\ calls[c].kind = "linger"
    /\ calls[c].stage \in {"served", "failed"}
    /\ left' = TRUE
    /\ Discard(calls[c].about)
    /\ Follow(c, Idle)
    /\ UNCHANGED <<userRest, shown, loading, saving, form, unsure, failed, clean>>

\* Mutant: the list is left as it is.
RemovedUnseen(c) ==
    /\ At(c, "remove", "served")
    /\ Follow(c, Idle)
    /\ UNCHANGED <<userRest, shown, loading, saving, form, left, lost, unsure, failed, clean>>

Removed(c) ==
    /\ At(c, "remove", "served")
    /\ \/ /\ screen.remove = "reload"
          /\ Follow(c, Load(view))
          /\ Loading(c)
          /\ UNCHANGED shown
       \/ /\ screen.remove = "patch"
          /\ shown' = [shown EXCEPT !.rows = Without(@, calls[c].about), !.patched = TRUE]
          /\ Follow(c, Idle)
          /\ UNCHANGED <<loading, clean>>
    /\ UNCHANGED <<userRest, saving, form, left, lost, unsure, failed>>

Toggled(c) ==
    /\ At(c, "toggle", "served")
    /\ \/ /\ screen.toggle = "reload"
          /\ Follow(c, Load(view))
          /\ Loading(c)
          /\ UNCHANGED shown
       \/ /\ screen.toggle = "patch"
          /\ shown' = [shown EXCEPT !.rows = SwitchIn(@, calls[c].about), !.patched = TRUE]
          /\ Follow(c, Idle)
          /\ UNCHANGED <<loading, clean>>
    /\ UNCHANGED <<userRest, saving, form, left, lost, unsure, failed>>

\* A call that fails leaves list and form as they are; its flag comes down if
\* the handler of errors sees to it. Some pages are left when there is no record.
LoadFails(c) ==
    /\ \/ At(c, "load", "failed") /\ UNCHANGED left
       \/ At(c, "record", "failed") /\ left' \in {left, TRUE}
    /\ screen.form # "cart"
    /\ loading' = (loading /\ screen.spinner = "success")
    /\ failed' = failed \cup {"load"}
    /\ clean' = FALSE
    /\ Follow(c, Idle)
    /\ UNCHANGED <<userRest, shown, saving, form, lost, unsure>>

\* What a save makes a row of.
Making(s) == IF s.row = New THEN {s.text} ELSE {}

\* Mutant: the handler of errors empties the form as the other does.
SaveFailsBlank(c) ==
    /\ At(c, "save", "failed")
    /\ saving' = (saving /\ screen.guard = "success")
    /\ form' = Blank
    /\ lost' = lost \cup ({form.text} \ {Nought})
    /\ unsure' = unsure \cup Making(calls[c].about)
    /\ failed' = failed \cup {"save"}
    /\ clean' = FALSE
    /\ Follow(c, Idle)
    /\ UNCHANGED <<userRest, shown, loading, left>>

SaveFails(c) ==
    /\ At(c, "save", "failed")
    /\ saving' = (saving /\ screen.guard = "success")
    /\ unsure' = unsure \cup Making(calls[c].about)
    /\ failed' = failed \cup {"save"}
    /\ clean' = FALSE
    /\ Follow(c, Idle)
    /\ UNCHANGED <<userRest, shown, loading, form, left, lost>>

PressFails(c) ==
    /\ At(c, "remove", "failed") \/ At(c, "toggle", "failed")
    /\ clean' = FALSE
    /\ Follow(c, Idle)
    /\ UNCHANGED <<userRest, shown, loading, saving, form, left, lost, unsure, failed>>

Receive(c) ==
    \/ TakeList(c) \/ TakeRecord(c)
    \/ SavedReload(c) \/ SavedPatch(c) \/ SavedLeave(c) \/ SavedStay(c)
    \/ SavedLinger(c) \/ Lingered(c)
    \/ Removed(c) \/ Toggled(c)
    \/ LoadFails(c) \/ SaveFails(c) \/ PressFails(c)

ScreenStep ==
    \/ StartEdit \/ Cancel \/ Type
    \/ \E c \in Call : \/ ChangeView(c) \/ Save(c) \/ Remove(c) \/ Toggle(c)
                       \/ Serve(c) \/ Receive(c)
                       \/ Lose(c) /\ UNCHANGED screenVars
=============================================================================
