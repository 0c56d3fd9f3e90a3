----------------------------- MODULE Composites -----------------------------
(***************************************************************************)
(* Two things the API makes in several statements with no transaction      *)
(* around them: a stock adjustment (the row, its lines, its total) and a   *)
(* business (the row, then the user who founded it moves into it). Stock   *)
(* adjustments are records only: no row of the stock ledger comes of one.  *)
(***************************************************************************)
EXTENDS Requests

CONSTANTS Adjustment, Business, \* ids
          Founder               \* users

VARIABLES adjustments, \* function on the ids there are: what the lines come to, the total
          founded,     \* function on the businesses there are: by whom
          place,       \* the business a user belongs to
          partial      \* history: <<kind, id>> of what was cut short in the making

compositeVars == <<adjustments, founded, place, partial>>

NoBusiness == <<>>
Lines == {0, 1}  \* with no lines, or with some

CompositesInit ==
    /\ adjustments = <<>> /\ founded = <<>>
    /\ place = [u \in Founder |-> NoBusiness]
    /\ partial = {}

CompositesOK ==
    /\ DOMAIN adjustments \subseteq Adjustment
    /\ \A a \in DOMAIN adjustments : adjustments[a] \in [lines : Lines, total : Lines]
    /\ DOMAIN founded \subseteq Business
    /\ \A u \in Founder : place[u] \in DOMAIN founded \cup {NoBusiness}

Gone(a) == a \notin DOMAIN adjustments

\* A table with one more row.
With(rows, id, row) ==
    [x \in DOMAIN rows \cup {id} |-> IF x = id THEN row ELSE rows[x]]
-----------------------------------------------------------------------------
\* The row first, without lines and with no total.
CreateAdjustment(r) ==
    \E a \in Adjustment \ DOMAIN adjustments, n \in Lines :
        /\ Begin(r, IF n = 0 THEN "ok" ELSE "addLines",
                 [on |-> "adjustments", kind |-> "create", id |-> a, lines |-> n], {})
        /\ \A q \in Request : Busy(q) => req[q].id # a
        /\ adjustments' = With(adjustments, a, [lines |-> 0, total |-> 0])
        /\ partial' = partial \ {<<"create", a>>}
        /\ UNCHANGED <<founded, place>>

AddLines(r) ==
    LET h == req[r]
    IN  /\ pc[r] = "addLines"
        /\ IF Gone(h.id)
           THEN Go(r, "addLines", "error") /\ UNCHANGED adjustments
           ELSE /\ Go(r, "addLines", "addUp")
                /\ adjustments' = [adjustments EXCEPT ![h.id].lines = h.lines]
        /\ UNCHANGED <<founded, place, partial>>

\* Mutant: the total is left for later.
AddUpLater(r) ==
    /\ pc[r] = "addUp"
    /\ Go(r, "addUp", "ok")
    /\ UNCHANGED compositeVars

AddUp(r) ==
    LET h == req[r]
    IN  /\ pc[r] = "addUp"
        /\ IF Gone(h.id)
           THEN Go(r, "addUp", "error") /\ UNCHANGED adjustments
           ELSE /\ Go(r, "addUp", "ok")
                /\ adjustments' = [adjustments EXCEPT ![h.id].total = h.lines]
        /\ UNCHANGED <<founded, place, partial>>

\* An update leaves lines and total alone, a deletion takes the lines along.
FindAdjustment(r) ==
    \E a \in DOMAIN adjustments, next \in {"updateAdjustment", "deleteAdjustment"} :
        /\ Arrive(r, next, [on |-> "adjustments", kind |-> "other", id |-> a])
        /\ UNCHANGED compositeVars

UpdateAdjustment(r) ==
    /\ pc[r] = "updateAdjustment"
    /\ Go(r, "updateAdjustment", IF Gone(req[r].id) THEN "error" ELSE "ok")
    /\ UNCHANGED compositeVars

DeleteAdjustment(r) ==
    LET a == req[r].id
    IN  /\ pc[r] = "deleteAdjustment"
        /\ Go(r, "deleteAdjustment", IF Gone(a) THEN "error" ELSE "ok")
        /\ adjustments' = [x \in DOMAIN adjustments \ {a} |-> adjustments[x]]
        /\ UNCHANGED <<founded, place, partial>>
-----------------------------------------------------------------------------
CreateBusiness(r) ==
    \E b \in Business \ DOMAIN founded, u \in Founder :
        /\ Begin(r, "moveIn", [on |-> u, kind |-> "found", id |-> b], {{"found"}})
        /\ founded' = With(founded, b, u)
        /\ UNCHANGED <<adjustments, place, partial>>

MoveIn(r) ==
    LET h == req[r]
    IN  /\ pc[r] = "moveIn"
        /\ Go(r, "moveIn", "ok")
        /\ place' = [place EXCEPT ![h.on] = h.id]
        /\ UNCHANGED <<adjustments, founded, partial>>

MadeBy(rs) == {<<req[r].kind, req[r].id>> : r \in {q \in rs : Busy(q)}}

\* What requests leave behind that end early.
PartialBy(rs) ==
    /\ partial' = partial \cup MadeBy(rs)
    /\ UNCHANGED <<adjustments, founded, place>>

CompositesNext ==
    \/ \E r \in Request :
          \/ CreateAdjustment(r) \/ AddLines(r) \/ AddUp(r)
          \/ FindAdjustment(r) \/ UpdateAdjustment(r) \/ DeleteAdjustment(r)
          \/ CreateBusiness(r) \/ MoveIn(r)
    \/ \E r \in Request : Fail(r) /\ PartialBy({r})
    \/ Halt /\ PartialBy(Request)

CompositesSpec == RequestInit /\ CompositesInit /\ [][CompositesNext]_<<requestVars, compositeVars>>
-----------------------------------------------------------------------------
\* The total of an adjustment is that of its lines, and every business has its
\* founder in it, unless it is still being made or that was cut short, or the founder
\* has founded another.
HalvesExplained ==
    /\ \A a \in DOMAIN adjustments :
          \/ <<"create", a>> \in partial \cup MadeBy(Request)
          \/ adjustments[a].lines = adjustments[a].total
    /\ \A b \in DOMAIN founded :
          \/ <<"found", b>> \in partial \cup MadeBy(Request)
          \/ place[founded[b]] = b
          \/ \E other \in DOMAIN founded \ {b} : founded[other] = founded[b]
=============================================================================
