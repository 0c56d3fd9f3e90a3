------------------------------- MODULE Catalog -------------------------------
(***************************************************************************)
(* CategoriesService and UnitsService: a forest of categories, and units   *)
(* of two levels. Each check is a statement of its own and reads a table   *)
(* others may change before the write. Names and multipliers are left out. *)
(* Products composes this module with the products that refer to both.     *)
(***************************************************************************)
EXTENDS Requests

CONSTANTS Category, Unit, \* ids, existing or to come
          Seed            \* those that exist at the start

VARIABLES cats, units  \* rows: functions on the existing ids

catalogVars == <<cats, units>>

None == "none"
Categories == <<"categories">>
Units == <<"units">>
\* Kinds of request of which two at a time can break what each has checked.
Rivals == {{"moveCategory"}, {"addCategory", "dropCategory"}, {"moveCategory", "dropCategory"},
           {"rebaseUnit"}, {"addUnit", "rebaseUnit"}, {"addUnit", "dropUnit"},
           {"rebaseUnit", "dropUnit"}}

ASSUME CatalogAssumption == /\ Seed \subseteq Category \cup Unit
                            /\ None \notin Category \cup Unit
                            /\ IsFiniteSet(Category)

CatalogOK ==
    /\ DOMAIN cats \subseteq Category
    /\ \A c \in DOMAIN cats : cats[c] \in [parent : Category \cup {None}, live : BOOLEAN]
    /\ DOMAIN units \subseteq Unit
    /\ \A u \in DOMAIN units : units[u] \in [base : Unit \cup {None}, live : BOOLEAN]

CatalogInit ==
    /\ cats = [c \in Category \cap Seed |-> [parent |-> None, live |-> TRUE]]
    /\ units = [u \in Unit \cap Seed |-> [base |-> None, live |-> TRUE]]

\* A row is inserted or replaced.
Put(table, id, row) == [x \in DOMAIN table \cup {id} |-> IF x = id THEN row ELSE table[x]]
Rows(table) == {x \in DOMAIN table : table[x].live}

-----------------------------------------------------------------------------
(***************************************************************************)
(* Categories.                                                             *)
(***************************************************************************)
Children(c) == {x \in Rows(cats) : cats[x].parent = c}

\* create: the parent, if there is one, exists.
FindParent(r) ==
    \E p \in Rows(cats) \cup {None} :
        /\ Begin(r, "insertCategory", [on |-> Categories, kind |-> "addCategory", parent |-> p],
                 Rivals)
        /\ UNCHANGED <<cats, units>>

InsertCategory(r) ==
    /\ pc[r] = "insertCategory"
    /\ \E c \in Category \ DOMAIN cats :
          cats' = Put(cats, c, [parent |-> req[r].parent, live |-> TRUE])
    /\ Go(r, "insertCategory", "ok")
    /\ UNCHANGED units

\* update finds the category; the parent asked for is another, or none.
FindToMove(r) ==
    \E c \in Rows(cats), p \in DOMAIN cats \cup {None} :
        /\ p # c
        /\ Begin(r, IF p = None THEN "moveCategory" ELSE "findNewParent",
                 [on |-> Categories, kind |-> "moveCategory", id |-> c, parent |-> p,
                  at |-> p, visited |-> {p}], Rivals)
        /\ UNCHANGED <<cats, units>>

FindNewParent(r) ==
    /\ pc[r] = "findNewParent"
    /\ Go(r, "findNewParent", IF req[r].parent \in Rows(cats) THEN "walk" ELSE "refused")
    /\ UNCHANGED catalogVars

\* Mutant: the two categories are swapped, so that it walks up from the one that moves.
WalkSwapped(r) ==
    /\ pc[r] = "walk"
    /\ Go(r, "walk",
          IF cats[req[r].id].parent = req[r].parent THEN "refused" ELSE "moveCategory")
    /\ UNCHANGED catalogVars

\* checkCircularReference: one lookup for each ancestor of the new parent. It
\* ends at a root, at a category seen before (there is a circle already), or at
\* the category itself, which is refused.
Walk(r) ==
    LET h == req[r]
        up == cats[h.at].parent
    IN  /\ pc[r] = "walk"
        /\ IF up = h.id THEN Go(r, "walk", "refused")
           ELSE IF up \in h.visited \cup {None} THEN Go(r, "walk", "moveCategory")
           ELSE Hold(r, "walk", "walk", [h EXCEPT !.at = up, !.visited = @ \cup {up}])
        /\ UNCHANGED catalogVars

MoveCategory(r) ==
    /\ pc[r] = "moveCategory"
    /\ cats' = [cats EXCEPT ![req[r].id].parent = req[r].parent]
    /\ Go(r, "moveCategory", "ok")
    /\ UNCHANGED units

\* remove: no live category is below it.
FindToDrop(r) ==
    \E c \in Rows(cats) :
        /\ Children(c) = {}
        /\ Begin(r, "dropCategory", [on |-> Categories, kind |-> "dropCategory", id |-> c], Rivals)
        /\ UNCHANGED <<cats, units>>

DropCategory(r) ==
    /\ pc[r] = "dropCategory"
    /\ cats' = [cats EXCEPT ![req[r].id].live = FALSE]
    /\ Go(r, "dropCategory", "ok")
    /\ UNCHANGED units
-----------------------------------------------------------------------------
(***************************************************************************)
(* Units.                                                                  *)
(***************************************************************************)
Primary(u) == u \in Rows(units) /\ units[u].base = None
SubUnits(u) == {x \in Rows(units) : units[x].base = u}

\* create: the base unit, if there is one, has none itself.
FindBase(r) ==
    \E b \in {x \in DOMAIN units : Primary(x)} \cup {None} :
        /\ Begin(r, "insertUnit", [on |-> Units, kind |-> "addUnit", base |-> b], Rivals)
        /\ UNCHANGED <<cats, units>>

InsertUnit(r) ==
    /\ pc[r] = "insertUnit"
    /\ \E u \in Unit \ DOMAIN units :
          units' = Put(units, u, [base |-> req[r].base, live |-> TRUE])
    /\ Go(r, "insertUnit", "ok")
    /\ UNCHANGED cats

\* update finds the unit; taking its base unit away asks for no more.
FindUnit(r) ==
    \E u \in Rows(units), b \in DOMAIN units \cup {None} :
        /\ b # u
        /\ Begin(r, IF b = None THEN "storeUnit" ELSE "checkBase",
                 [on |-> Units, kind |-> "rebaseUnit", id |-> u, base |-> b], Rivals)
        /\ UNCHANGED <<cats, units>>

CheckBase(r) ==
    /\ pc[r] = "checkBase"
    /\ Go(r, "checkBase", IF Primary(req[r].base) THEN "countSubUnits" ELSE "refused")
    /\ UNCHANGED catalogVars

\* Mutant: the units below are forgotten.
SkipCountSubUnits(r) ==
    /\ pc[r] = "countSubUnits"
    /\ Go(r, "countSubUnits", "storeUnit")
    /\ UNCHANGED catalogVars

CountSubUnits(r) ==
    /\ pc[r] = "countSubUnits"
    /\ Go(r, "countSubUnits", IF SubUnits(req[r].id) = {} THEN "storeUnit" ELSE "refused")
    /\ UNCHANGED catalogVars

StoreUnit(r) ==
    /\ pc[r] = "storeUnit"
    /\ units' = [units EXCEPT ![req[r].id].base = req[r].base]
    /\ Go(r, "storeUnit", "ok")
    /\ UNCHANGED cats

\* remove: no live unit is below it. Products are not asked.
FindUnitToDrop(r) ==
    \E u \in Rows(units) :
        /\ SubUnits(u) = {}
        /\ Begin(r, "dropUnit", [on |-> Units, kind |-> "dropUnit", id |-> u], Rivals)
        /\ UNCHANGED <<cats, units>>

DropUnit(r) ==
    /\ pc[r] = "dropUnit"
    /\ units' = [units EXCEPT ![req[r].id].live = FALSE]
    /\ Go(r, "dropUnit", "ok")
    /\ UNCHANGED cats

CategoryStep(r) ==
    \/ FindParent(r) \/ InsertCategory(r)
    \/ FindToMove(r) \/ FindNewParent(r) \/ Walk(r) \/ MoveCategory(r)
    \/ FindToDrop(r) \/ DropCategory(r)

UnitStep(r) ==
    \/ FindBase(r) \/ InsertUnit(r)
    \/ FindUnit(r) \/ CheckBase(r) \/ CountSubUnits(r) \/ StoreUnit(r)
    \/ FindUnitToDrop(r) \/ DropUnit(r)
-----------------------------------------------------------------------------
(***************************************************************************)
(* Properties.                                                             *)
(***************************************************************************)
\* The categories above c, found by taking one parent after the other.
Above(c) ==
    LET up[n \in 0..Cardinality(Category)] ==
            IF n = 0 THEN {c}
            ELSE {cats[x].parent : x \in up[n - 1] \ {None}}
    IN  up

\* Following parents one comes to a root, and a category in use hangs below
\* categories in use. Only two moves at a time can close a circle; only a
\* category added or moved while its parent-to-be is removed hangs on nothing.
CategoriesFormAForest ==
    /\ ~Together(Categories, "moveCategory", "moveCategory") =>
          \A c \in DOMAIN cats : Above(c)[Cardinality(Category)] \subseteq {None}
    /\ (\A k \in {"addCategory", "moveCategory"} : ~Together(Categories, k, "dropCategory")) =>
          \A c \in Rows(cats) : cats[c].parent \in Rows(cats) \cup {None}

\* A unit in use counts in a primary unit in use or is primary, so a quantity
\* is converted once. Only a unit that gets a base unit, or goes, while another
\* is put below it breaks this.
UnitsHaveTwoLevels ==
    (\A a \in {"addUnit", "rebaseUnit"} :
        \A b \in {"rebaseUnit", "dropUnit"} : ~Together(Units, a, b)) =>
        \A u \in Rows(units) : Primary(u) \/ Primary(units[u].base)
=============================================================================
