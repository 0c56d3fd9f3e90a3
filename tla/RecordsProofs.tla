---------------------------- MODULE RecordsProofs ----------------------------
(***************************************************************************)
(* The records of the twenty services that keep plain ones: KeysExplained  *)
(* and PostingsExplained, for any number of rows, keys and requests. Then  *)
(* the figures that are read of the books: StatementsAgree.                *)
(*                                                                         *)
(* A request about to write a key is the only one, and the key is free; a  *)
(* number that counts rows is larger than all there are. An account about  *)
(* to go has no postings on it, one about to be posted to is not closed.   *)
(* All this unless rivals were under way together, or the property says    *)
(* that the table is out of order. What a request holds is said of the     *)
(* statement now and of what it holds, h.                                  *)
(***************************************************************************)
EXTENDS Records, Reports, SumProofs, FiniteSetTheorems, TLAPS

USE DEF Answered

(***************************************************************************)
(* The steps of requests, which all services over Requests share.          *)
(***************************************************************************)
\* Requests race with those that are about the same.
LEMMA BeginRaces ==
  ASSUME NEW r, NEW next, NEW h, NEW rivals, NEW q \in Request, NEW a, NEW b,
         Begin(r, next, h, rivals), Busy(q), "on" \in DOMAIN req[q], req[q].on = h.on,
         h.kind = a, req[q].kind = b, {a, b} \in rivals
  PROVE  Together(h.on, a, b)'
<1> DEFINE here == {p \in Request : Busy(p) /\ "on" \in DOMAIN req[p] /\ req[p].on = h.on}
           pairs == {<<h.on, {h.kind, req[p].kind}>> : p \in here}
<1>1. q \in here
  OBVIOUS
<1>2. <<h.on, {a, b}>> \in pairs
  BY <1>1
<1>3. <<h.on, {a, b}>> \in {h.on} \X rivals
  OBVIOUS
<1>4. raced' = raced \cup (pairs \cap ({h.on} \X rivals))
  BY DEF Begin
<1> QED
  BY <1>2, <1>3, <1>4 DEF Together

\* Every request is at some statement and holds something; one moves at a time.
Wired == DOMAIN pc = Request /\ DOMAIN req = Request
Alone(r) == \A q \in Request \ {r} : pc'[q] = pc[q] /\ req'[q] = req[q]

LEMMA WiredInitial == RequestInit => Wired /\ \A r \in Request : pc[r] = "new"
BY DEF RequestInit, Wired

LEMMA StartMoves ==
  ASSUME Wired, NEW r \in Request, NEW next, NEW h, Start(r, next, h)
  PROVE  /\ Wired' /\ Alone(r) /\ pc[r] = "new" /\ pc'[r] = next
         /\ next \notin Answered => req'[r] = h
BY DEF Start, Wired, Alone

LEMMA BeginMoves ==
  ASSUME Wired, NEW r \in Request, NEW next, NEW h, NEW rivals, Begin(r, next, h, rivals)
  PROVE  /\ Wired' /\ Alone(r) /\ pc[r] = "new" /\ pc'[r] = next
         /\ next \notin Answered => req'[r] = h
         /\ raced \subseteq raced'
<1>1. Start(r, next, h) /\ raced \subseteq raced'
  BY DEF Begin
<1> QED
  BY <1>1, StartMoves

LEMMA ArriveMoves ==
  ASSUME Wired, NEW r \in Request, NEW next, NEW h, Arrive(r, next, h)
  PROVE  /\ Wired' /\ Alone(r) /\ pc[r] = "new" /\ pc'[r] = next
         /\ next \notin Answered => req'[r] = h
         /\ raced' = raced
BY StartMoves DEF Arrive

LEMMA GoMoves ==
  ASSUME Wired, NEW r \in Request, NEW now, NEW next, Go(r, now, next)
  PROVE  /\ Wired' /\ Alone(r) /\ pc[r] = now /\ pc'[r] = next
         /\ next \notin Answered => req'[r] = req[r]
         /\ raced' = raced
BY DEF Go, Wired, Alone

LEMMA HoldMoves ==
  ASSUME Wired, NEW r \in Request, NEW now, NEW next, NEW h, Hold(r, now, next, h)
  PROVE  /\ Wired' /\ Alone(r) /\ pc[r] = now /\ pc'[r] = next /\ req'[r] = h
         /\ raced' = raced
BY DEF Hold, Wired, Alone

LEMMA FailMoves ==
  ASSUME Wired, NEW r \in Request, Fail(r)
  PROVE  Wired' /\ Alone(r) /\ Busy(r) /\ pc'[r] = "error" /\ raced' = raced
BY DEF Fail, Wired, Alone

LEMMA HaltMoves ==
  ASSUME Wired, Halt
  PROVE  /\ Wired' /\ raced' = raced
         /\ \A q \in Request : ~Busy(q)' /\ (~Busy(q) => pc'[q] = pc[q])
BY DEF Halt, Wired, Busy
-----------------------------------------------------------------------------
(***************************************************************************)
(* What requests hold and have found.                                      *)
(***************************************************************************)
IsSaver(now, h) ==
    now \in {"insertRow", "writeRow", "importContact", "insertContact"} /\ h.kind = "save"
IsPoster(now, h) == now = "insertRow" /\ h.kind = "post"
IsCloser(now, h) == now = "writeRow" /\ h.closing = "close"
IsEmptying(now, h) == now \in {"countBelow", "dropRow"} /\ h.counted

Saves(r) == IsSaver(pc[r], req[r])
Posts(r) == IsPoster(pc[r], req[r])
Closes(r) == IsCloser(pc[r], req[r])
Empties(r) == IsEmptying(pc[r], req[r])

SavesRaced(t) == Together(AllOf(t), "save", "save")
DropsRaced(x) == Together(x, "post", "drop")
ClosingsRaced(x) == Together(x, "post", "change")

\* What a request holds.
HoldsRow(h) ==
    /\ "on" \in DOMAIN h /\ h.table \in Tables /\ h.kind \in {"part", "save", "post"}
    /\ h.of # NoRow => h.of[1] = Schema[h.table].of
    /\ h.kind = "save" => h.on = AllOf(h.table) /\ h.key \in Nat
    /\ h.kind # "save" => h.key = NoKey /\ h.table \notin Numbered
    /\ h.kind = "post" => h.on = h.of /\ h.of \in {"account"} \X Nat
    /\ h.kind # "post" => h.table # "posting"
HoldsChange(h) ==
    /\ "on" \in DOMAIN h /\ h.kind \in {"save", "change"}
    /\ h.kind = "save" => h.on = AllOf("contact") /\ h.id[1] = "contact" /\ h.key \in Nat
    /\ h.kind = "change" => h.checked = (h.key = NoKey)
    /\ h.closing = "close" => h.kind = "change" /\ h.on = h.id
HoldsDrop(h) ==
    /\ "on" \in DOMAIN h /\ h.kind = "drop" /\ h.on = h.id
    /\ h.id[1] # "assetTransaction" /\ h.counted \in BOOLEAN
    /\ h.counted => h.id \in {"accountType", "account"} \X Nat
HoldsImport(h) == "on" \in DOMAIN h /\ h.kind = "save" /\ h.on = AllOf("contact")

HoldsRecord(now, h) ==
    /\ now \in Answered \cup {"new", "insertRow", "writeRow", "countBelow", "dropRow",
                              "storeRecipe", "importContact", "insertContact"}
    /\ now = "insertRow" => HoldsRow(h)
    /\ now = "writeRow" => HoldsChange(h)
    /\ now \in {"countBelow", "dropRow"} => HoldsDrop(h)
    /\ now = "countBelow" => h.counted
    /\ now \in {"importContact", "insertContact"} => HoldsImport(h)
    /\ now = "insertContact" => h.key \in Nat
    /\ now = "storeRecipe" => h.id \in {"recipe"} \X Nat

\* The table T is of rows, and each belongs where the schema says.
Placed(T, n) ==
    /\ n \in Nat
    /\ T = [x \in DOMAIN T |-> T[x]]
    /\ DOMAIN T \subseteq Tables \X (1..n)
    /\ \A x \in DOMAIN T :
          /\ T[x] \in [of : {T[x].of}, key : {T[x].key}, live : BOOLEAN, closed : BOOLEAN]
          /\ T[x].of # NoRow => T[x].of[1] = Schema[x[1]].of

\* A key of table t in T is one row's while in use; nobody but that row has key k.
KeysApart(T, t) ==
    \A x, y \in DOMAIN T :
        x[1] = t /\ y[1] = t /\ T[x].live /\ T[y].live /\ T[x].key = T[y].key /\ T[x].key # NoKey
            => x = y
KeyFree(T, t, k, but) == \A x \in DOMAIN T \ {but} : x[1] = t /\ T[x].live => T[x].key # k

\* They are no larger than the number of its rows.
RowsAt(T, t) == {x \in DOMAIN T : x[1] = t}
Size(T, t) == Cardinality(RowsAt(T, t))
UpToSize(T, t) == IsFiniteSet(RowsAt(T, t)) /\ \A x \in RowsAt(T, t) : T[x].key \in 1..Size(T, t)

\* What a request that is to write a key has found.
Finds(now, h, T, t) ==
    /\ now \in {"insertRow", "insertContact"} =>
          KeyFree(T, t, h.key, NoRow) /\ (t \in Numbered => h.key = Size(T, t) + 1)
    /\ now = "writeRow" => KeyFree(T, t, h.key, h.id)

OneSaver(t) ==
    \A r, q \in Request :
        Saves(r) /\ Saves(q) /\ req[r].on = AllOf(t) /\ req[q].on = AllOf(t) => r = q

Excused(t) == SavesRaced(t) \/ t \in unchecked \/ t \in Numbered \cap shrunk

KeysOK(t) ==
    \/ Excused(t)
    \/ /\ KeysApart(rows, t) /\ OneSaver(t)
       /\ t \in Numbered => UpToSize(rows, t)
       /\ \A r \in Request : Saves(r) /\ req[r].on = AllOf(t) => Finds(pc[r], req[r], rows, t)

\* Nothing in T belongs to x; x is closed.
Bare(T, x) == \A y \in DOMAIN T : T[y].of # x
Shut(T, x) == x \in DOMAIN T /\ T[x].closed

PostsOK ==
    /\ PostingsExplained
    /\ \A r, q \in Request :
          /\ Posts(r) /\ Empties(q) /\ req[r].on = req[q].on => DropsRaced(req[r].on)
          /\ Posts(r) /\ Closes(q) /\ req[r].on = req[q].on => ClosingsRaced(req[r].on)
    /\ \A r \in Request :
          /\ Posts(r) => ClosingsRaced(req[r].on) \/ ~Shut(rows, req[r].on)
          /\ Empties(r) /\ pc[r] = "dropRow" =>
                req[r].id[1] = "accountType" \/ DropsRaced(req[r].id) \/ Bare(rows, req[r].id)

IRecords ==
    /\ Wired /\ Placed(rows, lastId) /\ PostsOK
    /\ \A t \in Keyed : KeysOK(t)
    /\ \A r \in Request : HoldsRecord(pc[r], req[r])
-----------------------------------------------------------------------------
(* What the schema says of the tables that matter here. *)
WellMade(t, p) ==
    /\ p.of = "accountType" => t = "account" /\ p.gone = "restrict"
    /\ p.of = "account" => t = "posting"
    /\ p.of = "recipe" => t = "ingredient"
    /\ t = "expense" => p.drop = "soft" /\ p.of # "none"
    /\ t = "assetTransaction" => p.of # "none"
    /\ t = "posting" => p.of = "account"
    /\ t = "ingredient" => p.of = "recipe"

WellPlaced(f) == \A t \in DOMAIN f : WellMade(t, f[t])

LEMMA GroupsWellPlaced ==
  /\ WellPlaced(BrandTables) /\ WellPlaced(ContactTables) /\ WellPlaced(ExpenseTables)
  /\ WellPlaced(AccountTables) /\ WellPlaced(RestaurantTables) /\ WellPlaced(CrmTables)
  /\ WellPlaced(RecipeTables) /\ WellPlaced(RepairTables) /\ WellPlaced(AssetTables)
  /\ WellPlaced(ProjectTables) /\ WellPlaced(EssentialsTables) /\ WellPlaced(HmsTables)
  /\ WellPlaced(PackageTables) /\ WellPlaced(LocationTables) /\ WellPlaced(VariationTables)
  /\ WellPlaced(CustomerGroupTables) /\ WellPlaced(PriceGroupTables)
  /\ WellPlaced(DiscountTables) /\ WellPlaced(WarrantyTables) /\ WellPlaced(TemplateTables)
<1>1. /\ WellPlaced(BrandTables) /\ WellPlaced(ContactTables) /\ WellPlaced(ExpenseTables)
      /\ WellPlaced(AccountTables) /\ WellPlaced(RestaurantTables) /\ WellPlaced(CrmTables)
      /\ WellPlaced(RecipeTables) /\ WellPlaced(RepairTables) /\ WellPlaced(AssetTables)
      /\ WellPlaced(ProjectTables)
  BY DEF WellPlaced, WellMade, Plain, Part, BrandTables, ContactTables, ExpenseTables,
     AccountTables, RestaurantTables, CrmTables, RecipeTables, RepairTables, AssetTables,
     ProjectTables
<1>2. /\ WellPlaced(EssentialsTables) /\ WellPlaced(HmsTables)
      /\ WellPlaced(PackageTables) /\ WellPlaced(LocationTables) /\ WellPlaced(VariationTables)
      /\ WellPlaced(CustomerGroupTables) /\ WellPlaced(PriceGroupTables)
      /\ WellPlaced(DiscountTables) /\ WellPlaced(WarrantyTables) /\ WellPlaced(TemplateTables)
  BY DEF WellPlaced, WellMade, Plain, Part, EssentialsTables, HmsTables, PackageTables,
     LocationTables, VariationTables, CustomerGroupTables, PriceGroupTables, DiscountTables,
     WarrantyTables, TemplateTables
<1> QED
  BY <1>1, <1>2

LEMMA SchemaWellMade == \A t \in Tables : WellMade(t, Schema[t])
<1> SUFFICES ASSUME NEW t \in Tables PROVE WellMade(t, Schema[t])
  OBVIOUS
<1>1. PICK g : g = CHOOSE x \in Groups : t \in DOMAIN x
  OBVIOUS
<1>2. g \in Groups /\ t \in DOMAIN g
  BY <1>1 DEF Tables
<1>3. WellPlaced(g)
  BY <1>2, GroupsWellPlaced DEF Groups
<1>4. Schema[t] = g[t]
  BY <1>1 DEF Schema
<1> QED
  BY <1>2, <1>3, <1>4 DEF WellPlaced

\* The tables of a service are tables.
LEMMA ServiceTables == \A s \in DOMAIN Service : Service[s] \subseteq Tables
<1>1. \A g \in Groups : DOMAIN g \subseteq Tables
  BY DEF Tables
<1>2. \A s \in DOMAIN Service : \E g \in Groups : Service[s] = DOMAIN g
  BY DEF Service, Groups
<1> QED
  BY <1>1, <1>2

LEMMA SomeTables ==
  /\ Keyed \subseteq Tables
  /\ {"posting", "recipe", "ingredient", "account", "accountType"} \subseteq Tables
<1>1. /\ AccountTables \in Groups /\ ExpenseTables \in Groups /\ RecipeTables \in Groups
      /\ AssetTables \in Groups /\ ContactTables \in Groups /\ RestaurantTables \in Groups
  BY DEF Groups
<1>2. /\ {"account", "accountType", "posting"} \subseteq DOMAIN AccountTables
      /\ "expense" \in DOMAIN ExpenseTables /\ "contact" \in DOMAIN ContactTables
      /\ {"recipe", "ingredient"} \subseteq DOMAIN RecipeTables
      /\ "assetTransaction" \in DOMAIN AssetTables /\ "booking" \in DOMAIN RestaurantTables
  BY DEF AccountTables, ExpenseTables, ContactTables, RecipeTables, AssetTables, RestaurantTables
<1>3. \A g \in Groups : DOMAIN g \subseteq Tables
  BY DEF Tables
<1> QED
  BY <1>1, <1>2, <1>3 DEF Keyed
-----------------------------------------------------------------------------
LEMMA RecordsImply == IRecords => KeysExplained /\ PostingsExplained
<1> SUFFICES ASSUME IRecords PROVE KeysExplained
  BY DEF IRecords, PostsOK
<1> SUFFICES ASSUME NEW t \in Keyed, ~Excused(t), NEW x \in InUse(t), NEW y \in InUse(t),
                    rows[x].key = rows[y].key, rows[x].key # NoKey
             PROVE  x = y
  BY DEF KeysExplained, Excused, SavesRaced
<1>1. KeysApart(rows, t)
  BY DEF IRecords, KeysOK
<1> QED
  BY <1>1 DEF KeysApart, InUse, RowsOf

\* A pair is not the row nothing belongs to.
LEMMA PairIsRow == \A A, B : \A x \in A \X B : x # NoRow
BY DEF NoRow

\* The rows a service starts with.
LEMMA RecordsInitial ==
  ASSUME NEW s \in DOMAIN Service, RequestInit, RecordsInit(Service[s])
  PROVE  IRecords
<1> DEFINE ts == Service[s]
           root(t) == Schema[t].of = "none"
           key(t, i) == IF t \notin Keyed THEN NoKey ELSE IF root(t) THEN i ELSE 1
           first(t) == <<t, IF root(t) THEN 1 ELSE 3>>
           D == {y \in ts \X (1..3) : root(y[1]) <=> y[2] < 3}
<1>1. Wired /\ \A r \in Request : pc[r] = "new"
  BY WiredInitial
<1>2. ts \subseteq Tables
  BY ServiceTables
<1>3. /\ rows = [x \in D |-> NewRow(IF root(x[1]) THEN NoRow ELSE first(Schema[x[1]].of),
                                    key(x[1], x[2]))]
      /\ lastId = 3 /\ lost = {} /\ late = {}
  BY DEF RecordsInit
<1> HIDE DEF ts, D
<1>4. D \subseteq Tables \X (1..3) /\ \A y \in D : root(y[1]) <=> y[2] < 3
  BY <1>2 DEF D, ts
<1>5. Placed(rows, lastId)
  BY <1>3, <1>4 DEF Placed, NewRow
<1>6. ASSUME NEW t \in Keyed PROVE KeysOK(t)
  <2>1. KeysApart(rows, t)
    BY <1>3, <1>4 DEF KeysApart, NewRow
  <2>2. ASSUME t \in Numbered PROVE UpToSize(rows, t)
    <3>1. t \in Tables => ~root(t)
      BY <2>2, SchemaWellMade DEF WellMade, Numbered
    <3>2. RowsAt(rows, t) \subseteq {<<t, 3>>}
      <4> SUFFICES ASSUME NEW x \in D, x[1] = t PROVE x = <<t, 3>>
        BY <1>3 DEF RowsAt
      <4> QED
        BY <1>4, <3>1
    <3>3. CASE RowsAt(rows, t) = {}
      BY <3>3, FS_EmptySet DEF UpToSize
    <3>4. CASE RowsAt(rows, t) = {<<t, 3>>}
      <4>1. Size(rows, t) = 1 /\ IsFiniteSet(RowsAt(rows, t))
        BY <3>4, FS_Singleton DEF Size
      <4>2. <<t, 3>> \in D
        BY <1>3, <3>4 DEF RowsAt
      <4>3. rows[<<t, 3>>].key = 1
        BY <1>3, <1>4, <3>1, <4>2 DEF NewRow
      <4> QED
        BY <3>4, <4>1, <4>3 DEF UpToSize
    <3> QED
      BY <3>2, <3>3, <3>4
  <2> QED
    BY <1>1, <2>1, <2>2 DEF KeysOK, OneSaver, Saves, IsSaver
<1>7. PostsOK
  BY <1>1, <1>3 DEF PostsOK, PostingsExplained, Posts, IsPoster, Empties, IsEmptying
<1> QED
  BY <1>1, <1>5, <1>6, <1>7 DEF IRecords, HoldsRecord
-----------------------------------------------------------------------------
\* Table t of U has no more keys in use than T.
QuietAt(T, U, t) ==
    \A y \in DOMAIN U : y[1] = t /\ U[y].live /\ U[y].key # NoKey =>
        y \in DOMAIN T /\ T[y].live /\ T[y].key = U[y].key
SameAt(T, U, t) ==
    RowsAt(U, t) = RowsAt(T, t) /\ \A y \in RowsAt(U, t) : U[y].key = T[y].key

LEMMA QuietKeeps ==
  ASSUME NEW T, NEW U, NEW t, QuietAt(T, U, t)
  PROVE  /\ KeysApart(T, t) => KeysApart(U, t)
         /\ \A k, but : k \in Nat /\ KeyFree(T, t, k, but) => KeyFree(U, t, k, but)
<1>1. \A k \in Nat : k # NoKey
  BY DEF NoKey
<1> QED
  BY <1>1 DEF QuietAt, KeysApart, KeyFree

LEMMA SameKeeps ==
  ASSUME NEW T, NEW U, NEW t, SameAt(T, U, t)
  PROVE  Size(U, t) = Size(T, t) /\ (UpToSize(T, t) => UpToSize(U, t))
BY DEF SameAt, Size, UpToSize

\* What is excused stays so.
LEMMA ExcuseStays ==
  ASSUME raced \subseteq raced', unchecked \subseteq unchecked', shrunk \subseteq shrunk'
  PROVE  /\ \A t : Excused(t) => Excused(t)'
         /\ \A x : (DropsRaced(x) => DropsRaced(x)') /\ (ClosingsRaced(x) => ClosingsRaced(x)')
BY DEF Excused, SavesRaced, DropsRaced, ClosingsRaced, Together

\* A request that saves nothing in table t, or goes on to the next contact, writes
\* no key there.
LEMMA KeysStay ==
  ASSUME IRecords, NEW r \in Request, NEW t \in Keyed, Alone(r), raced \subseteq raced',
         unchecked \subseteq unchecked', shrunk \subseteq shrunk',
         QuietAt(rows, rows', t), t \in Numbered => t \in shrunk' \/ SameAt(rows, rows', t),
         Saves(r)' /\ req'[r].on = AllOf(t) =>
             pc'[r] = "importContact" /\ Saves(r) /\ req[r].on = AllOf(t)
  PROVE  KeysOK(t)'
<1>1. \A q \in Request \ {r} : (Saves(q)' <=> Saves(q)) /\ pc'[q] = pc[q] /\ req'[q] = req[q]
  BY DEF Alone, Saves
<1>2. CASE Excused(t)
  BY <1>2, ExcuseStays DEF KeysOK
<1>3. CASE t \in Numbered /\ t \in shrunk'
  BY <1>3 DEF KeysOK, Excused
<1>4. CASE ~Excused(t) /\ (t \in Numbered => SameAt(rows, rows', t))
  <2>1. /\ KeysApart(rows, t) /\ OneSaver(t)
        /\ t \in Numbered => UpToSize(rows, t)
        /\ \A q \in Request : Saves(q) /\ req[q].on = AllOf(t) => Finds(pc[q], req[q], rows, t)
    BY <1>4 DEF IRecords, KeysOK
  <2>2. KeysApart(rows', t) /\ (t \in Numbered => UpToSize(rows', t))
    BY <1>4, <2>1, QuietKeeps, SameKeeps
  <2>3. OneSaver(t)'
    BY <1>1, <2>1 DEF OneSaver
  <2>4. ASSUME NEW q \in Request, Saves(q)', req'[q].on = AllOf(t)
        PROVE  Finds(pc'[q], req'[q], rows', t)
    <3>1. CASE q = r
      BY <2>4, <3>1 DEF Finds
    <3>2. CASE q # r
      <4>1. pc'[q] = pc[q] /\ req'[q] = req[q] /\ Finds(pc[q], req[q], rows, t) /\ Saves(q)
        BY <1>1, <2>1, <2>4, <3>2
      <4>2. pc[q] \in {"insertRow", "insertContact", "writeRow"} => req[q].key \in Nat
        BY <4>1 DEF IRecords, HoldsRecord, HoldsRow, HoldsChange, Saves, IsSaver
      <4> QED
        BY <1>4, <4>1, <4>2, QuietKeeps, SameKeeps DEF Finds
    <3> QED
      BY <3>1, <3>2
  <2> QED
    BY <2>2, <2>3, <2>4 DEF KeysOK
<1> QED
  BY <1>2, <1>3, <1>4

\* A step after which r neither posts, nor closes, nor is about to delete what must
\* be empty; unless somebody who counts on it was under way with it, nothing more
\* belongs to an account, and no more accounts are closed.
LEMMA PostsStay ==
  ASSUME IRecords, NEW r \in Request, Alone(r), raced \subseteq raced',
         unchecked \subseteq unchecked', shrunk \subseteq shrunk',
         PostingsExplained', ~Posts(r)', ~Closes(r)', ~Empties(r)',
         \A q \in Request \ {r} :
            /\ Posts(q) /\ Shut(rows', req[q].on) =>
                  Shut(rows, req[q].on) \/ ClosingsRaced(req[q].on)
            /\ Empties(q) /\ pc[q] = "dropRow" /\ req[q].id[1] # "accountType"
                  /\ Bare(rows, req[q].id) => Bare(rows', req[q].id) \/ DropsRaced(req[q].id)
  PROVE  PostsOK'
<1>1. \A q \in Request \ {r} :
         /\ pc'[q] = pc[q] /\ req'[q] = req[q]
         /\ (Posts(q)' <=> Posts(q)) /\ (Closes(q)' <=> Closes(q)) /\ (Empties(q)' <=> Empties(q))
  BY DEF Alone, Posts, Closes, Empties
<1>2. \A x : (DropsRaced(x) => DropsRaced(x)') /\ (ClosingsRaced(x) => ClosingsRaced(x)')
  BY ExcuseStays
<1>3. ASSUME NEW p \in Request, NEW q \in Request, Posts(p)', req'[p].on = req'[q].on
      PROVE  /\ Empties(q)' => DropsRaced(req[p].on)'
             /\ Closes(q)' => ClosingsRaced(req[p].on)'
  <2>1. /\ p # r /\ req'[p] = req[p] /\ Posts(p)
        /\ Empties(q)' => Empties(q) /\ req'[q] = req[q]
        /\ Closes(q)' => Closes(q) /\ req'[q] = req[q]
    BY <1>1, <1>3
  <2>2. /\ Empties(q)' => DropsRaced(req[p].on)
        /\ Closes(q)' => ClosingsRaced(req[p].on)
    BY <1>3, <2>1 DEF IRecords, PostsOK
  <2> QED
    BY <2>1, <2>2 DEF DropsRaced, ClosingsRaced, Together
<1>4. ASSUME NEW q \in Request, Posts(q)'
      PROVE  ClosingsRaced(req[q].on)' \/ ~Shut(rows, req[q].on)'
  <2>1. q # r /\ req'[q] = req[q] /\ Posts(q)
    BY <1>1, <1>4
  <2>2. ClosingsRaced(req[q].on) \/ ~Shut(rows', req[q].on)
    BY <2>1 DEF IRecords, PostsOK
  <2> QED
    BY <2>1, <2>2 DEF ClosingsRaced, Together, Shut
<1>5. ASSUME NEW q \in Request, Empties(q)', pc'[q] = "dropRow"
      PROVE  req'[q].id[1] = "accountType" \/ DropsRaced(req[q].id)' \/ Bare(rows, req[q].id)'
  <2>1. q # r /\ req'[q] = req[q] /\ Empties(q) /\ pc[q] = "dropRow"
    BY <1>1, <1>5
  <2>2. req[q].id[1] = "accountType" \/ DropsRaced(req[q].id) \/ Bare(rows', req[q].id)
    BY <2>1 DEF IRecords, PostsOK
  <2> QED
    BY <2>1, <2>2 DEF DropsRaced, Together, Bare
<1> QED
  BY <1>3, <1>4, <1>5 DEF PostsOK

LEMMA OthersHoldRecords ==
  ASSUME IRecords, NEW r \in Request, Alone(r), HoldsRecord(pc'[r], req'[r])
  PROVE  \A q \in Request : HoldsRecord(pc'[q], req'[q])
BY DEF Alone, IRecords

\* A request that is answered holds nothing that matters.
LEMMA AnsweredHolds ==
  ASSUME NEW r \in Request, pc'[r] \in Answered
  PROVE  /\ HoldsRecord(pc'[r], req'[r])
         /\ ~Saves(r)' /\ ~Posts(r)' /\ ~Closes(r)' /\ ~Empties(r)'
BY DEF HoldsRecord, Saves, Posts, Closes, Empties, IsSaver, IsPoster, IsCloser, IsEmptying
-----------------------------------------------------------------------------
(* A request begins. *)
LEMMA RivalMakesExcuse ==
  ASSUME IRecords, NEW r \in Request, NEW next, NEW h, Begin(r, next, h, RecordRivals),
         NEW q \in Request \ {r}, req[q].on = h.on
  PROVE  /\ \A t : Saves(q) /\ h.kind = "save" /\ h.on = AllOf(t) => Excused(t)'
         /\ \A x : h.on = x =>
               /\ Posts(q) /\ h.kind = "drop" => DropsRaced(x)'
               /\ Empties(q) /\ h.kind = "post" => DropsRaced(x)'
               /\ Posts(q) /\ h.kind = "change" => ClosingsRaced(x)'
               /\ Closes(q) /\ h.kind = "post" => ClosingsRaced(x)'
<1>1. /\ {"save", "save"} \in RecordRivals /\ {"post", "drop"} \in RecordRivals
      /\ {"post", "change"} \in RecordRivals
      /\ {"drop", "post"} = {"post", "drop"} /\ {"change", "post"} = {"post", "change"}
  BY DEF RecordRivals
<1>2. HoldsRecord(pc[q], req[q])
  BY DEF IRecords
<1>3. Saves(q) \/ Posts(q) \/ Empties(q) \/ Closes(q) => Busy(q) /\ "on" \in DOMAIN req[q]
  BY <1>2 DEF HoldsRecord, HoldsRow, HoldsChange, HoldsDrop, HoldsImport, Saves, Posts,
     Empties, Closes, IsSaver, IsPoster, IsEmptying, IsCloser, Busy
<1>4. /\ Saves(q) => req[q].kind = "save"
      /\ Posts(q) => req[q].kind = "post"
      /\ Empties(q) => req[q].kind = "drop"
      /\ Closes(q) => req[q].kind = "change"
  BY <1>2 DEF HoldsRecord, HoldsChange, HoldsDrop, Saves, Posts, Empties, Closes, IsSaver,
     IsPoster, IsEmptying, IsCloser
<1>5. ASSUME Saves(q), h.kind = "save" PROVE Together(h.on, "save", "save")'
  BY <1>1, <1>3, <1>4, <1>5, BeginRaces
<1>6. ASSUME Posts(q), h.kind = "drop" PROVE Together(h.on, "drop", "post")'
  BY <1>1, <1>3, <1>4, <1>6, BeginRaces
<1>7. ASSUME Empties(q), h.kind = "post" PROVE Together(h.on, "post", "drop")'
  BY <1>1, <1>3, <1>4, <1>7, BeginRaces
<1>8. ASSUME Posts(q), h.kind = "change" PROVE Together(h.on, "change", "post")'
  BY <1>1, <1>3, <1>4, <1>8, BeginRaces
<1>9. ASSUME Closes(q), h.kind = "post" PROVE Together(h.on, "post", "change")'
  BY <1>1, <1>3, <1>4, <1>9, BeginRaces
<1>10. \A t : Saves(q) /\ h.kind = "save" /\ h.on = AllOf(t) => Excused(t)'
  BY <1>5 DEF Excused, SavesRaced, Together
<1>11. \A x : h.on = x =>
               /\ Posts(q) /\ h.kind = "drop" => DropsRaced(x)'
               /\ Empties(q) /\ h.kind = "post" => DropsRaced(x)'
  BY <1>1, <1>6, <1>7 DEF DropsRaced, Together
<1>12. \A x : h.on = x =>
               /\ Posts(q) /\ h.kind = "change" => ClosingsRaced(x)'
               /\ Closes(q) /\ h.kind = "post" => ClosingsRaced(x)'
  BY <1>1, <1>8, <1>9 DEF ClosingsRaced, Together
<1> QED
  BY <1>10, <1>11, <1>12

LEMMA BeginKeepsRecords ==
  ASSUME IRecords, NEW r \in Request, NEW next, NEW h, Begin(r, next, h, RecordRivals),
         UNCHANGED recordVars,
         next \in {"insertRow", "writeRow", "countBelow", "dropRow", "importContact"},
         HoldsRecord(next, h), "on" \in DOMAIN h,
         \A t \in Keyed : KeysOK(t) /\ ~Excused(t) /\ IsSaver(next, h) /\ h.on = AllOf(t) =>
             Finds(next, h, rows, t),
         IsPoster(next, h) => ~Shut(rows, h.on), next = "dropRow" => ~h.counted
  PROVE  IRecords'
<1>1. /\ Wired' /\ Alone(r) /\ pc[r] = "new" /\ pc'[r] = next /\ req'[r] = h
      /\ raced \subseteq raced'
  BY BeginMoves DEF IRecords
<1>2. UNCHANGED <<rows, lastId, unchecked, shrunk, lost, late>>
  BY DEF recordVars
<1>3. \A q \in Request \ {r} :
         /\ pc'[q] = pc[q] /\ req'[q] = req[q] /\ (Saves(q)' <=> Saves(q))
         /\ (Posts(q)' <=> Posts(q)) /\ (Closes(q)' <=> Closes(q)) /\ (Empties(q)' <=> Empties(q))
  BY <1>1 DEF Alone, Saves, Posts, Closes, Empties
<1>4. /\ Saves(r)' <=> IsSaver(next, h)
      /\ Posts(r)' <=> IsPoster(next, h)
      /\ Closes(r)' <=> IsCloser(next, h)
      /\ Empties(r)' <=> IsEmptying(next, h)
  BY <1>1 DEF Saves, Posts, Closes, Empties
<1>5. /\ IsSaver(next, h) => h.kind = "save"
      /\ IsPoster(next, h) => h.kind = "post"
      /\ IsCloser(next, h) => h.kind = "change"
      /\ IsEmptying(next, h) => h.kind = "drop" /\ next = "countBelow"
  BY DEF HoldsRecord, HoldsChange, HoldsDrop, IsSaver, IsPoster, IsCloser, IsEmptying
<1>6. \A q \in Request : HoldsRecord(pc'[q], req'[q])
  BY <1>1, OthersHoldRecords
<1>7. ASSUME NEW t \in Keyed PROVE KeysOK(t)'
  <2>1. CASE ~(IsSaver(next, h) /\ h.on = AllOf(t))
    <3>1. QuietAt(rows, rows', t) /\ SameAt(rows, rows', t)
      BY <1>2 DEF QuietAt, SameAt, RowsAt
    <3> QED
      BY <1>1, <1>2, <1>4, <2>1, <3>1, KeysStay
  <2>2. CASE Excused(t)
    BY <1>1, <1>2, <2>2, ExcuseStays DEF KeysOK
  <2>3. CASE IsSaver(next, h) /\ h.on = AllOf(t) /\ ~Excused(t)
    <3>1. /\ KeysApart(rows, t) /\ OneSaver(t)
          /\ t \in Numbered => UpToSize(rows, t)
          /\ \A q \in Request : Saves(q) /\ req[q].on = AllOf(t) => Finds(pc[q], req[q], rows, t)
          /\ Finds(next, h, rows, t)
      BY <2>3 DEF IRecords, KeysOK
    <3>2. CASE \E q \in Request \ {r} : Saves(q) /\ req[q].on = AllOf(t)
      BY <1>5, <2>3, <3>2, RivalMakesExcuse DEF KeysOK
    <3>3. CASE \A q \in Request \ {r} : ~(Saves(q) /\ req[q].on = AllOf(t))
      <4>1. OneSaver(t)'
        BY <1>3, <3>3 DEF OneSaver
      <4>2. \A q \in Request : Saves(q)' /\ req'[q].on = AllOf(t) =>
               Finds(pc'[q], req'[q], rows', t)
        BY <1>1, <1>2, <1>3, <3>1, <3>3
      <4> QED
        BY <1>2, <3>1, <4>1, <4>2 DEF KeysOK
    <3> QED
      BY <3>2, <3>3
  <2> QED
    BY <2>1, <2>2, <2>3
<1>8. PostsOK'
  <2>1. \A x : (DropsRaced(x) => DropsRaced(x)') /\ (ClosingsRaced(x) => ClosingsRaced(x)')
    BY <1>1, <1>2, ExcuseStays
  <2>2. PostingsExplained'
    BY <1>2, <2>1 DEF IRecords, PostsOK, PostingsExplained, DropsRaced, ClosingsRaced, Together
  <2>3. ASSUME NEW p \in Request, NEW q \in Request, Posts(p)', req'[p].on = req'[q].on
        PROVE  /\ Empties(q)' => DropsRaced(req[p].on)'
               /\ Closes(q)' => ClosingsRaced(req[p].on)'
    <3>1. ~(Posts(r)' /\ (Empties(r)' \/ Closes(r)'))
      BY <1>4, <1>5
    <3>2. CASE p # r /\ q # r
      <4>1. /\ Posts(p) /\ req'[p] = req[p] /\ req[p].on = req[q].on
            /\ (Empties(q)' => Empties(q)) /\ (Closes(q)' => Closes(q))
        BY <1>3, <2>3, <3>2
      <4>2. /\ Empties(q)' => DropsRaced(req[p].on)
            /\ Closes(q)' => ClosingsRaced(req[p].on)
        BY <4>1 DEF IRecords, PostsOK
      <4> QED
        BY <2>1, <4>1, <4>2 DEF DropsRaced, ClosingsRaced, Together
    <3>3. CASE p # r /\ q = r
      <4>1. Posts(p) /\ req'[p] = req[p] /\ req[p].on = h.on
        BY <1>1, <1>3, <2>3, <3>3
      <4>2. /\ Empties(q)' => DropsRaced(h.on)'
            /\ Closes(q)' => ClosingsRaced(h.on)'
        BY <1>4, <1>5, <3>3, <4>1, RivalMakesExcuse
      <4> QED
        BY <4>1, <4>2 DEF DropsRaced, ClosingsRaced, Together
    <3>4. CASE p = r /\ q # r
      <4>1. /\ req'[q] = req[q] /\ req[q].on = h.on /\ req'[p] = h
            /\ (Empties(q)' => Empties(q)) /\ (Closes(q)' => Closes(q))
        BY <1>1, <1>3, <2>3, <3>4
      <4>2. h.kind = "post"
        BY <1>4, <1>5, <2>3, <3>4
      <4>3. /\ Empties(q)' => DropsRaced(h.on)'
            /\ Closes(q)' => ClosingsRaced(h.on)'
        BY <3>4, <4>1, <4>2, RivalMakesExcuse
      <4> QED
        BY <4>1, <4>3 DEF DropsRaced, ClosingsRaced, Together
    <3> QED
      BY <2>3, <3>1, <3>2, <3>3, <3>4
  <2>4. ASSUME NEW q \in Request, Posts(q)'
        PROVE  ClosingsRaced(req[q].on)' \/ ~Shut(rows, req[q].on)'
    <3>1. CASE q = r
      BY <1>1, <1>2, <1>4, <2>4, <3>1 DEF Shut
    <3>2. CASE q # r
      <4>1. req'[q] = req[q] /\ Posts(q)
        BY <1>3, <2>4, <3>2
      <4>2. ClosingsRaced(req[q].on) \/ ~Shut(rows, req[q].on)
        BY <4>1 DEF IRecords, PostsOK
      <4> QED
        BY <1>2, <2>1, <4>1, <4>2 DEF ClosingsRaced, Together, Shut
    <3> QED
      BY <3>1, <3>2
  <2>5. ASSUME NEW q \in Request, Empties(q)', pc'[q] = "dropRow"
        PROVE  req'[q].id[1] = "accountType" \/ DropsRaced(req[q].id)' \/ Bare(rows, req[q].id)'
    <3>1. q # r
      BY <1>1, <1>4, <1>5, <2>5
    <3>2. req'[q] = req[q] /\ Empties(q) /\ pc[q] = "dropRow"
      BY <1>3, <2>5, <3>1
    <3>3. req[q].id[1] = "accountType" \/ DropsRaced(req[q].id) \/ Bare(rows, req[q].id)
      BY <3>2 DEF IRecords, PostsOK
    <3> QED
      BY <1>2, <2>1, <3>2, <3>3 DEF DropsRaced, Together, Bare
  <2> QED
    BY <2>2, <2>3, <2>4, <2>5 DEF PostsOK
<1> QED
  BY <1>1, <1>2, <1>6, <1>7, <1>8 DEF IRecords, Placed
-----------------------------------------------------------------------------
(* A request moves on. *)
\* What a step of r may do to accounts that others are about to post to or delete.
Spares(r) ==
    \A q \in Request \ {r} :
        /\ Posts(q) /\ Shut(rows', req[q].on) =>
              Shut(rows, req[q].on) \/ ClosingsRaced(req[q].on)
        /\ Empties(q) /\ pc[q] = "dropRow" /\ req[q].id[1] # "accountType"
              /\ Bare(rows, req[q].id) => Bare(rows', req[q].id) \/ DropsRaced(req[q].id)

LEMMA RecordsMove ==
  ASSUME IRecords, NEW r \in Request, Wired', Alone(r), raced' = raced,
         unchecked \subseteq unchecked', shrunk \subseteq shrunk', Placed(rows', lastId'),
         HoldsRecord(pc'[r], req'[r]), ~Posts(r)', ~Closes(r)', ~Empties(r)',
         Saves(r)' => pc'[r] = "importContact" /\ Saves(r) /\ req'[r].on = req[r].on,
         \A t \in Keyed : \/ KeysOK(t)'
                          \/ /\ QuietAt(rows, rows', t)
                             /\ t \in Numbered => t \in shrunk' \/ SameAt(rows, rows', t),
         PostingsExplained', Spares(r)
  PROVE  IRecords'
<1>1. \A q \in Request : HoldsRecord(pc'[q], req'[q])
  BY OthersHoldRecords
<1>2. \A t \in Keyed : KeysOK(t)'
  <2> SUFFICES ASSUME NEW t \in Keyed, QuietAt(rows, rows', t),
                      t \in Numbered => t \in shrunk' \/ SameAt(rows, rows', t)
               PROVE  KeysOK(t)'
    OBVIOUS
  <2> QED
    BY KeysStay
<1>3. PostsOK'
  BY PostsStay DEF Spares
<1> QED
  BY <1>1, <1>2, <1>3 DEF IRecords, Placed

\* The rows that what no account's posting is about leave as they are are spared.
LEMMA AllSpared ==
  ASSUME IRecords, NEW r \in Request, \A x : Shut(rows', x) => Shut(rows, x),
         \A x \in {"account"} \X Nat : Bare(rows, x) => Bare(rows', x)
  PROVE  Spares(r)
<1>1. \A q \in Request : Empties(q) /\ req[q].id[1] # "accountType" =>
         req[q].id \in {"account"} \X Nat
  BY DEF IRecords, HoldsRecord, HoldsDrop, Empties, IsEmptying
<1> QED
  BY <1>1 DEF Spares

\* Nothing but requests changes.
LEMMA RowsStand ==
  ASSUME IRecords, NEW r \in Request, Wired', Alone(r), raced' = raced, UNCHANGED recordVars,
         HoldsRecord(pc'[r], req'[r]), ~Posts(r)', ~Closes(r)', ~Empties(r)', ~Saves(r)'
  PROVE  IRecords'
<1>1. UNCHANGED <<rows, lastId, unchecked, shrunk, lost, late>>
  BY DEF recordVars
<1>2. \A t : QuietAt(rows, rows', t) /\ SameAt(rows, rows', t)
  BY <1>1 DEF QuietAt, SameAt, RowsAt
<1>3. PostingsExplained'
  BY <1>1 DEF IRecords, PostsOK, PostingsExplained, Together
<1>4. Spares(r)
  BY <1>1 DEF Spares
<1>5. Placed(rows', lastId')
  BY <1>1 DEF IRecords
<1> QED
  BY <1>1, <1>2, <1>3, <1>4, <1>5, RecordsMove
-----------------------------------------------------------------------------
(* A row is made. *)
LEMMA InsertionKeeps ==
  ASSUME Placed(rows, lastId), NEW t \in Tables, NEW of, NEW key, Inserted(t, of, key),
         of # NoRow => of[1] = Schema[t].of
  PROVE  /\ <<t, lastId + 1>> \notin DOMAIN rows
         /\ DOMAIN rows' = DOMAIN rows \cup {<<t, lastId + 1>>}
         /\ rows'[<<t, lastId + 1>>] = NewRow(of, key)
         /\ \A x \in DOMAIN rows : rows'[x] = rows[x]
         /\ Placed(rows', lastId')
         /\ \A u \in Tables \ {t} : QuietAt(rows, rows', u) /\ SameAt(rows, rows', u)
         /\ key = NoKey => QuietAt(rows, rows', t)
         /\ \A x : Shut(rows', x) => Shut(rows, x)
         /\ \A x : x # of /\ Bare(rows, x) => Bare(rows', x)
<1> DEFINE n == <<t, lastId + 1>>
<1>1. /\ lastId \in Nat /\ DOMAIN rows \subseteq Tables \X (1..lastId)
      /\ rows = [x \in DOMAIN rows |-> rows[x]]
  BY DEF Placed
<1>2. n \notin DOMAIN rows
  BY <1>1
<1>3. /\ lastId' = lastId + 1
      /\ rows' = [x \in DOMAIN rows \cup {n} |-> IF x = n THEN NewRow(of, key) ELSE rows[x]]
  BY DEF Inserted
<1>4. n \in Tables \X (1..lastId') /\ n[1] = t
  BY <1>1, <1>3
<1> HIDE DEF n
<1>5. /\ DOMAIN rows' = DOMAIN rows \cup {n} /\ rows'[n] = NewRow(of, key)
      /\ \A x \in DOMAIN rows : rows'[x] = rows[x]
  BY <1>2, <1>3
<1>6. DOMAIN rows' \subseteq Tables \X (1..lastId')
  BY <1>1, <1>3, <1>4, <1>5
<1>7. ASSUME NEW x \in DOMAIN rows'
      PROVE  /\ rows'[x] \in [of : {rows'[x].of}, key : {rows'[x].key}, live : BOOLEAN,
                              closed : BOOLEAN]
             /\ rows'[x].of # NoRow => rows'[x].of[1] = Schema[x[1]].of
  <2>1. CASE x = n
    <3>1. /\ NewRow(of, key) \in [of : {of}, key : {key}, live : BOOLEAN, closed : BOOLEAN]
          /\ NewRow(of, key).of = of /\ NewRow(of, key).key = key
      BY DEF NewRow
    <3>2. rows'[x] = NewRow(of, key) /\ x[1] = t
      BY <1>4, <1>5, <2>1
    <3> QED
      BY <3>1, <3>2
  <2>2. CASE x # n
    BY <1>5, <2>2 DEF Placed
  <2> QED
    BY <2>1, <2>2
<1>8. Placed(rows', lastId')
  <2>1. rows' = [x \in DOMAIN rows' |-> rows'[x]]
    BY <1>3
  <2>2. lastId' \in Nat
    BY <1>1, <1>3
  <2> QED
    BY <1>6, <1>7, <2>1, <2>2 DEF Placed
<1>9. \A u \in Tables \ {t} : QuietAt(rows, rows', u) /\ SameAt(rows, rows', u)
  BY <1>4, <1>5 DEF QuietAt, SameAt, RowsAt
<1>10. key = NoKey => QuietAt(rows, rows', t)
  BY <1>5 DEF QuietAt, NewRow
<1>11. \A x : Shut(rows', x) => Shut(rows, x)
  BY <1>5 DEF Shut, NewRow
<1>12. \A x : x # of /\ Bare(rows, x) => Bare(rows', x)
  BY <1>5 DEF Bare, NewRow
<1> QED
  BY <1>2, <1>5, <1>8, <1>9, <1>10, <1>11, <1>12 DEF n

LEMMA RowsFinite ==
  ASSUME NEW T, NEW n, Placed(T, n), NEW t PROVE IsFiniteSet(RowsAt(T, t)) /\ Size(T, t) \in Nat
<1>1. IsFiniteSet({t} \X (1..n))
  <2>1. IsFiniteSet({t})
    BY FS_Singleton
  <2>2. 1 \in Int /\ n \in Int
    BY DEF Placed
  <2>3. IsFiniteSet(1..n)
    BY <2>2, FS_Interval
  <2> QED
    BY <2>1, <2>3, FS_Product
<1>2. RowsAt(T, t) \subseteq {t} \X (1..n)
  BY DEF Placed, RowsAt
<1>3. IsFiniteSet(RowsAt(T, t))
  BY <1>1, <1>2, FS_Subset
<1> QED
  BY <1>3, FS_CardinalityType DEF Size

\* A row is made with a key that was found free.
LEMMA SavedRowIsApart ==
  ASSUME IRecords, NEW r \in Request, NEW t \in Keyed, t \in Tables, NEW of, Alone(r),
         raced' = raced, unchecked \subseteq unchecked', shrunk \subseteq shrunk',
         pc[r] \in {"insertRow", "insertContact"}, Saves(r), req[r].on = AllOf(t),
         req[r].key \in Nat, Inserted(t, of, req[r].key), of # NoRow => of[1] = Schema[t].of,
         Saves(r)' => pc'[r] = "importContact"
  PROVE  KeysOK(t)'
<1> DEFINE n == <<t, lastId + 1>>
           k == req[r].key
<1>1. Placed(rows, lastId)
  BY DEF IRecords
<1>2. /\ n \notin DOMAIN rows /\ DOMAIN rows' = DOMAIN rows \cup {n}
      /\ rows'[n] = NewRow(of, k) /\ \A x \in DOMAIN rows : rows'[x] = rows[x]
  BY <1>1, InsertionKeeps
<1> HIDE DEF n
<1>3. CASE Excused(t)
  BY <1>3, ExcuseStays DEF KeysOK
<1>4. CASE ~Excused(t)
  <2>1. /\ KeysApart(rows, t) /\ OneSaver(t) /\ (t \in Numbered => UpToSize(rows, t))
        /\ KeyFree(rows, t, k, NoRow) /\ (t \in Numbered => k = Size(rows, t) + 1)
    BY <1>4 DEF IRecords, KeysOK, Finds
  <2>2. \A x \in DOMAIN rows : x[1] = t /\ rows[x].live => rows[x].key # k
    BY <1>1, <2>1, PairIsRow DEF KeyFree, Placed
  <2>3. KeysApart(rows', t)
    BY <1>2, <2>1, <2>2 DEF KeysApart, NewRow
  <2>4. \A q \in Request : Saves(q)' /\ req'[q].on = AllOf(t) => q = r
    BY <2>1 DEF OneSaver, Alone, Saves
  <2>5. OneSaver(t)'
    BY <2>4 DEF OneSaver
  <2>6. \A q \in Request : Saves(q)' /\ req'[q].on = AllOf(t) => Finds(pc'[q], req'[q], rows', t)
    BY <2>4 DEF Finds
  <2>7. ASSUME t \in Numbered PROVE UpToSize(rows', t)
    <3>1. RowsAt(rows', t) = RowsAt(rows, t) \cup {n} /\ n \notin RowsAt(rows, t)
      BY <1>2 DEF RowsAt, n
    <3>2. IsFiniteSet(RowsAt(rows, t)) /\ Size(rows, t) \in Nat
      BY <1>1, RowsFinite
    <3>3. IsFiniteSet(RowsAt(rows', t)) /\ Size(rows', t) = Size(rows, t) + 1
      BY <3>1, <3>2, FS_AddElement DEF Size
    <3>4. \A x \in RowsAt(rows, t) : rows[x].key \in 1..Size(rows, t) /\ rows'[x] = rows[x]
      BY <1>2, <2>1, <2>7 DEF UpToSize, RowsAt
    <3>5. rows'[n].key = Size(rows, t) + 1
      BY <1>2, <2>1, <2>7 DEF NewRow
    <3> QED
      BY <3>1, <3>2, <3>3, <3>4, <3>5 DEF UpToSize
  <2> QED
    BY <2>3, <2>5, <2>6, <2>7 DEF KeysOK
<1> QED
  BY <1>3, <1>4

LEMMA MakeNowKeeps ==
  ASSUME IRecords, NEW r \in Request, NEW t \in Tables \ (Numbered \cup {"posting"}),
         MakeNow(r, t)
  PROVE  IRecords'
<1>1. PICK of \in Owners(t) : Arrive(r, "ok", Nothing) /\ Inserted(t, of, NoKey)
  BY DEF MakeNow
<1>2. UNCHANGED <<unchecked, shrunk, lost, late>>
  BY DEF MakeNow, NoRecordHistory
<1>3. Wired' /\ Alone(r) /\ pc'[r] = "ok" /\ raced' = raced
  BY <1>1, ArriveMoves DEF IRecords
<1>4. of # NoRow => of[1] = Schema[t].of
  BY <1>1 DEF Owners, RowsOf
<1>5. WellMade(t, Schema[t]) /\ Placed(rows, lastId)
  BY SchemaWellMade DEF IRecords
<1>6. of \notin {"account"} \X Nat
  BY <1>4, <1>5 DEF WellMade, NoRow
<1>7. /\ Placed(rows', lastId')
      /\ \A u \in Tables \ {t} : QuietAt(rows, rows', u) /\ SameAt(rows, rows', u)
      /\ QuietAt(rows, rows', t)
      /\ \A x : Shut(rows', x) => Shut(rows, x)
      /\ \A x : x # of /\ Bare(rows, x) => Bare(rows', x)
  BY <1>1, <1>4, <1>5, InsertionKeeps
<1>8. Spares(r)
  BY <1>6, <1>7, AllSpared
<1>9. PostingsExplained'
  BY <1>2, <1>3 DEF IRecords, PostsOK, PostingsExplained, Together
<1>10. \A u \in Keyed : u \in Tables
  BY SomeTables
<1> QED
  BY <1>2, <1>3, <1>7, <1>8, <1>9, <1>10, AnsweredHolds, RecordsMove

LEMMA MakeTypedKeeps ==
  ASSUME IRecords, NEW r \in Request, NEW t \in Numbered, MakeTyped(r, t)
  PROVE  IRecords'
<1>1. PICK of \in Owners(t), k \in Key : Arrive(r, "ok", Nothing) /\ Inserted(t, of, k)
  BY DEF MakeTyped
<1>2. unchecked' = unchecked \cup {t} /\ UNCHANGED <<shrunk, lost, late>>
  BY DEF MakeTyped
<1>3. Wired' /\ Alone(r) /\ pc'[r] = "ok" /\ raced' = raced
  BY <1>1, ArriveMoves DEF IRecords
<1>4. of # NoRow => of[1] = Schema[t].of
  BY <1>1 DEF Owners, RowsOf
<1>5. t \in Tables /\ t \in Keyed /\ Placed(rows, lastId) /\ \A u \in Keyed : u \in Tables
  BY SomeTables DEF IRecords, Numbered, Keyed
<1>6. of \notin {"account"} \X Nat
  BY <1>4, <1>5, SchemaWellMade DEF WellMade, NoRow, Numbered
<1>7. /\ Placed(rows', lastId')
      /\ \A u \in Tables \ {t} : QuietAt(rows, rows', u) /\ SameAt(rows, rows', u)
      /\ \A x : Shut(rows', x) => Shut(rows, x)
      /\ \A x : x # of /\ Bare(rows, x) => Bare(rows', x)
  BY <1>1, <1>4, <1>5, InsertionKeeps
<1>8. Spares(r)
  BY <1>6, <1>7, AllSpared
<1>9. PostingsExplained'
  BY <1>2, <1>3 DEF IRecords, PostsOK, PostingsExplained, Together
<1>10. KeysOK(t)'
  BY <1>2 DEF KeysOK, Excused
<1> QED
  BY <1>2, <1>3, <1>5, <1>7, <1>8, <1>9, <1>10, AnsweredHolds, RecordsMove

LEMMA MakePartKeeps ==
  ASSUME IRecords, NEW r \in Request, NEW t \in Tables \ (Numbered \cup {"posting"}),
         MakePart(r, t)
  PROVE  IRecords'
<1>1. PICK of \in RowsOf(Schema[t].of) :
         Begin(r, "insertRow", [on |-> of, kind |-> "part", table |-> t, of |-> of,
                                key |-> NoKey], RecordRivals)
  BY DEF MakePart
<1> DEFINE h == [on |-> of, kind |-> "part", table |-> t, of |-> of, key |-> NoKey]
<1>2. HoldsRecord("insertRow", h) /\ "on" \in DOMAIN h
  BY <1>1 DEF HoldsRecord, HoldsRow, RowsOf
<1>3. ~IsSaver("insertRow", h) /\ ~IsPoster("insertRow", h)
  BY DEF IsSaver, IsPoster
<1>4. UNCHANGED recordVars
  BY DEF MakePart
<1> HIDE DEF h
<1> QED
  BY <1>1, <1>2, <1>3, <1>4, BeginKeepsRecords DEF h

LEMMA MakeKeyedKeeps ==
  ASSUME IRecords, NEW r \in Request, NEW t \in Keyed \ Numbered, MakeKeyed(r, t)
  PROVE  IRecords'
<1>1. PICK of \in Owners(t), k \in Key :
         /\ ~KeyTaken(t, k, NoRow)
         /\ Begin(r, "insertRow", [on |-> AllOf(t), kind |-> "save", table |-> t, of |-> of,
                                   key |-> k], RecordRivals)
  BY DEF MakeKeyed
<1> DEFINE h == [on |-> AllOf(t), kind |-> "save", table |-> t, of |-> of, key |-> k]
<1>2. HoldsRecord("insertRow", h) /\ "on" \in DOMAIN h
  BY <1>1, SomeTables, RecordAssumption
  DEF HoldsRecord, HoldsRow, Owners, RowsOf, Keyed
<1>3. ~IsPoster("insertRow", h)
  BY DEF IsPoster
<1>4. ASSUME NEW u \in Keyed, h.on = AllOf(u) PROVE Finds("insertRow", h, rows, u)
  <2>1. u = t
    BY <1>4 DEF AllOf
  <2>2. KeyFree(rows, t, k, NoRow)
    BY <1>1 DEF KeyTaken, KeyFree, InUse, RowsOf
  <2> QED
    BY <2>1, <2>2 DEF Finds
<1>5. UNCHANGED recordVars
  BY DEF MakeKeyed
<1> HIDE DEF h
<1> QED
  BY <1>1, <1>2, <1>3, <1>4, <1>5, BeginKeepsRecords DEF h

LEMMA MakeNumberedKeeps ==
  ASSUME IRecords, NEW r \in Request, NEW t \in Numbered, MakeNumbered(r, t)
  PROVE  IRecords'
<1> DEFINE k == Cardinality(RowsOf(t)) + 1
<1>1. PICK of \in Owners(t) :
         Begin(r, "insertRow", [on |-> AllOf(t), kind |-> "save", table |-> t, of |-> of,
                                key |-> k], RecordRivals)
  BY DEF MakeNumbered
<1> DEFINE h == [on |-> AllOf(t), kind |-> "save", table |-> t, of |-> of, key |-> k]
<1>2. RowsOf(t) = RowsAt(rows, t) /\ Size(rows, t) \in Nat
  BY RowsFinite DEF RowsOf, RowsAt, IRecords
<1>3. k = Size(rows, t) + 1 /\ k \in Nat
  BY <1>2 DEF Size
<1> HIDE DEF k
<1>4. HoldsRecord("insertRow", h) /\ "on" \in DOMAIN h
  BY <1>1, <1>3, SomeTables DEF HoldsRecord, HoldsRow, Owners, RowsOf, Keyed, Numbered
<1>5. ~IsPoster("insertRow", h)
  BY DEF IsPoster
<1>6. ASSUME NEW u \in Keyed, KeysOK(u), ~Excused(u), h.on = AllOf(u)
      PROVE  Finds("insertRow", h, rows, u)
  <2>1. u = t
    BY <1>6 DEF AllOf
  <2>2. UpToSize(rows, t)
    BY <1>6, <2>1 DEF KeysOK
  <2>3. KeyFree(rows, t, k, NoRow)
    BY <1>2, <1>3, <2>2 DEF UpToSize, KeyFree, RowsAt
  <2> QED
    BY <1>3, <2>1, <2>3 DEF Finds
<1>7. UNCHANGED recordVars
  BY DEF MakeNumbered
<1> HIDE DEF h
<1> QED
  BY <1>1, <1>4, <1>5, <1>6, <1>7, BeginKeepsRecords DEF h

LEMMA CreatePostingKeeps ==
  ASSUME IRecords, NEW r \in Request, CreatePosting(r) PROVE IRecords'
<1>1. PICK x \in InUse("account") :
         /\ ~rows[x].closed
         /\ Begin(r, "insertRow", [on |-> x, kind |-> "post", table |-> "posting", of |-> x,
                                   key |-> NoKey], RecordRivals)
  BY DEF CreatePosting
<1> DEFINE h == [on |-> x, kind |-> "post", table |-> "posting", of |-> x, key |-> NoKey]
<1>2. x \in {"account"} \X Nat
  BY <1>1 DEF InUse, RowsOf, IRecords, Placed
<1>3. "posting" \in Tables /\ Schema["posting"].of = "account"
  BY SomeTables, SchemaWellMade DEF WellMade
<1>4. HoldsRecord("insertRow", h) /\ "on" \in DOMAIN h
  BY <1>2, <1>3 DEF HoldsRecord, HoldsRow, Numbered
<1>5. ~IsSaver("insertRow", h) /\ ~Shut(rows, h.on)
  BY <1>1 DEF IsSaver, Shut
<1>6. UNCHANGED recordVars
  BY DEF CreatePosting
<1> HIDE DEF h
<1> QED
  BY <1>1, <1>4, <1>5, <1>6, BeginKeepsRecords DEF h

LEMMA InsertRowKeeps ==
  ASSUME IRecords, NEW r \in Request, InsertRow(r) PROVE IRecords'
<1>0. PICK h, of, t : h = req[r] /\ of = h.of /\ t = h.table
  OBVIOUS
<1>1. pc[r] = "insertRow" /\ HoldsRow(h) /\ UNCHANGED <<unchecked, shrunk, lost>>
  BY <1>0 DEF InsertRow, IRecords, HoldsRecord
<1>2. ASSUME NEW next \in Answered, Go(r, "insertRow", next)
      PROVE  Wired' /\ Alone(r) /\ pc'[r] \in Answered /\ raced' = raced
  BY <1>2, GoMoves DEF IRecords
<1>3. CASE ~(of \in DOMAIN rows \cup {NoRow})
  <2>1. Go(r, "insertRow", "error") /\ UNCHANGED <<rows, lastId, late>>
    BY <1>0, <1>3 DEF InsertRow
  <2>2. Wired' /\ Alone(r) /\ pc'[r] \in Answered /\ raced' = raced
    BY <1>2, <2>1
  <2>3. UNCHANGED recordVars
    BY <1>1, <2>1 DEF recordVars
  <2> QED
    BY <2>2, <2>3, AnsweredHolds, RowsStand
<1>4. CASE of \in DOMAIN rows \cup {NoRow}
  <2>1. /\ Go(r, "insertRow", "ok") /\ Inserted(t, of, h.key)
        /\ late' = IF h.kind = "post" /\ rows[of].closed THEN late \cup {of} ELSE late
    BY <1>0, <1>4 DEF InsertRow
  <2>2. Wired' /\ Alone(r) /\ pc'[r] \in Answered /\ raced' = raced
    BY <1>2, <2>1
  <2>3. /\ t \in Tables /\ (of # NoRow => of[1] = Schema[t].of) /\ Placed(rows, lastId)
        /\ WellMade(t, Schema[t]) /\ \A u \in Keyed : u \in Tables
    BY <1>0, <1>1, SchemaWellMade, SomeTables DEF HoldsRow, IRecords
  <2>4. /\ Placed(rows', lastId')
        /\ \A u \in Tables \ {t} : QuietAt(rows, rows', u) /\ SameAt(rows, rows', u)
        /\ h.key = NoKey => QuietAt(rows, rows', t)
        /\ \A x : Shut(rows', x) => Shut(rows, x)
        /\ \A x : x # of /\ Bare(rows, x) => Bare(rows', x)
    BY <2>1, <2>3, InsertionKeeps
  <2>5. HoldsRecord(pc'[r], req'[r]) /\ ~Saves(r)' /\ ~Posts(r)' /\ ~Closes(r)' /\ ~Empties(r)'
    BY <2>2, AnsweredHolds
  <2>6. \A u \in Keyed : \/ KeysOK(u)'
                         \/ /\ QuietAt(rows, rows', u)
                            /\ u \in Numbered => u \in shrunk' \/ SameAt(rows, rows', u)
    <3>1. CASE h.kind = "save" /\ t \in Keyed
      <4>1. /\ Saves(r) /\ h.on = AllOf(t) /\ h.key \in Nat
            /\ unchecked \subseteq unchecked' /\ shrunk \subseteq shrunk'
        BY <1>0, <1>1, <3>1 DEF Saves, IsSaver, HoldsRow
      <4>2. KeysOK(t)'
        BY <1>0, <1>1, <2>1, <2>2, <2>3, <2>5, <3>1, <4>1, SavedRowIsApart
      <4> QED
        BY <2>3, <2>4, <4>2
    <3>2. CASE t \notin Keyed
      BY <2>3, <2>4, <3>2
    <3>3. CASE h.kind # "save"
      BY <1>0, <1>1, <2>3, <2>4, <3>3 DEF HoldsRow
    <3> QED
      BY <3>1, <3>2, <3>3
  <2>7. CASE h.kind # "post"
    <3>1. of \notin {"account"} \X Nat
      <4> SUFFICES ASSUME of \in {"account"} \X Nat PROVE FALSE
        OBVIOUS
      <4>1. of # NoRow /\ of[1] = "account"
        BY PairIsRow
      <4>2. t # "posting"
        BY <1>0, <1>1, <2>7 DEF HoldsRow
      <4> QED
        BY <2>3, <4>1, <4>2 DEF WellMade
    <3>2. Spares(r)
      BY <2>4, <3>1, AllSpared
    <3>3. PostingsExplained'
      BY <1>1, <2>1, <2>2, <2>7 DEF IRecords, PostsOK, PostingsExplained, Together
    <3> QED
      BY <1>1, <2>2, <2>4, <2>5, <2>6, <3>2, <3>3, RecordsMove
  <2>8. CASE h.kind = "post"
    <3>1. Posts(r) /\ h.on = of /\ of \in {"account"} \X Nat
      BY <1>0, <1>1, <2>8 DEF HoldsRow, Posts, IsPoster
    <3>2. \A q \in Request : Empties(q) /\ req[q].on = of => DropsRaced(of)
      BY <1>0, <3>1 DEF IRecords, PostsOK
    <3>3. \A q \in Request : Empties(q) => req[q].on = req[q].id
      BY DEF IRecords, HoldsRecord, HoldsDrop, Empties, IsEmptying
    <3>4. Spares(r)
      BY <2>4, <3>2, <3>3 DEF Spares
    <3>5. rows[of].closed => ClosingsRaced(of)
      BY <1>0, <1>4, <3>1, PairIsRow DEF IRecords, PostsOK, Shut
    <3>6. PostingsExplained'
      BY <1>1, <2>1, <2>2, <3>5 DEF IRecords, PostsOK, PostingsExplained, Together, ClosingsRaced
    <3> QED
      BY <1>1, <2>2, <2>4, <2>5, <2>6, <3>4, <3>6, RecordsMove
  <2> QED
    BY <2>7, <2>8
<1> QED
  BY <1>3, <1>4
-----------------------------------------------------------------------------
(* A row is changed. *)
LEMMA FindToChangeKeeps ==
  ASSUME IRecords, NEW r \in Request, NEW t, FindToChange(r, t) PROVE IRecords'
<1>1. PICK x \in InUse(t), k \in Key \cup {NoKey} :
         Begin(r, "writeRow", [on |-> AllOf(t), kind |-> "change", id |-> x, key |-> k,
                               closing |-> "keep", checked |-> k = NoKey], RecordRivals)
  BY DEF FindToChange
<1> DEFINE h == [on |-> AllOf(t), kind |-> "change", id |-> x, key |-> k, closing |-> "keep",
                 checked |-> k = NoKey]
<1>2. HoldsRecord("writeRow", h) /\ "on" \in DOMAIN h
  BY DEF HoldsRecord, HoldsChange
<1>3. ~IsSaver("writeRow", h) /\ ~IsPoster("writeRow", h)
  BY DEF IsSaver, IsPoster
<1>4. UNCHANGED recordVars
  BY DEF FindToChange
<1> HIDE DEF h
<1> QED
  BY <1>1, <1>2, <1>3, <1>4, BeginKeepsRecords DEF h

LEMMA FindToRekeyRowKeeps ==
  ASSUME IRecords, NEW r \in Request, FindToRekeyRow(r, "contact") PROVE IRecords'
<1>1. PICK x \in InUse("contact"), k \in Key :
         /\ ~KeyTaken("contact", k, x)
         /\ Begin(r, "writeRow", [on |-> AllOf("contact"), kind |-> "save", id |-> x, key |-> k,
                                  closing |-> "keep", checked |-> TRUE], RecordRivals)
  BY DEF FindToRekeyRow
<1> DEFINE h == [on |-> AllOf("contact"), kind |-> "save", id |-> x, key |-> k,
                 closing |-> "keep", checked |-> TRUE]
<1>2. HoldsRecord("writeRow", h) /\ "on" \in DOMAIN h
  BY <1>1, RecordAssumption DEF HoldsRecord, HoldsChange, InUse, RowsOf
<1>3. ~IsPoster("writeRow", h)
  BY DEF IsPoster
<1>4. ASSUME NEW u \in Keyed, h.on = AllOf(u) PROVE Finds("writeRow", h, rows, u)
  <2>1. u = "contact"
    BY <1>4 DEF AllOf
  <2>2. KeyFree(rows, "contact", k, x)
    BY <1>1 DEF KeyTaken, KeyFree, InUse, RowsOf
  <2> QED
    BY <2>1, <2>2 DEF Finds
<1>5. UNCHANGED recordVars
  BY DEF FindToRekeyRow
<1> HIDE DEF h
<1> QED
  BY <1>1, <1>2, <1>3, <1>4, <1>5, BeginKeepsRecords DEF h

LEMMA UpdateAccountKeeps ==
  ASSUME IRecords, NEW r \in Request, UpdateAccount(r) PROVE IRecords'
<1>1. PICK x \in InUse("account"), k \in Key \cup {NoKey}, c \in {"keep", "close", "reopen"} :
         Begin(r, "writeRow", [on |-> x, kind |-> "change", id |-> x, key |-> k,
                               closing |-> c, checked |-> k = NoKey], RecordRivals)
  BY DEF UpdateAccount
<1> DEFINE h == [on |-> x, kind |-> "change", id |-> x, key |-> k, closing |-> c,
                 checked |-> k = NoKey]
<1>2. HoldsRecord("writeRow", h) /\ "on" \in DOMAIN h
  BY DEF HoldsRecord, HoldsChange
<1>3. ~IsSaver("writeRow", h) /\ ~IsPoster("writeRow", h)
  BY DEF IsSaver, IsPoster
<1>4. UNCHANGED recordVars
  BY DEF UpdateAccount
<1> HIDE DEF h
<1> QED
  BY <1>1, <1>2, <1>3, <1>4, BeginKeepsRecords DEF h

\* A change leaves what rows belong to, and all other rows.
LEMMA WritingKeeps ==
  ASSUME Placed(rows, lastId), NEW x \in DOMAIN rows, NEW h,
         rows' = [rows EXCEPT ![x] = Rewritten(rows[x], h)], lastId' = lastId
  PROVE  /\ DOMAIN rows' = DOMAIN rows
         /\ \A y \in DOMAIN rows : y # x => rows'[y] = rows[y]
         /\ rows'[x].of = rows[x].of /\ rows'[x].live = rows[x].live
         /\ rows'[x].key = IF h.key = NoKey THEN rows[x].key ELSE h.key
         /\ rows'[x].closed => rows[x].closed \/ h.closing = "close"
         /\ Placed(rows', lastId')
<1> DEFINE w == Rewritten(rows[x], h)
<1>1. /\ rows[x] \in [of : {rows[x].of}, key : {rows[x].key}, live : BOOLEAN, closed : BOOLEAN]
      /\ rows = [y \in DOMAIN rows |-> rows[y]]
  BY DEF Placed
<1>2. /\ w.of = rows[x].of /\ w.live = rows[x].live /\ w.live \in BOOLEAN
      /\ w.key = IF h.key = NoKey THEN rows[x].key ELSE h.key
      /\ w.closed => rows[x].closed \/ h.closing = "close"
      /\ w \in [of : {w.of}, key : {w.key}, live : BOOLEAN, closed : BOOLEAN]
  BY <1>1 DEF Rewritten
<1> HIDE DEF w
<1>3. /\ DOMAIN rows' = DOMAIN rows /\ rows'[x] = w
      /\ \A y \in DOMAIN rows : y # x => rows'[y] = rows[y]
      /\ rows' = [y \in DOMAIN rows' |-> rows'[y]]
  BY <1>1 DEF w
<1>4. \A y \in DOMAIN rows' :
          /\ rows'[y] \in [of : {rows'[y].of}, key : {rows'[y].key}, live : BOOLEAN,
                           closed : BOOLEAN]
          /\ rows'[y].of # NoRow => rows'[y].of[1] = Schema[y[1]].of
  BY <1>2, <1>3 DEF Placed
<1>5. Placed(rows', lastId')
  BY <1>3, <1>4 DEF Placed
<1> QED
  BY <1>2, <1>3, <1>5

LEMMA WriteRowKeeps ==
  ASSUME IRecords, NEW r \in Request, WriteRow(r) PROVE IRecords'
<1>0. PICK h, x : h = req[r] /\ x = h.id
  OBVIOUS
<1>1. /\ pc[r] = "writeRow" /\ HoldsChange(h) /\ Placed(rows, lastId)
      /\ UNCHANGED <<lastId, shrunk, lost, late>>
  BY <1>0 DEF WriteRow, IRecords, HoldsRecord
<1>2. CASE x \notin DOMAIN rows
  <2>1. Go(r, "writeRow", "error") /\ UNCHANGED <<rows, unchecked>>
    BY <1>0, <1>2 DEF WriteRow
  <2>2. Wired' /\ Alone(r) /\ pc'[r] \in Answered /\ raced' = raced
    BY <2>1, GoMoves DEF IRecords
  <2>3. UNCHANGED recordVars
    BY <1>1, <2>1 DEF recordVars
  <2> QED
    BY <2>2, <2>3, AnsweredHolds, RowsStand
<1>3. CASE x \in DOMAIN rows
  <2>1. /\ Go(r, "writeRow", "ok") /\ rows' = [rows EXCEPT ![x] = Rewritten(rows[x], h)]
        /\ unchecked' = IF h.checked THEN unchecked ELSE unchecked \cup {x[1]}
    BY <1>0, <1>3 DEF WriteRow
  <2>2. Wired' /\ Alone(r) /\ pc'[r] \in Answered /\ raced' = raced
    BY <2>1, GoMoves DEF IRecords
  <2>3. HoldsRecord(pc'[r], req'[r]) /\ ~Saves(r)' /\ ~Posts(r)' /\ ~Closes(r)' /\ ~Empties(r)'
    BY <2>2, AnsweredHolds
  <2>4. /\ DOMAIN rows' = DOMAIN rows
        /\ \A y \in DOMAIN rows : y # x => rows'[y] = rows[y]
        /\ rows'[x].of = rows[x].of /\ rows'[x].live = rows[x].live
        /\ rows'[x].key = IF h.key = NoKey THEN rows[x].key ELSE h.key
        /\ rows'[x].closed => rows[x].closed \/ h.closing = "close"
        /\ Placed(rows', lastId')
    BY <1>1, <1>3, <2>1, WritingKeeps
  <2>5. \A y : Bare(rows, y) => Bare(rows', y)
    BY <2>4 DEF Bare
  <2>6. Spares(r)
    <3>1. \A y : Shut(rows', y) => Shut(rows, y) \/ (y = x /\ h.closing = "close")
      BY <2>4 DEF Shut
    <3>2. h.closing = "close" => Closes(r) /\ h.on = x
      BY <1>0, <1>1 DEF Closes, IsCloser, HoldsChange
    <3>3. \A q \in Request : Posts(q) /\ h.closing = "close" /\ req[q].on = x => ClosingsRaced(x)
      BY <1>0, <3>2 DEF IRecords, PostsOK
    <3> QED
      BY <2>5, <3>1, <3>3 DEF Spares
  <2>7. PostingsExplained'
    BY <1>1, <2>2 DEF IRecords, PostsOK, PostingsExplained, Together
  <2>8. ASSUME NEW t \in Keyed
        PROVE  KeysOK(t)' \/ (QuietAt(rows, rows', t) /\ SameAt(rows, rows', t))
    <3>1. CASE t # x[1] \/ h.key = NoKey
      BY <2>4, <3>1 DEF QuietAt, SameAt, RowsAt
    <3>2. CASE t = x[1] /\ h.key # NoKey /\ h.kind = "change"
      BY <1>1, <2>1, <3>2 DEF HoldsChange, KeysOK, Excused
    <3>3. CASE t = x[1] /\ h.key # NoKey /\ h.kind = "save"
      <4>1. Saves(r) /\ h.on = AllOf(t) /\ t = "contact"
        BY <1>0, <1>1, <3>3 DEF HoldsChange, Saves, IsSaver
      <4>2. CASE Excused(t)
        BY <1>1, <2>1, <2>2, <4>2, ExcuseStays DEF KeysOK
      <4>3. CASE ~Excused(t)
        <5>1. KeysApart(rows, t) /\ OneSaver(t) /\ KeyFree(rows, t, h.key, x)
          BY <1>0, <1>1, <4>1, <4>3 DEF IRecords, KeysOK, Finds
        <5>2. KeysApart(rows', t)
          BY <2>4, <3>3, <5>1 DEF KeysApart, KeyFree
        <5>3. \A q \in Request : ~(Saves(q)' /\ req'[q].on = AllOf(t))
          BY <1>0, <2>2, <2>3, <4>1, <5>1 DEF OneSaver, Alone, Saves
        <5>4. OneSaver(t)'
          BY <5>3 DEF OneSaver
        <5> QED
          BY <4>1, <5>2, <5>3, <5>4 DEF KeysOK, Numbered
      <4> QED
        BY <4>2, <4>3
    <3> QED
      BY <1>1, <3>1, <3>2, <3>3 DEF HoldsChange
  <2> QED
    BY <1>1, <2>1, <2>2, <2>3, <2>4, <2>6, <2>7, <2>8, RecordsMove
<1> QED
  BY <1>2, <1>3
-----------------------------------------------------------------------------
(* A row is removed. *)
LEMMA FindToDropRowKeeps ==
  ASSUME IRecords, NEW r \in Request, NEW t, t # "assetTransaction", FindToDropRow(r, t)
  PROVE  IRecords'
<1>1. PICK x \in InUse(t) :
         Begin(r, "dropRow", [on |-> x, kind |-> "drop", id |-> x, counted |-> FALSE],
               RecordRivals)
  BY DEF FindToDropRow
<1> DEFINE h == [on |-> x, kind |-> "drop", id |-> x, counted |-> FALSE]
<1>2. HoldsRecord("dropRow", h) /\ "on" \in DOMAIN h
  BY DEF HoldsRecord, HoldsDrop, InUse, RowsOf
<1>3. ~IsSaver("dropRow", h) /\ ~IsPoster("dropRow", h) /\ ~h.counted
  BY DEF IsSaver, IsPoster
<1>4. UNCHANGED recordVars
  BY DEF FindToDropRow
<1> HIDE DEF h
<1> QED
  BY <1>1, <1>2, <1>3, <1>4, BeginKeepsRecords DEF h

LEMMA FindToDropEmptyKeeps ==
  ASSUME IRecords, NEW r \in Request, NEW t \in {"accountType", "account"},
         FindToDropEmpty(r, t)
  PROVE  IRecords'
<1>1. PICK x \in InUse(t) :
         Begin(r, "countBelow", [on |-> x, kind |-> "drop", id |-> x, counted |-> TRUE],
               RecordRivals)
  BY DEF FindToDropEmpty
<1> DEFINE h == [on |-> x, kind |-> "drop", id |-> x, counted |-> TRUE]
<1>2. x[1] = t /\ x \in {t} \X Nat
  BY <1>1 DEF InUse, RowsOf, IRecords, Placed
<1>3. HoldsRecord("countBelow", h) /\ "on" \in DOMAIN h
  BY <1>2 DEF HoldsRecord, HoldsDrop
<1>4. ~IsSaver("countBelow", h) /\ ~IsPoster("countBelow", h)
  BY DEF IsSaver, IsPoster
<1>5. UNCHANGED recordVars
  BY DEF FindToDropEmpty
<1> HIDE DEF h
<1> QED
  BY <1>1, <1>3, <1>4, <1>5, BeginKeepsRecords DEF h

LEMMA CountBelowKeeps ==
  ASSUME IRecords, NEW r \in Request, CountBelow(r) PROVE IRecords'
<1>1. PICK next : /\ next = (IF \E y \in DOMAIN rows : rows[y].of = req[r].id THEN "refused"
                                                                          ELSE "dropRow")
                  /\ Go(r, "countBelow", next)
  BY DEF CountBelow
<1>2. Wired' /\ Alone(r) /\ pc[r] = "countBelow" /\ pc'[r] = next /\ raced' = raced
  BY <1>1, GoMoves DEF IRecords
<1>3. UNCHANGED recordVars /\ UNCHANGED <<rows, lastId, unchecked, shrunk, lost, late>>
  BY DEF CountBelow, recordVars
<1>4. CASE next = "refused"
  BY <1>2, <1>3, <1>4, AnsweredHolds, RowsStand
<1>5. CASE next = "dropRow"
  <2>1. Bare(rows, req[r].id) /\ req'[r] = req[r]
    BY <1>1, <1>5, GoMoves DEF Bare, IRecords
  <2>2. HoldsDrop(req[r]) /\ req[r].counted
    BY <1>2 DEF IRecords, HoldsRecord
  <2>3. HoldsRecord(pc'[r], req'[r])
    BY <1>2, <1>5, <2>1, <2>2 DEF HoldsRecord
  <2>4. \A q \in Request :
          /\ req'[q] = req[q] /\ (q # r => pc'[q] = pc[q])
          /\ (Saves(q)' <=> Saves(q)) /\ (Posts(q)' <=> Posts(q))
          /\ (Closes(q)' <=> Closes(q)) /\ (Empties(q)' <=> Empties(q))
    BY <1>2, <1>5, <2>1 DEF Alone, Saves, Posts, Closes, Empties, IsSaver, IsPoster, IsCloser,
       IsEmptying
  <2>5. \A t \in Keyed : KeysOK(t)'
    <3>1. ~Saves(r)
      BY <1>2 DEF Saves, IsSaver
    <3>2. \A t : QuietAt(rows, rows', t) /\ SameAt(rows, rows', t)
      BY <1>3 DEF QuietAt, SameAt, RowsAt
    <3> QED
      BY <1>2, <1>3, <2>4, <3>1, <3>2, KeysStay
  <2>6. PostsOK'
    <3>1. PostingsExplained'
      BY <1>2, <1>3 DEF IRecords, PostsOK, PostingsExplained, Together
    <3>2. ASSUME NEW p \in Request, NEW q \in Request, Posts(p)', req'[p].on = req'[q].on
          PROVE  /\ Empties(q)' => DropsRaced(req[p].on)'
                 /\ Closes(q)' => ClosingsRaced(req[p].on)'
      <4>1. /\ Empties(q)' => DropsRaced(req[p].on)
            /\ Closes(q)' => ClosingsRaced(req[p].on)
        BY <2>4, <3>2 DEF IRecords, PostsOK
      <4> QED
        BY <1>2, <2>4, <4>1 DEF DropsRaced, ClosingsRaced, Together
    <3>3. ASSUME NEW q \in Request, Posts(q)'
          PROVE  ClosingsRaced(req[q].on)' \/ ~Shut(rows, req[q].on)'
      <4>1. ClosingsRaced(req[q].on) \/ ~Shut(rows, req[q].on)
        BY <2>4, <3>3 DEF IRecords, PostsOK
      <4> QED
        BY <1>2, <1>3, <2>4, <4>1 DEF ClosingsRaced, Together, Shut
    <3>4. ASSUME NEW q \in Request, Empties(q)', pc'[q] = "dropRow"
          PROVE  req'[q].id[1] = "accountType" \/ DropsRaced(req[q].id)' \/ Bare(rows, req[q].id)'
      <4>1. req[q].id[1] = "accountType" \/ DropsRaced(req[q].id) \/ Bare(rows, req[q].id)
        BY <2>1, <2>4, <3>4 DEF IRecords, PostsOK
      <4> QED
        BY <1>2, <1>3, <2>4, <4>1 DEF DropsRaced, Together, Bare
    <3> QED
      BY <3>1, <3>2, <3>3, <3>4 DEF PostsOK
  <2> QED
    BY <1>2, <1>3, <2>3, <2>5, <2>6, OthersHoldRecords DEF IRecords, Placed
<1> QED
  BY <1>1, <1>4, <1>5

\* Marking a row, or deleting it with what goes with it.
LEMMA MarkingKeeps ==
  ASSUME Placed(rows, lastId), NEW x, rows' = [rows EXCEPT ![x].live = FALSE], lastId' = lastId
  PROVE  /\ Placed(rows', lastId')
         /\ \A t : QuietAt(rows, rows', t) /\ SameAt(rows, rows', t)
         /\ \A y : (Shut(rows', y) => Shut(rows, y)) /\ (Bare(rows, y) => Bare(rows', y))
<1>1. rows = [y \in DOMAIN rows |-> rows[y]]
  BY DEF Placed
<1>2. /\ DOMAIN rows' = DOMAIN rows
      /\ rows' = [y \in DOMAIN rows' |-> rows'[y]]
      /\ \A y \in DOMAIN rows :
            rows'[y] = IF y = x THEN [rows[y] EXCEPT !.live = FALSE] ELSE rows[y]
  BY <1>1
<1>3. \A y \in DOMAIN rows :
         /\ rows'[y].of = rows[y].of /\ rows'[y].key = rows[y].key
         /\ (rows'[y].live => rows[y].live) /\ rows'[y].closed = rows[y].closed
         /\ rows'[y] \in [of : {rows'[y].of}, key : {rows'[y].key}, live : BOOLEAN,
                          closed : BOOLEAN]
  <2> SUFFICES ASSUME NEW y \in DOMAIN rows
               PROVE  /\ rows'[y].of = rows[y].of /\ rows'[y].key = rows[y].key
                      /\ (rows'[y].live => rows[y].live) /\ rows'[y].closed = rows[y].closed
                      /\ rows'[y] \in [of : {rows'[y].of}, key : {rows'[y].key},
                                       live : BOOLEAN, closed : BOOLEAN]
    OBVIOUS
  <2>1. rows[y] \in [of : {rows[y].of}, key : {rows[y].key}, live : BOOLEAN, closed : BOOLEAN]
    BY DEF Placed
  <2> QED
    BY <1>2, <2>1
<1>4. Placed(rows', lastId')
  BY <1>2, <1>3 DEF Placed
<1>5. \A t : QuietAt(rows, rows', t) /\ SameAt(rows, rows', t)
  BY <1>2, <1>3 DEF QuietAt, SameAt, RowsAt
<1>6. \A y : (Shut(rows', y) => Shut(rows, y)) /\ (Bare(rows, y) => Bare(rows', y))
  BY <1>2, <1>3 DEF Shut, Bare
<1> QED
  BY <1>4, <1>5, <1>6

LEMMA DeletionKeeps ==
  ASSUME Placed(rows, lastId), NEW x, Deleted(x), lastId' = lastId
  PROVE  /\ Placed(rows', lastId')
         /\ shrunk \subseteq shrunk'
         /\ \A t : QuietAt(rows, rows', t)
         /\ \A t : t # x[1] => t \in shrunk' \/ SameAt(rows, rows', t)
         /\ \A y : Shut(rows', y) => Shut(rows, y)
         /\ \A y : y # NoRow /\ Bare(rows, y) => Bare(rows', y)
<1> DEFINE G == GoesWith(x)
<1>1. /\ rows' = [y \in DOMAIN rows \ G |->
                     IF rows[y].of = x THEN [rows[y] EXCEPT !.of = NoRow] ELSE rows[y]]
      /\ shrunk' = shrunk \cup {y[1] : y \in G \ {x}}
  BY DEF Deleted
<1> HIDE DEF G
<1>2. /\ DOMAIN rows' = DOMAIN rows \ G
      /\ rows' = [y \in DOMAIN rows' |-> rows'[y]]
      /\ \A y \in DOMAIN rows' :
            rows'[y] = IF rows[y].of = x THEN [rows[y] EXCEPT !.of = NoRow] ELSE rows[y]
  BY <1>1
<1>3. \A y \in DOMAIN rows' :
         /\ rows'[y].of \in {rows[y].of, NoRow} /\ rows'[y].key = rows[y].key
         /\ rows'[y].live = rows[y].live /\ rows'[y].closed = rows[y].closed
         /\ rows'[y] \in [of : {rows'[y].of}, key : {rows'[y].key}, live : BOOLEAN,
                          closed : BOOLEAN]
  <2> SUFFICES ASSUME NEW y \in DOMAIN rows'
               PROVE  /\ rows'[y].of \in {rows[y].of, NoRow} /\ rows'[y].key = rows[y].key
                      /\ rows'[y].live = rows[y].live /\ rows'[y].closed = rows[y].closed
                      /\ rows'[y] \in [of : {rows'[y].of}, key : {rows'[y].key},
                                       live : BOOLEAN, closed : BOOLEAN]
    OBVIOUS
  <2>1. rows[y] \in [of : {rows[y].of}, key : {rows[y].key}, live : BOOLEAN, closed : BOOLEAN]
    BY <1>2 DEF Placed
  <2> QED
    BY <1>2, <2>1
<1>4. Placed(rows', lastId')
  BY <1>2, <1>3 DEF Placed
<1>5. \A t : QuietAt(rows, rows', t)
  BY <1>2, <1>3 DEF QuietAt
<1>6. ASSUME NEW t, t # x[1], t \notin shrunk' PROVE SameAt(rows, rows', t)
  <2>1. \A y \in G : y[1] # t
    BY <1>1, <1>6
  <2> QED
    BY <1>2, <1>3, <2>1 DEF SameAt, RowsAt
<1>7. \A y : Shut(rows', y) => Shut(rows, y)
  BY <1>2, <1>3 DEF Shut
<1>8. \A y : y # NoRow /\ Bare(rows, y) => Bare(rows', y)
  BY <1>2, <1>3 DEF Bare
<1>9. shrunk \subseteq shrunk'
  BY <1>1
<1> QED
  BY <1>4, <1>5, <1>6, <1>7, <1>8, <1>9

\* Nothing goes with what nothing belongs to, nor with a type of accounts.
LEMMA GoesAlone ==
  ASSUME Placed(rows, lastId), NEW x, x # NoRow, Deletable(x),
         Bare(rows, x) \/ x[1] = "accountType"
  PROVE  GoesWith(x) = {x}
<1>1. Belonging({x}, "cascade") = {}
  <2> SUFFICES ASSUME NEW y \in DOMAIN rows, rows[y].of = x, Schema[y[1]].gone = "cascade"
               PROVE  FALSE
    BY DEF Belonging
  <2>1. x[1] = "accountType" /\ x[1] = Schema[y[1]].of /\ y[1] \in Tables
    BY DEF Bare, Placed
  <2>2. Schema[y[1]].gone = "restrict"
    BY <2>1, SchemaWellMade DEF WellMade
  <2> QED
    BY <2>2
<1>2. Belonging({}, "cascade") = {}
  BY DEF Belonging
<1> QED
  BY <1>1, <1>2 DEF GoesWith

LEMMA DropRowKeeps ==
  ASSUME IRecords, NEW r \in Request, DropRow(r) PROVE IRecords'
<1>0. PICK h, x : h = req[r] /\ x = h.id
  OBVIOUS
<1>1. /\ pc[r] = "dropRow" /\ HoldsDrop(h) /\ Placed(rows, lastId)
      /\ UNCHANGED <<lastId, unchecked, late>>
  BY <1>0 DEF DropRow, IRecords, HoldsRecord
<1>2. PICK next \in {"ok", "error"} : Go(r, "dropRow", next)
  BY DEF DropRow
<1>3. Wired' /\ Alone(r) /\ pc'[r] \in Answered /\ raced' = raced
  BY <1>2, GoMoves DEF IRecords
<1>4. HoldsRecord(pc'[r], req'[r]) /\ ~Saves(r)' /\ ~Posts(r)' /\ ~Closes(r)' /\ ~Empties(r)'
  BY <1>3, AnsweredHolds
<1>5. CASE Schema[x[1]].drop = "soft" /\ x \in DOMAIN rows
  <2>1. rows' = [rows EXCEPT ![x].live = FALSE] /\ UNCHANGED <<shrunk, lost>>
    BY <1>0, <1>5 DEF DropRow
  <2>2. /\ Placed(rows', lastId')
        /\ \A t : QuietAt(rows, rows', t) /\ SameAt(rows, rows', t)
        /\ \A y : (Shut(rows', y) => Shut(rows, y)) /\ (Bare(rows, y) => Bare(rows', y))
    BY <1>1, <2>1, MarkingKeeps
  <2>3. Spares(r)
    BY <2>2, AllSpared
  <2>4. PostingsExplained'
    BY <1>1, <1>3, <2>1 DEF IRecords, PostsOK, PostingsExplained, Together
  <2> QED
    BY <1>1, <1>3, <1>4, <2>1, <2>2, <2>3, <2>4, RecordsMove
<1>6. CASE ~(Schema[x[1]].drop = "soft" /\ x \in DOMAIN rows)
           /\ Schema[x[1]].drop = "hard" /\ Deletable(x)
  <2>1. /\ Deleted(x)
        /\ lost' = IF h.counted /\ GoesWith(x) # {x} THEN lost \cup {x} ELSE lost
    BY <1>0, <1>6 DEF DropRow
  <2>2. /\ Placed(rows', lastId')
        /\ shrunk \subseteq shrunk'
        /\ \A t : QuietAt(rows, rows', t)
        /\ \A t : t # x[1] => t \in shrunk' \/ SameAt(rows, rows', t)
        /\ \A y : Shut(rows', y) => Shut(rows, y)
        /\ \A y : y # NoRow /\ Bare(rows, y) => Bare(rows', y)
    BY <1>1, <2>1, DeletionKeeps
  <2>3. Spares(r)
    BY <2>2, AllSpared, PairIsRow
  <2>4. ASSUME NEW t \in Keyed, t \in Numbered PROVE t # x[1]
    <3>1. Schema["expense"].drop = "soft"
      BY SomeTables, SchemaWellMade DEF Keyed, WellMade
    <3>2. x[1] # "assetTransaction" /\ x[1] # "expense"
      BY <1>0, <1>1, <1>6, <3>1 DEF HoldsDrop
    <3> QED
      BY <2>4, <3>2 DEF Numbered
  <2>5. ASSUME h.counted, GoesWith(x) # {x} PROVE x[1] = "account" /\ DropsRaced(x)
    <3>1. Empties(r) /\ x \in {"accountType", "account"} \X Nat
      BY <1>0, <1>1, <2>5 DEF Empties, IsEmptying, HoldsDrop
    <3>2. x[1] = "accountType" \/ DropsRaced(x) \/ Bare(rows, x)
      BY <1>0, <1>1, <3>1 DEF IRecords, PostsOK
    <3>3. x # NoRow
      BY <3>1, PairIsRow
    <3> QED
      BY <1>1, <1>6, <2>5, <3>1, <3>2, <3>3, GoesAlone
  <2>6. PostingsExplained'
    BY <1>1, <1>3, <2>1, <2>5 DEF IRecords, PostsOK, PostingsExplained, DropsRaced, Together
  <2> QED
    BY <1>1, <1>3, <1>4, <2>2, <2>3, <2>4, <2>6, RecordsMove
<1>7. CASE /\ ~(Schema[x[1]].drop = "soft" /\ x \in DOMAIN rows)
           /\ ~(Schema[x[1]].drop = "hard" /\ Deletable(x))
  <2>1. UNCHANGED <<rows, shrunk, lost>>
    BY <1>0, <1>7 DEF DropRow
  <2>2. UNCHANGED recordVars
    BY <1>1, <2>1 DEF recordVars
  <2> QED
    BY <1>3, <1>4, <2>2, RowsStand
<1> QED
  BY <1>5, <1>6, <1>7

LEMMA DropNowKeeps ==
  ASSUME IRecords, NEW r \in Request, NEW t, t # "assetTransaction", DropNow(r, t)
  PROVE  IRecords'
<1>1. PICK x \in RowsOf(t) :
         /\ Arrive(r, "ok", Nothing)
         /\ IF Schema[t].drop = "soft"
            THEN rows' = [rows EXCEPT ![x].live = FALSE] /\ UNCHANGED shrunk
            ELSE Deletable(x) /\ Deleted(x)
         /\ UNCHANGED <<lastId, unchecked, lost, late>>
  BY DEF DropNow
<1>2. Wired' /\ Alone(r) /\ pc'[r] \in Answered /\ raced' = raced
  BY <1>1, ArriveMoves DEF IRecords
<1>3. HoldsRecord(pc'[r], req'[r]) /\ ~Saves(r)' /\ ~Posts(r)' /\ ~Closes(r)' /\ ~Empties(r)'
  BY <1>2, AnsweredHolds
<1>4. PostingsExplained'
  BY <1>1, <1>2 DEF IRecords, PostsOK, PostingsExplained, Together
<1>5. Placed(rows, lastId) /\ x[1] = t
  BY <1>1 DEF IRecords, RowsOf
<1>6. CASE Schema[t].drop = "soft"
  <2>1. /\ Placed(rows', lastId')
        /\ \A u : QuietAt(rows, rows', u) /\ SameAt(rows, rows', u)
        /\ \A y : (Shut(rows', y) => Shut(rows, y)) /\ (Bare(rows, y) => Bare(rows', y))
    BY <1>1, <1>5, <1>6, MarkingKeeps
  <2>2. Spares(r)
    BY <2>1, AllSpared
  <2> QED
    BY <1>1, <1>2, <1>3, <1>4, <1>6, <2>1, <2>2, RecordsMove
<1>7. CASE Schema[t].drop # "soft"
  <2>1. /\ Placed(rows', lastId')
        /\ shrunk \subseteq shrunk'
        /\ \A u : QuietAt(rows, rows', u)
        /\ \A u : u # x[1] => u \in shrunk' \/ SameAt(rows, rows', u)
        /\ \A y : Shut(rows', y) => Shut(rows, y)
        /\ \A y : y # NoRow /\ Bare(rows, y) => Bare(rows', y)
    BY <1>1, <1>5, <1>7, DeletionKeeps
  <2>2. Spares(r)
    BY <2>1, AllSpared, PairIsRow
  <2>3. \A u \in Numbered : u # t
    BY <1>7, SomeTables, SchemaWellMade DEF Numbered, Keyed, WellMade
  <2> QED
    BY <1>1, <1>2, <1>3, <1>4, <1>5, <2>1, <2>2, <2>3, RecordsMove
<1> QED
  BY <1>6, <1>7
-----------------------------------------------------------------------------
(* Recipes. *)
LEMMA CreateRecipeKeeps ==
  ASSUME IRecords, NEW r \in Request, CreateRecipe(r) PROVE IRecords'
<1>1. PICK parts \in {0, 1} :
         /\ Arrive(r, "ok", Nothing)
         /\ lastId' = lastId + 1 + parts
         /\ LET recipe == <<"recipe", lastId + 1>>
                new == {recipe} \cup
                       {<<"ingredient", i>> : i \in (lastId + 2)..(lastId + 1 + parts)}
            IN  rows' = [x \in DOMAIN rows \cup new |->
                            IF x = recipe THEN NewRow(NoRow, NoKey)
                            ELSE IF x \in new THEN NewRow(recipe, NoKey) ELSE rows[x]]
         /\ NoRecordHistory
  BY DEF CreateRecipe
<1>2. Placed(rows, lastId) /\ lastId \in Nat /\ DOMAIN rows \subseteq Tables \X (1..lastId)
  BY DEF IRecords, Placed
<1>3. PICK recipe, new : /\ recipe = <<"recipe", lastId + 1>>
                         /\ new = {recipe} \cup {<<"ingredient", i>> :
                                      i \in (lastId + 2)..(lastId + 1 + parts)}
  OBVIOUS
<1>4. /\ rows' = [x \in DOMAIN rows \cup new |->
                     IF x = recipe THEN NewRow(NoRow, NoKey)
                     ELSE IF x \in new THEN NewRow(recipe, NoKey) ELSE rows[x]]
      /\ UNCHANGED <<unchecked, shrunk, lost, late>>
  BY <1>1, <1>3 DEF NoRecordHistory
<1>5. Wired' /\ Alone(r) /\ pc'[r] \in Answered /\ raced' = raced
  BY <1>1, ArriveMoves DEF IRecords
<1>6. /\ new \cap DOMAIN rows = {} /\ recipe \in new /\ recipe[1] = "recipe" /\ recipe # NoRow
      /\ \A x \in new : x[1] \in {"recipe", "ingredient"} /\ (x # recipe => x[1] = "ingredient")
  BY <1>1, <1>2, <1>3 DEF NoRow
<1>7. new \subseteq Tables \X (1..lastId') /\ lastId' \in Nat /\ lastId' > lastId
  BY <1>1, <1>2, <1>3, SomeTables
<1>8. /\ DOMAIN rows' = DOMAIN rows \cup new
      /\ rows' = [x \in DOMAIN rows' |-> rows'[x]]
      /\ \A x \in DOMAIN rows : rows'[x] = rows[x]
      /\ \A x \in new : rows'[x] = NewRow(IF x = recipe THEN NoRow ELSE recipe, NoKey)
  BY <1>4, <1>6
<1>9. DOMAIN rows' \subseteq Tables \X (1..lastId')
  BY <1>2, <1>7, <1>8
<1>10. ASSUME NEW x \in DOMAIN rows'
       PROVE  /\ rows'[x] \in [of : {rows'[x].of}, key : {rows'[x].key}, live : BOOLEAN,
                               closed : BOOLEAN]
              /\ rows'[x].of # NoRow => rows'[x].of[1] = Schema[x[1]].of
  <2>1. CASE x \in DOMAIN rows
    BY <1>2, <1>8, <2>1 DEF Placed
  <2>2. CASE x \in new
    <3>1. PICK of : rows'[x] = NewRow(of, NoKey) /\ of = IF x = recipe THEN NoRow ELSE recipe
      BY <1>8, <2>2
    <3>2. NewRow(of, NoKey) \in [of : {of}, key : {NoKey}, live : BOOLEAN, closed : BOOLEAN]
      BY DEF NewRow
    <3>3. rows'[x].of = of /\ rows'[x].key = NoKey
      BY <3>1 DEF NewRow
    <3>4. Schema["ingredient"].of = "recipe"
      BY SomeTables, SchemaWellMade DEF WellMade
    <3> QED
      BY <1>6, <2>2, <3>1, <3>2, <3>3, <3>4
  <2> QED
    BY <1>8, <2>1, <2>2
<1>11. Placed(rows', lastId')
  BY <1>7, <1>8, <1>9, <1>10 DEF Placed
<1>12. \A u \in Keyed : QuietAt(rows, rows', u) /\ SameAt(rows, rows', u)
  <2>1. \A x \in new : x[1] \notin Keyed
    BY <1>6 DEF Keyed
  <2> QED
    BY <1>8, <2>1 DEF QuietAt, SameAt, RowsAt
<1>13. \A x : Shut(rows', x) => Shut(rows, x)
  BY <1>8 DEF Shut, NewRow
<1>14. \A x \in {"account"} \X Nat : Bare(rows, x) => Bare(rows', x)
  <2>1. \A x \in {"account"} \X Nat : x # NoRow /\ x # recipe
    BY <1>6, PairIsRow
  <2> QED
    BY <1>8, <2>1 DEF Bare, NewRow
<1>15. Spares(r)
  BY <1>13, <1>14, AllSpared
<1>16. PostingsExplained'
  BY <1>4, <1>5 DEF IRecords, PostsOK, PostingsExplained, Together
<1> QED
  BY <1>4, <1>5, <1>11, <1>12, <1>15, <1>16, AnsweredHolds, RecordsMove

LEMMA FindRecipeKeeps ==
  ASSUME IRecords, NEW r \in Request, FindRecipe(r) PROVE IRecords'
<1>1. PICK x \in RowsOf("recipe") : Arrive(r, "storeRecipe", [id |-> x])
  BY DEF FindRecipe
<1>2. /\ Wired' /\ Alone(r) /\ pc'[r] = "storeRecipe" /\ req'[r] = [id |-> x]
      /\ raced' = raced
  BY <1>1, ArriveMoves DEF IRecords
<1>3. x \in {"recipe"} \X Nat
  BY <1>1 DEF RowsOf, IRecords, Placed
<1>4. HoldsRecord(pc'[r], req'[r]) /\ ~Saves(r)' /\ ~Posts(r)' /\ ~Closes(r)' /\ ~Empties(r)'
  BY <1>2, <1>3 DEF HoldsRecord, Saves, Posts, Closes, Empties, IsSaver, IsPoster, IsCloser,
     IsEmptying
<1>5. UNCHANGED recordVars
  BY DEF FindRecipe
<1> QED
  BY <1>2, <1>4, <1>5, RowsStand

\* Ingredients of a recipe are taken away; one may be added.
LEMMA StoringKeeps ==
  ASSUME Placed(rows, lastId), NEW x \in {"recipe"} \X Nat, NEW new, NEW kept,
         kept = DOMAIN rows \ Belonging({x}, "cascade"),
         \/ new = {} /\ lastId' = lastId
         \/ new = {<<"ingredient", lastId + 1>>} /\ lastId' = lastId + 1,
         DOMAIN rows' = kept \cup new, rows' = [y \in DOMAIN rows' |-> rows'[y]],
         \A y \in kept \ new : rows'[y] = rows[y],
         \A y \in new : rows'[y] = NewRow(x, NoKey)
  PROVE  /\ Placed(rows', lastId')
         /\ \A u \in Keyed : QuietAt(rows, rows', u) /\ SameAt(rows, rows', u)
         /\ \A y : Shut(rows', y) => Shut(rows, y)
         /\ \A y \in {"account"} \X Nat : Bare(rows, y) => Bare(rows', y)
<1>1. /\ lastId \in Nat /\ DOMAIN rows \subseteq Tables \X (1..lastId) /\ lastId' \in Nat
      /\ lastId' >= lastId
  BY DEF Placed
<1>2. Schema["ingredient"].of = "recipe"
  BY SomeTables, SchemaWellMade DEF WellMade
<1>3. /\ new \cap DOMAIN rows = {} /\ new \subseteq Tables \X (1..lastId')
      /\ \A y \in new : y[1] = "ingredient"
  BY <1>1, SomeTables
<1>4. \A y \in DOMAIN rows \ kept : y[1] = "ingredient"
  <2> SUFFICES ASSUME NEW y \in DOMAIN rows, rows[y].of = x PROVE y[1] = "ingredient"
    BY DEF Belonging
  <2>1. x # NoRow /\ x[1] = "recipe"
    BY PairIsRow
  <2>2. Schema[y[1]].of = "recipe" /\ y[1] \in Tables
    BY <1>1, <2>1 DEF Placed
  <2> QED
    BY <2>2, SchemaWellMade DEF WellMade
<1>5. kept \subseteq DOMAIN rows
  OBVIOUS
<1>6. \A y \in kept : rows'[y] = rows[y]
  BY <1>3, <1>5
<1>7. DOMAIN rows' \subseteq Tables \X (1..lastId')
  BY <1>1, <1>3, <1>5, <1>6
<1>8. ASSUME NEW y \in DOMAIN rows'
       PROVE  /\ rows'[y] \in [of : {rows'[y].of}, key : {rows'[y].key}, live : BOOLEAN,
                               closed : BOOLEAN]
              /\ rows'[y].of # NoRow => rows'[y].of[1] = Schema[y[1]].of
  <2>1. CASE y \in kept
    BY <1>5, <1>6, <2>1 DEF Placed
  <2>2. CASE y \in new
    <3>1. NewRow(x, NoKey) \in [of : {x}, key : {NoKey}, live : BOOLEAN, closed : BOOLEAN]
      BY DEF NewRow
    <3>2. rows'[y].of = x /\ rows'[y].key = NoKey
      BY <1>6, <2>2 DEF NewRow
    <3> QED
      BY <1>2, <1>3, <1>6, <2>2, <3>1, <3>2
  <2> QED
    BY <1>6, <2>1, <2>2
<1>9. Placed(rows', lastId')
  BY <1>1, <1>6, <1>7, <1>8 DEF Placed
<1>10. \A u \in Keyed : QuietAt(rows, rows', u) /\ SameAt(rows, rows', u)
  <2>1. "ingredient" \notin Keyed
    BY DEF Keyed
  <2>2. \A y \in DOMAIN rows' : y[1] \in Keyed => y \in DOMAIN rows /\ rows'[y] = rows[y]
    BY <1>3, <1>5, <1>6, <2>1
  <2>3. \A y \in DOMAIN rows : y[1] \in Keyed => y \in DOMAIN rows'
    BY <1>4, <1>6, <2>1
  <2> QED
    BY <2>2, <2>3 DEF QuietAt, SameAt, RowsAt
<1>11. \A y : Shut(rows', y) => Shut(rows, y)
  BY <1>5, <1>6 DEF Shut, NewRow
<1>12. \A y \in {"account"} \X Nat : Bare(rows, y) => Bare(rows', y)
  <2>1. \A y \in {"account"} \X Nat : y # x
    OBVIOUS
  <2>2. \A z \in new : rows'[z].of = x
    BY DEF NewRow
  <2> QED
    BY <1>5, <1>6, <2>1, <2>2 DEF Bare
<1> QED
  BY <1>9, <1>10, <1>11, <1>12

LEMMA StoreRecipeKeeps ==
  ASSUME IRecords, NEW r \in Request, StoreRecipe(r) PROVE IRecords'
<1>0. PICK x : x = req[r].id
  OBVIOUS
<1>1. /\ x \in {"recipe"} \X Nat /\ Placed(rows, lastId)
      /\ UNCHANGED <<unchecked, shrunk, lost, late>>
  BY <1>0 DEF StoreRecipe, NoRecordHistory, IRecords, HoldsRecord
<1>2. PICK next \in {"ok", "error"} : Go(r, "storeRecipe", next)
  BY DEF StoreRecipe
<1>3. Wired' /\ Alone(r) /\ pc'[r] \in Answered /\ raced' = raced
  BY <1>2, GoMoves DEF IRecords
<1>4. HoldsRecord(pc'[r], req'[r]) /\ ~Saves(r)' /\ ~Posts(r)' /\ ~Closes(r)' /\ ~Empties(r)'
  BY <1>3, AnsweredHolds
<1>5. CASE UNCHANGED <<rows, lastId>>
  <2>1. UNCHANGED recordVars
    BY <1>1, <1>5 DEF recordVars
  <2> QED
    BY <1>3, <1>4, <2>1, RowsStand
<1>6. CASE ~UNCHANGED <<rows, lastId>>
  <2>0. PICK kept : kept = DOMAIN rows \ Belonging({x}, "cascade")
    OBVIOUS
  <2>1. PICK new :
           /\ \/ new = {} /\ lastId' = lastId
              \/ new = {<<"ingredient", lastId + 1>>} /\ lastId' = lastId + 1
           /\ DOMAIN rows' = kept \cup new /\ rows' = [y \in DOMAIN rows' |-> rows'[y]]
           /\ \A y \in kept \ new : rows'[y] = rows[y]
           /\ \A y \in new : rows'[y] = NewRow(x, NoKey)
    <3>1. CASE rows' = [y \in kept |-> rows[y]] /\ lastId' = lastId
      <4>1. PICK new : new = {}
        OBVIOUS
      <4> QED
        BY <3>1, <4>1
    <3>2. CASE /\ lastId' = lastId + 1
               /\ rows' = [y \in kept \cup {<<"ingredient", lastId + 1>>} |->
                              IF y = <<"ingredient", lastId + 1>> THEN NewRow(x, NoKey)
                              ELSE rows[y]]
      <4>1. PICK new : new = {<<"ingredient", lastId + 1>>}
        OBVIOUS
      <4>2. rows' = [y \in kept \cup new |-> IF y \in new THEN NewRow(x, NoKey) ELSE rows[y]]
        BY <3>2, <4>1
      <4>3. /\ DOMAIN rows' = kept \cup new /\ rows' = [y \in DOMAIN rows' |-> rows'[y]]
            /\ \A y \in kept \ new : rows'[y] = rows[y]
            /\ \A y \in new : rows'[y] = NewRow(x, NoKey)
        BY <4>2
      <4> QED
        BY <3>2, <4>1, <4>3
    <3> QED
      BY <1>0, <1>6, <2>0, <3>1, <3>2 DEF StoreRecipe
  <2>2. /\ Placed(rows', lastId')
        /\ \A u \in Keyed : QuietAt(rows, rows', u) /\ SameAt(rows, rows', u)
        /\ \A y : Shut(rows', y) => Shut(rows, y)
        /\ \A y \in {"account"} \X Nat : Bare(rows, y) => Bare(rows', y)
    BY <1>1, <2>0, <2>1, StoringKeeps
  <2>3. Spares(r)
    BY <2>2, AllSpared
  <2>4. PostingsExplained'
    BY <1>1, <1>3 DEF IRecords, PostsOK, PostingsExplained, Together
  <2> QED
    BY <1>1, <1>3, <1>4, <2>2, <2>3, <2>4, RecordsMove
<1> QED
  BY <1>5, <1>6
-----------------------------------------------------------------------------
(* Contacts imported. *)
LEMMA ImportContactsKeeps ==
  ASSUME IRecords, NEW r \in Request, ImportContacts(r) PROVE IRecords'
<1> DEFINE h == [on |-> AllOf("contact"), kind |-> "save"]
<1>1. Begin(r, "importContact", h, RecordRivals) /\ UNCHANGED recordVars
  BY DEF ImportContacts
<1>2. HoldsRecord("importContact", h) /\ "on" \in DOMAIN h
  BY DEF HoldsRecord, HoldsImport
<1>3. ~IsPoster("importContact", h) /\ \A u : Finds("importContact", h, rows, u)
  BY DEF IsPoster, Finds
<1> HIDE DEF h
<1> QED
  BY <1>1, <1>2, <1>3, BeginKeepsRecords

LEMMA ImportContactKeeps ==
  ASSUME IRecords, NEW r \in Request, ImportContact(r) PROVE IRecords'
<1>1. PICK k \in Key :
         /\ ~KeyTaken("contact", k, NoRow)
         /\ Hold(r, "importContact", "insertContact",
                 [on |-> AllOf("contact"), kind |-> "save", key |-> k])
  BY DEF ImportContact
<1>2. PICK h : h = [on |-> AllOf("contact"), kind |-> "save", key |-> k]
  OBVIOUS
<1>3. /\ Wired' /\ Alone(r) /\ pc[r] = "importContact" /\ pc'[r] = "insertContact"
      /\ req'[r] = h /\ raced' = raced
  BY <1>1, <1>2, HoldMoves DEF IRecords
<1>4. UNCHANGED recordVars /\ UNCHANGED <<rows, lastId, unchecked, shrunk, lost, late>>
  BY DEF ImportContact, recordVars
<1>5. HoldsImport(req[r])
  BY <1>3 DEF IRecords, HoldsRecord
<1>6. HoldsRecord(pc'[r], req'[r])
  BY <1>2, <1>3, RecordAssumption DEF HoldsRecord, HoldsImport
<1>7. ~Posts(r)' /\ ~Closes(r)' /\ ~Empties(r)'
  BY <1>3 DEF Posts, Closes, Empties, IsPoster, IsCloser, IsEmptying
<1>8. \A t : QuietAt(rows, rows', t) /\ SameAt(rows, rows', t)
  BY <1>4 DEF QuietAt, SameAt, RowsAt
<1>9. PostsOK'
  <2>1. PostingsExplained'
    BY <1>3, <1>4 DEF IRecords, PostsOK, PostingsExplained, Together
  <2> QED
    BY <1>3, <1>4, <1>7, <2>1, PostsStay
<1>10. KeysOK("contact")'
  <2>1. PICK t : t = "contact" /\ t \in Keyed
    BY DEF Keyed
  <2>2. Saves(r) /\ req[r].on = AllOf(t) /\ h.on = AllOf(t)
    BY <1>2, <1>3, <1>5, <2>1 DEF Saves, IsSaver, HoldsImport
  <2>3. CASE Excused(t)
    BY <1>3, <1>4, <2>1, <2>3, ExcuseStays DEF KeysOK
  <2>4. CASE ~Excused(t)
    <3>1. KeysApart(rows, t) /\ OneSaver(t) /\ t \notin Numbered
      BY <2>1, <2>4 DEF IRecords, KeysOK, Numbered
    <3>2. KeyFree(rows, t, k, NoRow)
      BY <1>1, <2>1 DEF KeyTaken, KeyFree, InUse, RowsOf
    <3>3. \A q \in Request : Saves(q)' /\ req'[q].on = AllOf(t) => q = r
      BY <1>3, <2>2, <3>1 DEF OneSaver, Alone, Saves
    <3>4. OneSaver(t)'
      BY <3>3 DEF OneSaver
    <3>5. Finds("insertContact", h, rows, t)
      BY <1>2, <3>1, <3>2 DEF Finds
    <3>6. \A q \in Request : Saves(q)' /\ req'[q].on = AllOf(t) => Finds(pc'[q], req'[q], rows', t)
      BY <1>3, <1>4, <3>3, <3>5
    <3>7. KeysOK(t)'
      BY <1>4, <3>1, <3>4, <3>6 DEF KeysOK
    <3> QED
      BY <2>1, <3>7
  <2> QED
    BY <2>3, <2>4
<1>11. ASSUME NEW t \in Keyed PROVE KeysOK(t)'
  <2>1. CASE t = "contact"
    BY <1>10, <2>1
  <2>2. CASE t # "contact"
    <3>1. req'[r].on # AllOf(t)
      BY <1>2, <1>3, <2>2 DEF AllOf
    <3> QED
      BY <1>3, <1>4, <1>8, <3>1, KeysStay
  <2> QED
    BY <2>1, <2>2
<1> QED
  BY <1>3, <1>4, <1>6, <1>9, <1>11, OthersHoldRecords DEF IRecords, Placed

LEMMA InsertContactKeeps ==
  ASSUME IRecords, NEW r \in Request, InsertContact(r) PROVE IRecords'
<1>1. /\ pc[r] = "insertContact" /\ Inserted("contact", NoRow, req[r].key)
      /\ Go(r, "insertContact", "importContact") /\ UNCHANGED <<unchecked, shrunk, lost, late>>
  BY DEF InsertContact, NoRecordHistory
<1>2. /\ Wired' /\ Alone(r) /\ pc'[r] = "importContact" /\ req'[r] = req[r] /\ raced' = raced
  BY <1>1, GoMoves DEF IRecords
<1>3. HoldsImport(req[r]) /\ req[r].key \in Nat
  BY <1>1 DEF IRecords, HoldsRecord
<1>4. HoldsRecord(pc'[r], req'[r])
  BY <1>2, <1>3 DEF HoldsRecord
<1>5. ~Posts(r)' /\ ~Closes(r)' /\ ~Empties(r)'
  BY <1>2 DEF Posts, Closes, Empties, IsPoster, IsCloser, IsEmptying
<1>6. Saves(r) /\ req[r].on = AllOf("contact")
  BY <1>1, <1>3 DEF Saves, IsSaver, HoldsImport
<1>7. "contact" \in Keyed /\ "contact" \in Tables /\ Keyed \subseteq Tables
      /\ Placed(rows, lastId)
  BY SomeTables DEF Keyed, IRecords
<1>8. /\ Placed(rows', lastId')
      /\ \A u \in Tables \ {"contact"} : QuietAt(rows, rows', u) /\ SameAt(rows, rows', u)
      /\ \A x : Shut(rows', x) => Shut(rows, x)
      /\ \A x : x # NoRow /\ Bare(rows, x) => Bare(rows', x)
  BY <1>1, <1>7, InsertionKeeps
<1>9. KeysOK("contact")'
  BY <1>1, <1>2, <1>3, <1>6, <1>7, SavedRowIsApart
<1>10. Spares(r)
  BY <1>8, AllSpared, PairIsRow
<1>11. PostingsExplained'
  BY <1>1, <1>2 DEF IRecords, PostsOK, PostingsExplained, Together
<1> QED
  BY <1>1, <1>2, <1>4, <1>5, <1>6, <1>7, <1>8, <1>9, <1>10, <1>11, RecordsMove

LEMMA ImportedContactsKeeps ==
  ASSUME IRecords, NEW r \in Request, ImportedContacts(r) PROVE IRecords'
<1>1. Go(r, "importContact", "ok") /\ UNCHANGED recordVars
  BY DEF ImportedContacts
<1>2. Wired' /\ Alone(r) /\ pc'[r] \in Answered /\ raced' = raced
  BY <1>1, GoMoves DEF IRecords
<1> QED
  BY <1>1, <1>2, AnsweredHolds, RowsStand

LEMMA RecordsFailKeeps ==
  ASSUME IRecords, NEW r \in Request, Fail(r), UNCHANGED recordVars PROVE IRecords'
<1>1. Wired' /\ Alone(r) /\ pc'[r] \in Answered /\ raced' = raced
  BY FailMoves DEF IRecords
<1> QED
  BY <1>1, AnsweredHolds, RowsStand

LEMMA RecordsHaltKeeps ==
  ASSUME IRecords, Halt, UNCHANGED recordVars PROVE IRecords'
<1>1. /\ Wired' /\ raced' = raced
      /\ \A q \in Request : ~Busy(q)' /\ (~Busy(q) => pc'[q] = pc[q])
  BY HaltMoves DEF IRecords
<1>2. UNCHANGED <<rows, lastId, unchecked, shrunk, lost, late>>
  BY DEF recordVars
<1>3. \A q \in Request : pc'[q] \in Answered \cup {"new"}
  BY <1>1 DEF Busy
<1>4. \A q \in Request : /\ HoldsRecord(pc'[q], req'[q])
                         /\ ~Saves(q)' /\ ~Posts(q)' /\ ~Closes(q)' /\ ~Empties(q)'
  BY <1>3 DEF HoldsRecord, Saves, Posts, Closes, Empties, IsSaver, IsPoster, IsCloser,
     IsEmptying
<1>5. \A t \in Keyed : KeysOK(t)'
  <2> SUFFICES ASSUME NEW t \in Keyed PROVE KeysOK(t)'
    OBVIOUS
  <2>1. CASE Excused(t)
    BY <1>1, <1>2, <2>1, ExcuseStays DEF KeysOK
  <2>2. CASE ~Excused(t)
    <3>1. KeysApart(rows, t) /\ (t \in Numbered => UpToSize(rows, t))
      BY <2>2 DEF IRecords, KeysOK
    <3>2. OneSaver(t)'
      BY <1>4 DEF OneSaver
    <3> QED
      BY <1>2, <1>4, <3>1, <3>2 DEF KeysOK
  <2> QED
    BY <2>1, <2>2
<1>6. PostingsExplained'
  BY <1>1, <1>2 DEF IRecords, PostsOK, PostingsExplained, Together
<1>7. PostsOK'
  BY <1>4, <1>6 DEF PostsOK
<1> QED
  BY <1>1, <1>2, <1>4, <1>5, <1>7 DEF IRecords, Placed

LEMMA RecordsStill == IRecords /\ UNCHANGED <<requestVars, recordVars>> => IRecords'
<1> SUFFICES ASSUME IRecords, UNCHANGED <<requestVars, recordVars>> PROVE IRecords'
  OBVIOUS
<1>1. UNCHANGED <<pc, req, raced, rows, lastId, unchecked, shrunk, lost, late>>
  BY DEF requestVars, recordVars
<1>2. Wired' /\ Placed(rows', lastId') /\ \A r \in Request : HoldsRecord(pc'[r], req'[r])
  BY <1>1 DEF IRecords, Wired
<1>3. \A r \in Request : /\ (Saves(r)' <=> Saves(r)) /\ (Posts(r)' <=> Posts(r))
                         /\ (Closes(r)' <=> Closes(r)) /\ (Empties(r)' <=> Empties(r))
  BY <1>1 DEF Saves, Posts, Closes, Empties
<1>4. \A t \in Keyed : KeysOK(t)'
  <2> SUFFICES ASSUME NEW t \in Keyed PROVE KeysOK(t)'
    OBVIOUS
  <2>1. KeysOK(t)
    BY DEF IRecords
  <2> QED
    BY <1>1, <1>3, <2>1 DEF KeysOK, Excused, SavesRaced, Together, OneSaver
<1>5. PostsOK'
  BY <1>1, <1>3 DEF IRecords, PostsOK, PostingsExplained, DropsRaced, ClosingsRaced, Together
<1> QED
  BY <1>2, <1>4, <1>5 DEF IRecords, Placed
-----------------------------------------------------------------------------
(* The operations of the services. *)
\* Tables of which a row is made in one statement, with no key.
PlainTables ==
    {"brand", "customerGroup", "warranty", "priceGroup", "discount", "template", "location",
     "expenseCategory", "variationTemplate", "valueTemplate", "productVariation", "variation",
     "campaign", "schedule", "callLog", "leaveType", "leave", "payroll", "document", "reminder",
     "package", "subscription", "roomType", "room", "extra", "bookingLine", "project", "task",
     "timeLog", "comment", "repairStatus", "deviceModel", "jobSheet", "asset", "assetWarranty",
     "maintenance", "ingredientGroup", "accountType", "diningTable", "booking"}

LEMMA PlainTablesAre == PlainTables \subseteq Tables \ (Numbered \cup {"posting"})
<1>1. \A g \in Groups : DOMAIN g \subseteq Tables
  BY DEF Tables
<1>2. /\ {"brand"} \subseteq DOMAIN BrandTables
      /\ {"customerGroup"} \subseteq DOMAIN CustomerGroupTables
      /\ {"warranty"} \subseteq DOMAIN WarrantyTables
      /\ {"priceGroup"} \subseteq DOMAIN PriceGroupTables
      /\ {"discount"} \subseteq DOMAIN DiscountTables
      /\ {"template"} \subseteq DOMAIN TemplateTables
      /\ {"location"} \subseteq DOMAIN LocationTables
      /\ {"expenseCategory"} \subseteq DOMAIN ExpenseTables
      /\ {"variationTemplate", "valueTemplate", "productVariation", "variation"}
            \subseteq DOMAIN VariationTables
  BY DEF BrandTables, CustomerGroupTables, WarrantyTables, PriceGroupTables, DiscountTables,
     TemplateTables, LocationTables, ExpenseTables, VariationTables
<1>3. /\ {"campaign", "schedule", "callLog"} \subseteq DOMAIN CrmTables
      /\ {"leaveType", "leave", "payroll", "document", "reminder"} \subseteq DOMAIN EssentialsTables
      /\ {"package", "subscription"} \subseteq DOMAIN PackageTables
      /\ {"roomType", "room", "extra", "bookingLine"} \subseteq DOMAIN HmsTables
      /\ {"project", "task", "timeLog", "comment"} \subseteq DOMAIN ProjectTables
      /\ {"repairStatus", "deviceModel", "jobSheet"} \subseteq DOMAIN RepairTables
      /\ {"asset", "assetWarranty", "maintenance"} \subseteq DOMAIN AssetTables
      /\ {"ingredientGroup"} \subseteq DOMAIN RecipeTables
      /\ {"accountType"} \subseteq DOMAIN AccountTables
      /\ {"diningTable", "booking"} \subseteq DOMAIN RestaurantTables
  BY DEF CrmTables, EssentialsTables, PackageTables, HmsTables, ProjectTables, RepairTables,
     AssetTables, RecipeTables, AccountTables, RestaurantTables
<1>4. {BrandTables, CustomerGroupTables, WarrantyTables, PriceGroupTables, DiscountTables,
       TemplateTables, LocationTables, ExpenseTables, VariationTables, CrmTables,
       EssentialsTables, PackageTables, HmsTables, ProjectTables, RepairTables, AssetTables,
       RecipeTables, AccountTables, RestaurantTables} \subseteq Groups
  BY DEF Groups
<1>5. PlainTables \subseteq Tables
  BY <1>1, <1>2, <1>3, <1>4 DEF PlainTables
<1> QED
  BY <1>5 DEF PlainTables, Numbered

LEMMA ServicesKeep ==
  ASSUME IRecords, NEW r \in Request, NEW s, ServiceStep(s, r) PROVE IRecords'
<1>1. \A t \in PlainTables : MakeNow(r, t) \/ MakePart(r, t) => IRecords'
  BY PlainTablesAre, MakeNowKeeps, MakePartKeeps
<1>2. \A t : FindToChange(r, t) => IRecords'
  BY FindToChangeKeeps
<1>3. \A t : t # "assetTransaction" /\ (FindToDropRow(r, t) \/ DropNow(r, t)) => IRecords'
  BY FindToDropRowKeeps, DropNowKeeps
<1>4. \A t \in Keyed \ Numbered : MakeKeyed(r, t) => IRecords'
  BY MakeKeyedKeeps
<1>5. \A t \in Numbered : MakeNumbered(r, t) \/ MakeTyped(r, t) => IRecords'
  BY MakeNumberedKeeps, MakeTypedKeeps
<1>6. BrandsStep(r) \/ CustomerGroupsStep(r) \/ WarrantiesStep(r) \/ PriceGroupsStep(r)
        => IRecords'
  BY <1>1, <1>2, <1>3
  DEF BrandsStep, CreateBrand, UpdateBrand, RemoveBrand, CustomerGroupsStep, CreateCustomerGroup,
      UpdateCustomerGroup, RemoveCustomerGroup, WarrantiesStep, CreateWarranty, UpdateWarranty,
      RemoveWarranty, PriceGroupsStep, CreatePriceGroup, UpdatePriceGroup, RemovePriceGroup,
      PlainTables
<1>7. DiscountsStep(r) \/ TemplatesStep(r) \/ LocationsStep(r) => IRecords'
  BY <1>1, <1>2, <1>3
  DEF DiscountsStep, CreateDiscount, UpdateDiscount, RemoveDiscount, TemplatesStep,
      CreateNotificationTemplate, UpdateNotificationTemplate, RemoveNotificationTemplate,
      LocationsStep, CreateLocation, UpdateLocation, RemoveLocation, PlainTables
<1>8. ExpensesStep(r) => IRecords'
  BY <1>1, <1>2, <1>3, <1>5
  DEF ExpensesStep, CreateExpenseCategory, UpdateExpenseCategory, RemoveExpenseCategory,
      CreateExpense, UpdateExpense, RemoveExpense, PlainTables, Keyed, Numbered
<1>9. VariationsStep(r) => IRecords'
  BY <1>1, <1>2, <1>3
  DEF VariationsStep, CreateVariationTemplate, UpdateVariationTemplate, RemoveVariationTemplate,
      CreateValueTemplate, RemoveValueTemplate, CreateProductVariation, RemoveProductVariation,
      CreateVariation, UpdateVariation, RemoveVariation, PlainTables
<1>10. CrmStep(r) => IRecords'
  BY <1>1, <1>2, <1>3
  DEF CrmStep, CreateCampaign, UpdateCampaign, RemoveCampaign, CreateSchedule, UpdateSchedule,
      RemoveSchedule, CreateCallLog, RemoveCallLog, PlainTables
<1>11. EssentialsStep(r) => IRecords'
  BY <1>1, <1>2, <1>3
  DEF EssentialsStep, CreateLeaveType, RemoveLeaveType, CreateLeave, UpdateLeave, RemoveLeave,
      CreatePayroll, RemovePayroll, CreateDocument, RemoveDocument, CreateReminder,
      RemoveReminder, PlainTables
<1>12. SuperadminStep(r) \/ HmsStep(r) => IRecords'
  BY <1>1, <1>2, <1>3
  DEF SuperadminStep, CreatePackage, UpdatePackage, RemovePackage, CreateSubscription,
      UpdateSubscription, RemoveSubscription, HmsStep, CreateRoomType, RemoveRoomType, CreateRoom,
      RemoveRoom, CreateExtra, RemoveExtra, CreateBookingLine, PlainTables
<1>13. ProjectsStep(r) => IRecords'
  BY <1>1, <1>2, <1>3
  DEF ProjectsStep, CreateProject, UpdateProject, RemoveProject, CreateTask, UpdateTask,
      RemoveTask, CreateTimeLog, CreateComment, RemoveComment, PlainTables
<1>14. RepairStep(r) => IRecords'
  BY <1>1, <1>2, <1>3
  DEF RepairStep, CreateRepairStatus, RemoveRepairStatus, CreateDeviceModel, RemoveDeviceModel,
      CreateJobSheet, UpdateJobSheet, RemoveJobSheet, PlainTables
<1>15. AssetsStep(r) => IRecords'
  BY <1>1, <1>2, <1>3, <1>5
  DEF AssetsStep, CreateAsset, UpdateAsset, RemoveAsset, CreateAssetTransaction,
      CreateAssetWarranty, RemoveAssetWarranty, CreateMaintenance, UpdateMaintenance,
      RemoveMaintenance, PlainTables, Keyed, Numbered
<1>16. RestaurantStep(r) => IRecords'
  BY <1>1, <1>2, <1>3, <1>4
  DEF RestaurantStep, CreateTable, UpdateTable, RemoveTable, CreateBooking, UpdateBooking,
      RemoveBooking, PlainTables, Keyed, Numbered
<1>17. ManufacturingStep(r) => IRecords'
  BY <1>1, <1>3, CreateRecipeKeeps, FindRecipeKeeps, StoreRecipeKeeps
  DEF ManufacturingStep, RemoveRecipe, CreateIngredientGroup, RemoveIngredientGroup, PlainTables
<1>18. ContactsStep(r) => IRecords'
  BY <1>2, <1>3, <1>4, FindToRekeyRowKeeps, ImportContactsKeeps, ImportContactKeeps,
     InsertContactKeeps, ImportedContactsKeeps
  DEF ContactsStep, CreateContact, UpdateContact, RemoveContact, Keyed, Numbered
<1>19. AccountingStep(r) => IRecords'
  BY <1>1, <1>3, <1>4, FindToDropEmptyKeeps, UpdateAccountKeeps, CreatePostingKeeps
  DEF AccountingStep, CreateAccountType, DeleteAccountType, CreateAccount, DeleteAccount,
      DeletePosting, PlainTables, Keyed, Numbered
<1>20. RecordStep(r) => IRecords'
  BY InsertRowKeeps, WriteRowKeeps, CountBelowKeeps, DropRowKeeps DEF RecordStep
<1> QED
  BY <1>6, <1>7, <1>8, <1>9, <1>10, <1>11, <1>12, <1>13, <1>14, <1>15, <1>16,
     <1>17, <1>18, <1>19, <1>20
  DEF ServiceStep

LEMMA RecordsStepKeeps ==
  ASSUME NEW s, IRecords, [RecordsNext(s)]_<<requestVars, recordVars>> PROVE IRecords'
<1>1. CASE RecordsNext(s)
  BY <1>1, ServicesKeep, RecordsFailKeeps, RecordsHaltKeeps DEF RecordsNext
<1>2. CASE UNCHANGED <<requestVars, recordVars>>
  BY <1>2, RecordsStill
<1> QED
  BY <1>1, <1>2
-----------------------------------------------------------------------------
\* Rows in use do not share a number, unless two that save such rows were under way
\* together, one was typed in or changed with no check, or the number counts rows and
\* some went with what they belonged to (the services' create and update).
THEOREM KeysAreExplained ==
  ASSUME NEW CONSTANT s \in DOMAIN Service PROVE RecordsSpec(s) => []KeysExplained
<1>1. RequestInit /\ RecordsInit(Service[s]) => IRecords
  BY RecordsInitial
<1>2. IRecords /\ [RecordsNext(s)]_<<requestVars, recordVars>> => IRecords'
  BY RecordsStepKeeps
<1>3. IRecords => KeysExplained
  BY RecordsImply
<1> QED
  BY <1>1, <1>2, <1>3, PTL DEF RecordsSpec

\* An account goes with postings on it only if one was posted while it was being
\* deleted, a closed one is posted to only if it was closed meanwhile, and no type of
\* accounts goes with its accounts (AccountingService).
THEOREM PostingsAreExplained ==
  ASSUME NEW CONSTANT s \in DOMAIN Service PROVE RecordsSpec(s) => []PostingsExplained
<1>1. RequestInit /\ RecordsInit(Service[s]) => IRecords
  BY RecordsInitial
<1>2. IRecords /\ [RecordsNext(s)]_<<requestVars, recordVars>> => IRecords'
  BY RecordsStepKeeps
<1>3. IRecords => PostingsExplained
  BY RecordsImply
<1> QED
  BY <1>1, <1>2, <1>3, PTL DEF RecordsSpec
-----------------------------------------------------------------------------
(***************************************************************************)
(* The figures of the reports: StatementsAgree, for any books, products,   *)
(* questions and writes. Of each figure there is one value that is meant   *)
(* (Figure); what a statement brings is that one, or the books hold one of *)
(* the things that part the queries (Good). Once the books have changed,   *)
(* it is enough that what was read of them agrees.                         *)
(***************************************************************************)
BooksOK ==
    /\ docs \in Seq(Document) /\ entries \in Seq(StockRow)
    /\ past \in Seq([docs : Seq(Document), entries : Seq(StockRow)])
    /\ Len(past) > 0
    /\ past[Len(past)] = [docs |-> docs, entries |-> entries]

Totals == [i \in DOMAIN docs |-> docs[i].total]
Paids == [i \in DOMAIN docs |-> docs[i].paid]

LEMMA SumIsOf ==
  ASSUME NEW f, NEW S, DOMAIN f = S
  PROVE  SumFunction(f) = Sum(f, S)
BY DEF SumFunction, Sum

LEMMA DocsAreFinite ==
  ASSUME BooksOK
  PROVE  /\ IsFiniteSet(DOMAIN docs) /\ IsFiniteSet(DOMAIN entries)
         /\ DOMAIN docs \subseteq Nat /\ DOMAIN entries \subseteq Nat
         /\ \A i \in DOMAIN docs :
               /\ docs[i] \in Document
               /\ Totals[i] = docs[i].total /\ Paids[i] = docs[i].paid
               /\ Totals[i] \in Int /\ Paids[i] \in Int
         /\ \A k \in DOMAIN entries : entries[k] \in StockRow
<1>1. /\ docs \in Seq(Document) /\ entries \in Seq(StockRow)
      /\ DOMAIN docs = 1..Len(docs) /\ DOMAIN entries = 1..Len(entries)
      /\ Len(docs) \in Nat /\ Len(entries) \in Nat
  BY DEF BooksOK
<1>2. IsFiniteSet(DOMAIN docs) /\ IsFiniteSet(DOMAIN entries)
  BY <1>1, FS_Interval
<1>3. /\ \A i \in DOMAIN docs : docs[i] \in Document
      /\ \A k \in DOMAIN entries : entries[k] \in StockRow
  BY <1>1
<1>4. \A i \in DOMAIN docs : docs[i].total \in Int /\ docs[i].paid \in Int
  BY <1>3 DEF Document
<1> QED
  BY <1>1, <1>2, <1>3, <1>4 DEF Totals, Paids

\* Totals of documents are sums of the column, and so is what is due of them.
LEMMA TotalIsSum ==
  ASSUME BooksOK, NEW ids, ids \subseteq DOMAIN docs
  PROVE  /\ IsFiniteSet(ids) /\ \A i \in ids : Totals[i] \in Int /\ Paids[i] \in Int
         /\ Total(ids) = Sum(Totals, ids) /\ Total(ids) \in Int
         /\ Due(ids) = Sum(Totals, ids) - Sum(Paids, ids) /\ Due(ids) \in Int
         /\ Sum(Totals, ids) \in Int /\ Sum(Paids, ids) \in Int
<1>1. IsFiniteSet(ids) /\ \A i \in ids : Totals[i] \in Int /\ Paids[i] \in Int
  BY DocsAreFinite, FS_Subset
<1>2. PICK t, d : /\ t = [i \in ids |-> docs[i].total]
                  /\ d = [i \in ids |-> docs[i].paid]
  OBVIOUS
<1>3. Sum(t, ids) = Sum(Totals, ids) /\ Sum(d, ids) = Sum(Paids, ids)
  <2>1. \A i \in ids : t[i] = Totals[i] /\ d[i] = Paids[i]
    BY <1>2 DEF Totals, Paids
  <2> QED
    BY <1>1, <2>1, SumOfSame
<1>4. SumFunction(t) = Sum(t, ids) /\ SumFunction(d) = Sum(d, ids)
  BY <1>2, SumIsOf
<1>5. Total(ids) = Sum(Totals, ids) /\ Due(ids) = Sum(Totals, ids) - Sum(Paids, ids)
  BY <1>2, <1>3, <1>4 DEF Total, Due
<1>6. Sum(Totals, ids) \in Int /\ Sum(Paids, ids) \in Int
  BY <1>1, SumIsInt
<1> QED
  BY <1>1, <1>5, <1>6

LEMMA TotalOfUnion ==
  ASSUME BooksOK, NEW A, NEW B, A \subseteq DOMAIN docs, B \subseteq DOMAIN docs, A \cap B = {}
  PROVE  /\ Total(A \cup B) = Total(A) + Total(B)
         /\ Due(A \cup B) = Due(A) + Due(B)
<1>1. /\ Sum(Totals, A \cup B) = Sum(Totals, A) + Sum(Totals, B)
      /\ Sum(Paids, A \cup B) = Sum(Paids, A) + Sum(Paids, B)
  BY TotalIsSum, SumOfUnion
<1>2. A \cup B \subseteq DOMAIN docs
  OBVIOUS
<1> QED
  BY <1>1, <1>2, TotalIsSum

\* Debits less credits, of the postings on two sets of accounts.
LEMMA BalanceOfUnion ==
  ASSUME BooksOK, NEW A, NEW B, A \subseteq DOMAIN docs, B \subseteq DOMAIN docs, A \cap B = {}
  PROVE  /\ BalanceOf(A \cup B) = BalanceOf(A) + BalanceOf(B)
         /\ BalanceOf(A) \in Int /\ BalanceOf(B) \in Int
<1> DEFINE Side(ids, t) == {i \in ids : docs[i].type = t}
<1>1. \A t : /\ Side(A \cup B, t) = Side(A, t) \cup Side(B, t)
             /\ Side(A, t) \cap Side(B, t) = {}
             /\ Side(A, t) \subseteq DOMAIN docs /\ Side(B, t) \subseteq DOMAIN docs
  OBVIOUS
<1>2. \A ids : BalanceOf(ids) = Total(Side(ids, "debit")) - Total(Side(ids, "credit"))
  BY DEF BalanceOf
<1> HIDE DEF Side
<1>3. \A t : /\ Total(Side(A \cup B, t)) = Total(Side(A, t)) + Total(Side(B, t))
             /\ Total(Side(A, t)) \in Int /\ Total(Side(B, t)) \in Int
  <2> TAKE t
  <2>1. /\ Side(A \cup B, t) = Side(A, t) \cup Side(B, t)
        /\ Side(A, t) \cap Side(B, t) = {}
        /\ Side(A, t) \subseteq DOMAIN docs /\ Side(B, t) \subseteq DOMAIN docs
    BY <1>1
  <2>2. Total(Side(A, t)) \in Int /\ Total(Side(B, t)) \in Int
    BY <2>1, TotalIsSum
  <2>3. Total(Side(A, t) \cup Side(B, t)) = Total(Side(A, t)) + Total(Side(B, t))
    BY <2>1, TotalOfUnion
  <2> QED
    BY <2>1, <2>2, <2>3
<1>4. /\ BalanceOf(A \cup B) = Total(Side(A \cup B, "debit")) - Total(Side(A \cup B, "credit"))
      /\ BalanceOf(A) = Total(Side(A, "debit")) - Total(Side(A, "credit"))
      /\ BalanceOf(B) = Total(Side(B, "debit")) - Total(Side(B, "credit"))
  BY <1>2
<1>5. PICK ad, ac, bd, bc : /\ ad = Total(Side(A, "debit")) /\ ac = Total(Side(A, "credit"))
                            /\ bd = Total(Side(B, "debit")) /\ bc = Total(Side(B, "credit"))
  OBVIOUS
<1>6. /\ Total(Side(A \cup B, "debit")) = ad + bd /\ Total(Side(A \cup B, "credit")) = ac + bc
      /\ {ad, ac, bd, bc} \subseteq Int
  BY <1>3, <1>5
<1> QED
  BY <1>4, <1>5, <1>6
-----------------------------------------------------------------------------
\* What a figure is meant to be.
Figure(f, p) ==
    CASE f = "orders" -> Cardinality(Within("sale", p))
      [] f = "revenue" -> Total(Within("sale", p))
      [] f = "spend" -> Total(Within("purchase", p))
      [] f = "expenses" -> Total(Within("expense", p))
      [] f = "scarce" -> Scarce(Tracked)
      [] f = "worth" -> SumFunction([w \in Tracked |-> Worth(w)])
      [] f = "owed" -> Due(Mine("sale"))
      [] f = "owing" -> Due(Mine("purchase"))
      [] f = "assets" -> BalanceOf(Of({"asset"}, "all"))
      [] f = "claims" -> 0 - BalanceOf(Of({"liability", "equity"}, "all"))
      [] f = "profit" -> 0 - BalanceOf(Of({"revenue", "expense"}, "all"))

Now == past[Len(past)]
Good(f, p, v) == v = Figure(f, p) \/ Differ(f, p, Now)

\* Documents of any date are all of them.
LEMMA OfAnyDate == \A t : Within(t, "all") = Live(t)
BY DEF Within

LEMMA WithinDocs == \A t, p : Within(t, p) \subseteq DOMAIN docs /\ Live(t) \subseteq DOMAIN docs
BY DEF Within, Live

\* A list of the newest rows is the whole, unless there are too many.
LEMMA NewestOrTooMany ==
  ASSUME BooksOK, NEW t, NEW p, ~TooMany(Now, t, p)
  PROVE  Newest(Within(t, p)) = Within(t, p)
<1> DEFINE ids == Within(t, p)
<1>1. IsFiniteSet(ids) /\ ids \subseteq Nat
  BY WithinDocs, DocsAreFinite, FS_Subset
<1>2. Now.docs = docs
  BY DEF BooksOK, Now
<1>3. Cardinality(ids) <= PageRows
  <2>1. ids = {i \in DOMAIN Now.docs : Is(Now, i, t) /\ (p = "all" \/ Now.docs[i].dated)}
    BY <1>2 DEF Within, Live, Is
  <2> QED
    BY <1>1, <2>1, FS_CardinalityType, ReportAssumption DEF TooMany
<1> HIDE DEF ids
<1>4. ASSUME NEW i \in ids PROVE Cardinality({j \in ids : j > i}) < PageRows
  <2> DEFINE later == {j \in ids : j > i}
  <2>1. later \subseteq ids /\ later # ids
    BY <1>1
  <2>2. Cardinality(later) < Cardinality(ids)
    BY <1>1, <2>1, FS_Subset, FS_CardinalityType
  <2> QED
    BY <1>1, <1>3, <2>1, <2>2, FS_CardinalityType, FS_Subset, ReportAssumption
<1> QED
  BY <1>4 DEF Newest, ids

LEMMA OrdersGood ==
  ASSUME NEW p
  PROVE  Good("orders", p, Cardinality(Within("sale", p)))
BY DEF Good, Figure

LEMMA RevenueGood ==
  ASSUME BooksOK, NEW p
  PROVE  /\ Good("revenue", p, Total(Within("sale", p)))
         /\ Good("revenue", p, Total(Newest(Within("sale", p))))
<1>1. TooMany(Now, "sale", p) => Differ("revenue", p, Now)
  BY DEF Differ
<1>2. Figure("revenue", p) = Total(Within("sale", p))
  BY DEF Figure
<1> QED
  BY <1>1, <1>2, NewestOrTooMany DEF Good

LEMMA SpendGood ==
  ASSUME BooksOK, NEW p
  PROVE  /\ Good("spend", p, Total(Within("purchase", p)))
         /\ Good("spend", p, Total(Newest(Within("purchase", p))))
<1>1. TooMany(Now, "purchase", p) => Differ("spend", p, Now)
  BY DEF Differ
<1>2. Figure("spend", p) = Total(Within("purchase", p))
  BY DEF Figure
<1> QED
  BY <1>1, <1>2, NewestOrTooMany DEF Good

\* Adding up by category is adding up.
LEMMA ByCategoryIsTotal ==
  ASSUME BooksOK, NEW ids, ids \subseteq DOMAIN docs
  PROVE  ByCategory(ids) = Total(ids)
<1> DEFINE D == {docs[i].of : i \in ids}
           In(c) == {i \in ids : docs[i].of = c}
<1>1. PICK key, group, g : /\ key = [i \in DOMAIN docs |-> docs[i].of]
                           /\ group = [c \in D |-> In(c)]
                           /\ g = [c \in D |-> Total(In(c))]
  OBVIOUS
<1>2. IsFiniteSet(ids) /\ \A i \in ids : Totals[i] \in Int
  BY TotalIsSum
<1>3. IsFiniteSet(D)
  <2>1. D = {key[i] : i \in ids}
    BY <1>1
  <2> QED
    BY <1>2, <2>1, ImageIsFinite
<1>4. \A i \in ids : key[i] \in D
  BY <1>1
<1>5. ASSUME NEW c \in D
      PROVE  /\ group[c] \subseteq ids /\ \A i \in ids : i \in group[c] <=> key[i] = c
             /\ g[c] = Sum(Totals, group[c])
  <2>1. group[c] = In(c) /\ g[c] = Total(In(c)) /\ In(c) \subseteq DOMAIN docs
    BY <1>1
  <2>2. Total(In(c)) = Sum(Totals, In(c))
    BY <2>1, TotalIsSum
  <2> QED
    BY <1>1, <2>1, <2>2
<1>6. Grouped(Totals, ids, key, D, group, g)
  BY <1>2, <1>3, <1>4, <1>5 DEF Grouped
<1>7. Sum(Totals, ids) = Sum(g, D)
  BY <1>6, SumOfGroups
<1>8. ByCategory(ids) = SumFunction(g)
  BY <1>1 DEF ByCategory
<1> QED
  BY <1>1, <1>7, <1>8, SumIsOf, TotalIsSum

LEMMA ExpensesGood ==
  ASSUME BooksOK, NEW p
  PROVE  /\ Good("expenses", p, Total(Within("expense", p)))
         /\ Good("expenses", p, ByCategory(Within("expense", p)))
<1>1. Figure("expenses", p) = Total(Within("expense", p))
  BY DEF Figure
<1> QED
  BY <1>1, ByCategoryIsTotal, WithinDocs DEF Good
LEMMA ScarceGood ==
  ASSUME BooksOK, NEW p
  PROVE  /\ Good("scarce", p, Scarce(Tracked)) /\ Good("scarce", p, Scarce(Ware))
         /\ Good("scarce", p, Scarce({w \in Ware : RowsIn(entries, w) # {}}))
<1> DEFINE Low(wares) == {w \in wares : Quantity(w) <= AlertQuantity}
           Entered == {w \in Ware : RowsIn(entries, w) # {}}
<1>1. Figure("scarce", p) = Scarce(Tracked) /\ (Differ("scarce", p, Now) <=> ScarceDiffer(Now))
  BY DEF Figure, Differ
<1>2. ASSUME ~ScarceDiffer(Now)
      PROVE  Low(Ware) = Low(Tracked) /\ Low(Entered) = Low(Tracked)
  <2>1. \A w \in Ware : w \notin Tracked \/ RowsIn(entries, w) = {} => ~(Quantity(w) <= AlertQuantity)
    BY <1>2 DEF ScarceDiffer, Now, BooksOK, Quantity
  <2> QED
    BY <2>1, ReportAssumption
<1>3. \A wares : Scarce(wares) = Cardinality(Low(wares))
  BY DEF Scarce
<1> QED
  BY <1>1, <1>2, <1>3 DEF Good

\* Quantities and costs are sums over rows of the ledger.
LEMMA RowsAdd ==
  ASSUME BooksOK, NEW w
  PROVE  /\ Quantity(w) \in Int /\ CostsOf(w) \in Int
         /\ Priced(w) = {} => CostsOf(w) = 0 /\ LastCost(w) = 0
         /\ Cardinality(Priced(w)) = 1 => CostsOf(w) = LastCost(w)
<1> DEFINE S == RowsIn(entries, w)
           T == Priced(w)
<1>1. PICK q, c : q = [k \in S |-> entries[k].qty] /\ c = [k \in T |-> entries[k].cost]
  OBVIOUS
<1>2. /\ IsFiniteSet(S) /\ IsFiniteSet(T) /\ S \subseteq DOMAIN entries /\ T \subseteq S /\ T \subseteq Nat
      /\ \A k \in S : entries[k].qty \in Int /\ entries[k].cost \in Int
  <2>1. S \subseteq DOMAIN entries /\ T \subseteq S
    BY DEF RowsIn, Priced
  <2>2. \A k \in DOMAIN entries : entries[k].qty \in Int /\ entries[k].cost \in Int
    BY DocsAreFinite DEF StockRow
  <2> QED
    BY <2>1, <2>2, DocsAreFinite, FS_Subset
<1>3. Quantity(w) = Sum(q, S) /\ CostsOf(w) = Sum(c, T)
  BY <1>1, SumIsOf DEF Quantity, StockIn, CostsOf
<1>4. Sum(q, S) \in Int /\ Sum(c, T) \in Int
  BY <1>1, <1>2, SumIsInt
<1>5. ASSUME T = {} PROVE CostsOf(w) = 0 /\ LastCost(w) = 0
  BY <1>3, <1>5, SumOfNone DEF LastCost, NoCost
<1>6. ASSUME Cardinality(T) = 1 PROVE CostsOf(w) = LastCost(w)
  <2>1. PICK k : T = {k}
    BY <1>2, <1>6, FS_Singleton
  <2>2. k \in Nat /\ k \in S /\ c[k] = entries[k].cost /\ c[k] \in Int
    BY <1>1, <1>2, <2>1
  <2>3. Max(T) = k
    BY <2>1, <2>2 DEF Max
  <2>4. LastCost(w) = c[k]
    BY <2>1, <2>2, <2>3 DEF LastCost
  <2>5. Sum(c, T) = c[k] + Sum(c, T \ {k})
    BY <1>1, <1>2, <2>1, SumTakesEach
  <2>6. T \ {k} = {}
    BY <2>1
  <2> QED
    BY <1>3, <2>2, <2>4, <2>5, <2>6, SumOfNone
<1> HIDE DEF S, T
<1> QED
  BY <1>3, <1>4, <1>5, <1>6 DEF T

LEMMA WorthGood ==
  ASSUME BooksOK, NEW p
  PROVE  /\ Good("worth", p, SumFunction([w \in Tracked |-> Worth(w)]))
         /\ Good("worth", p, SumFunction([w \in Ware |-> WorthAtAll(w)]))
<1>1. /\ Figure("worth", p) = SumFunction([w \in Tracked |-> Worth(w)])
      /\ Differ("worth", p, Now) <=> WorthDiffer(Now)
  BY DEF Figure, Differ
<1>2. ASSUME ~WorthDiffer(Now)
      PROVE  SumFunction([w \in Tracked |-> Worth(w)]) = SumFunction([w \in Ware |-> WorthAtAll(w)])
  <2>1. ASSUME NEW w \in Ware, Priced(w) # {}
        PROVE  /\ w \in Tracked /\ Cardinality(Priced(w)) = 1
               /\ Quantity(w) >= 0
    <3> DEFINE bought == {k \in RowsIn(Now.entries, w) : Now.entries[k].cost # NoCost}
    <3>1. bought = Priced(w) /\ StockIn(Now.entries, w) = Quantity(w)
      BY DEF Now, BooksOK, Priced, Quantity
    <3>2. bought # {} => /\ w \in Tracked /\ ~(Cardinality(bought) > 1)
                       /\ ~(StockIn(Now.entries, w) < 0)
      BY <1>2 DEF WorthDiffer
    <3>3. IsFiniteSet(Priced(w))
      <4>1. Priced(w) \subseteq DOMAIN entries
        BY DEF Priced, RowsIn
      <4> QED
        BY <4>1, DocsAreFinite, FS_Subset
    <3>4. Cardinality(Priced(w)) \in Nat /\ Cardinality(Priced(w)) # 0
      BY <2>1, <3>3, FS_CardinalityType, FS_EmptySet
    <3> HIDE DEF bought
    <3> QED
      BY <2>1, <3>1, <3>2, <3>4, RowsAdd
  <2>2. ASSUME NEW w \in Ware
        PROVE  /\ Worth(w) = WorthAtAll(w) /\ WorthAtAll(w) \in Int
               /\ w \notin Tracked => WorthAtAll(w) = 0
    <3>1. CASE Priced(w) = {}
      <4>1. Quantity(w) \in Int /\ CostsOf(w) = 0 /\ LastCost(w) = 0
        BY <3>1, RowsAdd
      <4>2. AtLeastNought(Quantity(w)) \in Int
        BY <4>1 DEF AtLeastNought
      <4> QED
        BY <4>1, <4>2 DEF Worth, WorthAtAll
    <3>2. CASE Priced(w) # {}
      <4>1. w \in Tracked /\ Quantity(w) >= 0 /\ Quantity(w) \in Int /\ CostsOf(w) \in Int
            /\ CostsOf(w) = LastCost(w)
        BY <2>1, <3>2, RowsAdd
      <4>2. AtLeastNought(Quantity(w)) = Quantity(w)
        BY <4>1 DEF AtLeastNought
      <4> QED
        BY <4>1, <4>2 DEF Worth, WorthAtAll
    <3> QED
      BY <3>1, <3>2
  <2>3. PICK u, v : u = [w \in Tracked |-> Worth(w)] /\ v = [w \in Ware |-> WorthAtAll(w)]
    OBVIOUS
  <2>4. PICK rest : rest = Ware \ Tracked
    OBVIOUS
  <2>5. /\ Ware = Tracked \cup rest /\ Tracked \cap rest = {}
        /\ IsFiniteSet(Tracked) /\ IsFiniteSet(rest)
    BY <2>4, ReportAssumption, FS_Subset
  <2>6. Sum(v, Ware) = Sum(v, Tracked) + Sum(v, rest)
    <3>1. \A w \in Tracked \cup rest : v[w] \in Int
      BY <2>2, <2>3, <2>5
    <3>2. Sum(v, Tracked \cup rest) = Sum(v, Tracked) + Sum(v, rest)
      BY <2>5, <3>1, SumOfUnion
    <3> QED
      BY <2>5, <3>2
  <2>7. Sum(v, rest) = 0
    <3>1. \A w \in rest : v[w] = 0
      BY <2>2, <2>3, <2>4
    <3> QED
      BY <2>5, <3>1, SumOfNoughts
  <2>8. Sum(u, Tracked) = Sum(v, Tracked) /\ Sum(v, Tracked) \in Int
    <3>1. \A w \in Tracked : u[w] = v[w] /\ v[w] \in Int
      BY <2>2, <2>3, <2>5
    <3> QED
      BY <2>5, <3>1, SumOfSame, SumIsInt
  <2>9. SumFunction(u) = Sum(u, Tracked) /\ SumFunction(v) = Sum(v, Ware)
    BY <2>3, SumIsOf
  <2>10. SumFunction(u) = SumFunction(v)
    BY <2>6, <2>7, <2>8, <2>9
  <2> QED
    BY <2>3, <2>10
<1> QED
  BY <1>1, <1>2 DEF Good
\* What a contact owes is the same in its report, its ledger and its overdue invoices.
LEMMA DuesAgree ==
  ASSUME BooksOK, NEW t, ~DuesDiffer(Now, t)
  PROVE  /\ AtLeastNought(Due(Mine(t))) = Due(Mine(t))
         /\ Due(Invoices(t)) = Due(Mine(t)) /\ Due(Unpaid(t)) = Due(Mine(t))
<1>1. /\ Mine(t) \subseteq DOMAIN docs /\ Invoices(t) \subseteq DOMAIN docs
      /\ Unpaid(t) \subseteq DOMAIN docs /\ Unpaid(t) \subseteq Mine(t)
  BY DEF Mine, Invoices, Unpaid, Live
<1>2. ASSUME NEW i \in Mine(t)
      PROVE  /\ docs[i].type = t /\ docs[i].paid <= docs[i].total
             /\ docs[i].status \notin Owed => docs[i].paid = docs[i].total
  <2>1. Now.docs = docs /\ i \in DOMAIN docs
    BY <1>1 DEF Now, BooksOK
  <2>2. Is(Now, i, t) /\ Now.docs[i].of = "contact"
    BY <2>1 DEF Is, Mine, Live
  <2>3. ~(\/ docs[i].type # t \/ docs[i].paid > docs[i].total
          \/ docs[i].paid < docs[i].total /\ docs[i].status \notin Owed)
    BY <2>1, <2>2 DEF DuesDiffer
  <2>4. docs[i].paid \in Int /\ docs[i].total \in Int
    BY <2>1, DocsAreFinite
  <2> QED
    BY <2>3, <2>4
<1>3. /\ Invoices(t) = Mine(t)
      /\ \A i \in Mine(t) : /\ Totals[i] \in Int /\ Paids[i] \in Int /\ Paids[i] <= Totals[i]
  <2>1. Invoices(t) = Mine(t)
    BY <1>2 DEF Invoices
  <2>2. ASSUME NEW i \in Mine(t)
        PROVE  Totals[i] \in Int /\ Paids[i] \in Int /\ Paids[i] <= Totals[i]
    <3>1. i \in DOMAIN docs /\ docs[i].paid <= docs[i].total
      BY <1>1, <1>2
    <3> QED
      BY <3>1, DocsAreFinite
  <2> QED
    BY <2>1, <2>2
<1>4. Due(Mine(t)) \in Int /\ Due(Mine(t)) >= 0
  <2>1. Sum(Paids, Mine(t)) <= Sum(Totals, Mine(t))
    BY <1>1, <1>3, TotalIsSum, SumOfLess
  <2> QED
    BY <1>1, <2>1, TotalIsSum
<1>5. PICK rest : rest = Mine(t) \ Unpaid(t)
  OBVIOUS
<1>6. Due(rest) = 0
  <2>1. rest \subseteq DOMAIN docs /\ rest \subseteq Mine(t)
    BY <1>1, <1>5
  <2>2. \A i \in rest : Paids[i] = Totals[i]
    <3>1. ASSUME NEW i \in rest PROVE Paids[i] = Totals[i]
      <4>1. i \in Mine(t) /\ i \notin Unpaid(t) /\ i \in DOMAIN docs
        BY <1>1, <1>5
      <4>2. docs[i].status \notin Owed
        BY <1>3, <4>1 DEF Unpaid
      <4>3. docs[i].paid = docs[i].total
        BY <1>2, <4>1, <4>2
      <4> QED
        BY <4>1, <4>3, DocsAreFinite
    <3> QED
      BY <3>1
  <2>3. IsFiniteSet(rest)
    BY <2>1, TotalIsSum
  <2>4. Sum(Paids, rest) = Sum(Totals, rest)
    BY <2>2, <2>3, SumOfSame
  <2> QED
    BY <2>1, <2>4, TotalIsSum
<1>7. Due(Unpaid(t) \cup rest) = Due(Unpaid(t)) + Due(rest)
  BY <1>1, <1>5, TotalOfUnion
<1>8. Unpaid(t) \cup rest = Mine(t)
  BY <1>1, <1>5
<1>9. Due(Unpaid(t)) = Due(Mine(t))
  <2>1. Due(Unpaid(t)) \in Int
    BY <1>1, TotalIsSum
  <2> QED
    BY <1>6, <1>7, <1>8, <2>1
<1> QED
  BY <1>3, <1>4, <1>9 DEF AtLeastNought

LEMMA DuesGood ==
  ASSUME BooksOK, NEW p
  PROVE  /\ Good("owed", p, AtLeastNought(Due(Mine("sale"))))
         /\ Good("owed", p, Due(Invoices("sale"))) /\ Good("owed", p, Due(Unpaid("sale")))
         /\ Good("owing", p, AtLeastNought(Due(Mine("purchase"))))
         /\ Good("owing", p, Due(Invoices("purchase")))
         /\ Good("owing", p, Due(Unpaid("purchase")))
<1>1. /\ Figure("owed", p) = Due(Mine("sale")) /\ Figure("owing", p) = Due(Mine("purchase"))
      /\ DuesDiffer(Now, "sale") => Differ("owed", p, Now)
      /\ DuesDiffer(Now, "purchase") => Differ("owing", p, Now)
  BY DEF Figure, Differ
<1> QED
  BY <1>1, DuesAgree DEF Good

\* The balances of kinds of accounts add up to that of them together.
LEMMA KindsAddUp ==
  ASSUME BooksOK, NEW K, NEW L, K \cap L = {}, NEW p
  PROVE  0 - BalanceOf(Of(K \cup L, p)) = 0 - BalanceOf(Of(K, p)) - BalanceOf(Of(L, p))
<1>1. /\ Of(K \cup L, p) = Of(K, p) \cup Of(L, p) /\ Of(K, p) \cap Of(L, p) = {}
      /\ Of(K, p) \subseteq DOMAIN docs /\ Of(L, p) \subseteq DOMAIN docs
  BY WithinDocs DEF Of
<1>2. PICK n, m : n = BalanceOf(Of(K, p)) /\ m = BalanceOf(Of(L, p))
  OBVIOUS
<1>3. BalanceOf(Of(K \cup L, p)) = n + m /\ n \in Int /\ m \in Int
  BY <1>1, <1>2, BalanceOfUnion
<1>4. 0 - (n + m) = 0 - n - m
  BY <1>3
<1> QED
  BY <1>2, <1>3, <1>4

LEMMA BalancesGood ==
  ASSUME BooksOK, NEW p
  PROVE  /\ Good("assets", p, BalanceOf(Of({"asset"}, "all")))
         /\ Good("claims", p, 0 - BalanceOf(Of({"liability", "equity"}, "all")))
         /\ Good("claims", p, 0 - BalanceOf(Of({"liability"}, "all"))
                                - BalanceOf(Of({"equity"}, "all")))
         /\ Good("profit", p, 0 - BalanceOf(Of({"revenue", "expense"}, "all")))
         /\ Good("profit", p, 0 - BalanceOf(Of({"revenue"}, "dated"))
                                - BalanceOf(Of({"expense"}, "dated")))
<1>1. /\ Figure("assets", p) = BalanceOf(Of({"asset"}, "all"))
      /\ Figure("claims", p) = 0 - BalanceOf(Of({"liability", "equity"}, "all"))
      /\ Figure("profit", p) = 0 - BalanceOf(Of({"revenue", "expense"}, "all"))
  BY DEF Figure
<1>2. 0 - BalanceOf(Of({"liability"}, "all")) - BalanceOf(Of({"equity"}, "all"))
      = Figure("claims", p)
  <2>1. /\ {"liability", "equity"} = {"liability"} \cup {"equity"}
        /\ {"liability"} \cap {"equity"} = {}
    OBVIOUS
  <2> QED
    BY <1>1, <2>1, KindsAddUp
<1>3. ASSUME ~Differ("profit", p, Now)
      PROVE  0 - BalanceOf(Of({"revenue"}, "dated")) - BalanceOf(Of({"expense"}, "dated"))
             = Figure("profit", p)
  <2>1. Within("posting", "dated") = Within("posting", "all")
    <3>1. \A i \in Live("posting") : docs[i].dated
      BY <1>3 DEF Differ, Is, Live, Now, BooksOK
    <3> QED
      BY <3>1 DEF Within
  <2>2. \A kinds : Of(kinds, "dated") = Of(kinds, "all")
    BY <2>1 DEF Of
  <2> QED
    <3>1. /\ {"revenue", "expense"} = {"revenue"} \cup {"expense"}
          /\ {"revenue"} \cap {"expense"} = {}
      OBVIOUS
    <3>2. /\ Of({"revenue"}, "dated") = Of({"revenue"}, "all")
          /\ Of({"expense"}, "dated") = Of({"expense"}, "all")
      BY <2>2
    <3> QED
      BY <1>1, <3>1, <3>2, KindsAddUp
<1> QED
  BY <1>1, <1>2, <1>3 DEF Good
-----------------------------------------------------------------------------
(***************************************************************************)
(* All figures of all statements.                                          *)
(***************************************************************************)
RowGood(row, p) == \A f \in DOMAIN row : Good(f, p, row[f])
AllGood(list, p) == \A s \in DOMAIN list : RowGood(list[s], p)

LEMMA RowsGood ==
  ASSUME NEW p, NEW a, RowGood(a, p)
  PROVE  /\ AllGood(<<a>>, p)
         /\ \A b : RowGood(b, p) =>
               /\ AllGood(<<a, b>>, p) /\ RowGood(Both(a, b), p)
               /\ \A c : RowGood(c, p) =>
                     /\ AllGood(<<a, b, c>>, p)
                     /\ \A d : RowGood(d, p) => AllGood(<<a, b, c, d>>, p)
<1>1. AllGood(<<a>>, p)
  BY DEF AllGood
<1> SUFFICES ASSUME NEW b, RowGood(b, p)
             PROVE  /\ AllGood(<<a, b>>, p) /\ RowGood(Both(a, b), p)
                    /\ \A c : RowGood(c, p) =>
                          /\ AllGood(<<a, b, c>>, p)
                          /\ \A d : RowGood(d, p) => AllGood(<<a, b, c, d>>, p)
  BY <1>1
<1>2. AllGood(<<a, b>>, p)
  BY DEF AllGood
<1>3. RowGood(Both(a, b), p)
  BY DEF RowGood, Both
<1> SUFFICES ASSUME NEW c, RowGood(c, p)
             PROVE  /\ AllGood(<<a, b, c>>, p)
                    /\ \A d : RowGood(d, p) => AllGood(<<a, b, c, d>>, p)
  BY <1>2, <1>3
<1>4. AllGood(<<a, b, c>>, p)
  BY DEF AllGood
<1>5. ASSUME NEW d, RowGood(d, p) PROVE AllGood(<<a, b, c, d>>, p)
  BY <1>5 DEF AllGood
<1> QED
  BY <1>4, <1>5
\* Rows of one figure, of the documents of some dates.
LEMMA DatedRowsGood ==
  ASSUME BooksOK, NEW p
  PROVE  /\ RowGood(Counted(Within("sale", p)), p)
         /\ RowGood(Sold(Within("sale", p)), p) /\ RowGood(Sold(Newest(Within("sale", p))), p)
         /\ RowGood(Spent(Within("purchase", p)), p)
         /\ RowGood(Spent(Newest(Within("purchase", p))), p)
         /\ RowGood([expenses |-> Total(Within("expense", p))], p)
         /\ RowGood(ExpensesPdf(p), p)
<1>1. RowGood(Counted(Within("sale", p)), p)
  BY OrdersGood DEF RowGood, Counted
<1>2. RowGood(Sold(Within("sale", p)), p) /\ RowGood(Sold(Newest(Within("sale", p))), p)
  BY RevenueGood DEF RowGood, Sold
<1>3. /\ RowGood(Spent(Within("purchase", p)), p)
      /\ RowGood(Spent(Newest(Within("purchase", p))), p)
  BY SpendGood DEF RowGood, Spent
<1>4. RowGood([expenses |-> Total(Within("expense", p))], p) /\ RowGood(ExpensesPdf(p), p)
  BY ExpensesGood DEF RowGood, ExpensesPdf
<1> QED
  BY <1>1, <1>2, <1>3, <1>4

\* The reports one asks for dates.
LEMMA DatedReportsGood ==
  ASSUME BooksOK, NEW p
  PROVE  /\ AllGood(SalesReport(p), p) /\ AllGood(PurchasesReport(p), p)
         /\ AllGood(RevenueByPeriod(p), p) /\ AllGood(ExpenseReport(p), p)
         /\ AllGood(ProfitLoss(p), p)
<1>1. RowGood(SalesExcel(p), p) /\ RowGood(SalesPdf(p), p)
  BY DatedRowsGood, RowsGood DEF SalesExcel, SalesPdf
<1>2. RowGood(PurchasesExcel(p), p) /\ RowGood(PurchasesPdf(p), p)
  BY DatedRowsGood DEF PurchasesExcel, PurchasesPdf
<1>3. AllGood(SalesReport(p), p) /\ AllGood(PurchasesReport(p), p)
  BY <1>1, <1>2, RowsGood DEF SalesReport, PurchasesReport
<1>4. AllGood(RevenueByPeriod(p), p)
  BY DatedRowsGood, RowsGood DEF RevenueByPeriod
<1>5. AllGood(ExpenseReport(p), p) /\ AllGood(ProfitLoss(p), p)
  BY DatedRowsGood, RowsGood DEF ExpenseReport, ProfitLoss
<1> QED
  BY <1>3, <1>4, <1>5

\* The others, of which there are no dates.
LEMMA UndatedReportsGood ==
  ASSUME BooksOK
  PROVE  /\ AllGood(Dashboard, "all") /\ AllGood(StockOverview, "all")
         /\ AllGood(StockSummary, "all") /\ AllGood(StockReport, "all")
         /\ AllGood(SalesSummary, "all") /\ AllGood(PurchasesSummary, "all")
         /\ AllGood(ExpenseSummary, "all") /\ AllGood(TaxReport, "all")
         /\ AllGood(CustomerReport, "all") /\ AllGood(SupplierReport, "all")
         /\ AllGood(ContactLedger, "all") /\ AllGood(OverdueInvoices, "all")
         /\ AllGood(TrialBalance, "all") /\ AllGood(BalanceSheet, "all")
         /\ AllGood(AccountProfitLoss, "all")
<1>1. /\ RowGood(Counted(Live("sale")), "all") /\ RowGood(Sold(Live("sale")), "all")
      /\ RowGood(Spent(Live("purchase")), "all")
      /\ RowGood([expenses |-> Total(Live("expense"))], "all")
  BY DatedRowsGood, OfAnyDate
<1>2. /\ RowGood([scarce |-> Scarce({w \in Ware : RowsIn(entries, w) # {}})], "all")
      /\ RowGood([scarce |-> Scarce(Tracked)], "all") /\ RowGood(StockExcel, "all")
  <2>1. \A v : Good("scarce", "all", v) => RowGood([scarce |-> v], "all")
    BY DEF RowGood
  <2> QED
    BY <2>1, ScarceGood DEF StockExcel
<1>3. /\ RowGood([worth |-> SumFunction([w \in Tracked |-> Worth(w)])], "all")
      /\ RowGood(StockPdf, "all")
  <2>1. \A v : Good("worth", "all", v) => RowGood([worth |-> v], "all")
    BY DEF RowGood
  <2>2. \A v, w : Good("scarce", "all", v) /\ Good("worth", "all", w) =>
           RowGood([scarce |-> v, worth |-> w], "all")
    BY DEF RowGood
  <2> QED
    BY <2>1, <2>2, ScarceGood, WorthGood DEF StockPdf
<1>4. /\ AllGood(Dashboard, "all") /\ AllGood(StockOverview, "all")
      /\ AllGood(StockSummary, "all") /\ AllGood(StockReport, "all")
  BY <1>1, <1>2, <1>3, RowsGood DEF Dashboard, StockOverview, StockSummary, StockReport
<1>5. /\ AllGood(SalesSummary, "all") /\ AllGood(PurchasesSummary, "all")
      /\ AllGood(ExpenseSummary, "all") /\ AllGood(TaxReport, "all")
  BY <1>1, RowsGood DEF SalesSummary, PurchasesSummary, ExpenseSummary, TaxReport
<1>6. /\ RowGood([owed |-> AtLeastNought(Due(Mine("sale")))], "all")
      /\ RowGood([owing |-> AtLeastNought(Due(Mine("purchase")))], "all")
      /\ RowGood([owed |-> Due(Invoices("sale"))], "all")
      /\ RowGood([owing |-> Due(Invoices("purchase"))], "all")
      /\ RowGood([owed |-> Due(Unpaid("sale"))], "all")
      /\ RowGood([owing |-> Due(Unpaid("purchase"))], "all")
  BY DuesGood DEF RowGood
<1>7. /\ AllGood(CustomerReport, "all") /\ AllGood(SupplierReport, "all")
      /\ AllGood(ContactLedger, "all") /\ AllGood(OverdueInvoices, "all")
  BY <1>6, RowsGood DEF CustomerReport, SupplierReport, ContactLedger, OverdueInvoices
<1>8. \A v, w, u : Good("assets", "all", v) /\ Good("claims", "all", w) /\ Good("profit", "all", u) =>
         /\ AllGood(<<[assets |-> v, claims |-> w, profit |-> u]>>, "all")
         /\ AllGood(<<[assets |-> v, claims |-> w]>>, "all")
         /\ AllGood(<<[profit |-> u]>>, "all")
  BY DEF AllGood, RowGood
<1>9. /\ AllGood(TrialBalance, "all") /\ AllGood(BalanceSheet, "all")
      /\ AllGood(AccountProfitLoss, "all")
  BY <1>8, BalancesGood DEF TrialBalance, BalanceSheet, AccountProfitLoss
<1> QED
  BY <1>4, <1>5, <1>7, <1>9

Undated == {"dashboard", "overview", "stockSummary", "stock", "salesSummary",
            "purchasesSummary", "expenseSummary", "tax", "customer", "supplier", "ledger",
            "overdue", "trial", "balanceSheet", "accountProfitLoss"}
Dated == {"sales", "purchases", "period", "expenses", "profitLoss"}

LEMMA QuestionsAre ==
  ASSUME NEW q \in Questions
  PROVE  q[1] \in Dated \/ (q[1] \in Undated /\ q[2] = "all")
BY DEF Questions, Dated, Undated

LEMMA StatementsGood ==
  ASSUME BooksOK, NEW q \in Questions
  PROVE  AllGood(Statements(q), q[2])
<1>1. CASE q[1] \in Dated
  BY <1>1, DatedReportsGood DEF Dated, Statements
<1>2. CASE q[1] \in Undated /\ q[2] = "all"
  BY <1>2, UndatedReportsGood DEF Undated, Statements
<1> QED
  BY <1>1, <1>2, QuestionsAre

\* Writing changes no report's list of statements.
Parts(q) ==
    CASE q[1] = "dashboard" -> 4
      [] q[1] \in {"tax", "profitLoss"} -> 3
      [] q[1] \in {"stockSummary", "sales", "purchases", "salesSummary", "expenses", "ledger",
                   "overdue"} -> 2
      [] OTHER -> 1

LEMMA StatementsOf ==
  ASSUME NEW q \in Questions
  PROVE  DOMAIN Statements(q) = 1..Parts(q) /\ DOMAIN Statements(q)' = 1..Parts(q)
<1>1. /\ DOMAIN Dashboard = 1..4 /\ DOMAIN Dashboard' = 1..4
      /\ DOMAIN TaxReport = 1..3 /\ DOMAIN TaxReport' = 1..3
      /\ DOMAIN StockSummary = 1..2 /\ DOMAIN StockSummary' = 1..2
      /\ DOMAIN SalesSummary = 1..2 /\ DOMAIN SalesSummary' = 1..2
      /\ DOMAIN ContactLedger = 1..2 /\ DOMAIN ContactLedger' = 1..2
      /\ DOMAIN OverdueInvoices = 1..2 /\ DOMAIN OverdueInvoices' = 1..2
  BY DEF Dashboard, TaxReport, StockSummary, SalesSummary, ContactLedger, OverdueInvoices
<1>2. /\ DOMAIN StockOverview = 1..1 /\ DOMAIN StockOverview' = 1..1
      /\ DOMAIN StockReport = 1..1 /\ DOMAIN StockReport' = 1..1
      /\ DOMAIN PurchasesSummary = 1..1 /\ DOMAIN PurchasesSummary' = 1..1
      /\ DOMAIN ExpenseSummary = 1..1 /\ DOMAIN ExpenseSummary' = 1..1
      /\ DOMAIN CustomerReport = 1..1 /\ DOMAIN CustomerReport' = 1..1
      /\ DOMAIN SupplierReport = 1..1 /\ DOMAIN SupplierReport' = 1..1
      /\ DOMAIN TrialBalance = 1..1 /\ DOMAIN TrialBalance' = 1..1
      /\ DOMAIN BalanceSheet = 1..1 /\ DOMAIN BalanceSheet' = 1..1
      /\ DOMAIN AccountProfitLoss = 1..1 /\ DOMAIN AccountProfitLoss' = 1..1
  BY DEF StockOverview, StockReport, PurchasesSummary, ExpenseSummary, CustomerReport,
         SupplierReport, TrialBalance, BalanceSheet, AccountProfitLoss
<1>3. \A p : /\ DOMAIN SalesReport(p) = 1..2 /\ DOMAIN SalesReport(p)' = 1..2
             /\ DOMAIN PurchasesReport(p) = 1..2 /\ DOMAIN PurchasesReport(p)' = 1..2
             /\ DOMAIN RevenueByPeriod(p) = 1..1 /\ DOMAIN RevenueByPeriod(p)' = 1..1
             /\ DOMAIN ExpenseReport(p) = 1..2 /\ DOMAIN ExpenseReport(p)' = 1..2
             /\ DOMAIN ProfitLoss(p) = 1..3 /\ DOMAIN ProfitLoss(p)' = 1..3
  BY DEF SalesReport, PurchasesReport, RevenueByPeriod, ExpenseReport, ProfitLoss
<1>4. CASE q[1] \in Dated
  BY <1>3, <1>4 DEF Dated, Statements, Parts
<1>5. CASE q[1] \in Undated
  BY <1>1, <1>2, <1>5 DEF Undated, Statements, Parts
<1> QED
  BY <1>4, <1>5, QuestionsAre-----------------------------------------------------------------------------
(***************************************************************************)
(* What has been read, answered or still held by a request. What was read  *)
(* of the books as they are now is good; what was read of the same books,  *)
(* whichever those were, agrees.                                           *)
(***************************************************************************)
Reading == {r \in Request : pc[r] = "read"}
AllRead == readings \cup UNION {req[r].got : r \in Reading}

HoldsQuestion(h) ==
    /\ DOMAIN h = {"question", "left", "got"}
    /\ h.question \in Questions /\ h.left \subseteq 1..Parts(h.question)

Sound(x) ==
    /\ x.at \in 1..Len(past)
    /\ x.at = Len(past) => Good(x.figure, x.of, x.value)

Agreed(h, a, b) ==
    a.figure = b.figure /\ a.of = b.of /\ a.at = b.at /\ a.value # b.value =>
        Differ(a.figure, a.of, h[a.at])

IReports ==
    /\ Wired /\ BooksOK
    /\ \A r \in Reading : HoldsQuestion(req[r])
    /\ \A x \in AllRead : Sound(x)
    /\ \A a, b \in AllRead : Agreed(past, a, b)

LEMMA ReportsImply == IReports => StatementsAgree
BY DEF IReports, AllRead, Agreed, StatementsAgree

LEMMA ReportsInitial ==
  ASSUME RequestInit, ReportsInit(Opening)
  PROVE  IReports
<1>1. PICK b \in Opening : docs = b.docs /\ entries = b.entries /\ past = <<b>>
  BY DEF ReportsInit
<1>2. b \in [docs : Seq(Document), entries : Seq(StockRow)]
  BY ReportAssumption
<1>3. BooksOK
  BY <1>1, <1>2 DEF BooksOK
<1>4. Wired /\ Reading = {}
  BY WiredInitial DEF Reading
<1>5. AllRead = {}
  BY <1>4 DEF AllRead, ReportsInit
<1> QED
  BY <1>3, <1>4, <1>5 DEF IReports

\* While the books stay as they are, what was good is good.
LEMMA GoodStays ==
  ASSUME UNCHANGED <<docs, entries, past>>
  PROVE  \A f, p, v : Good(f, p, v)' = Good(f, p, v)
<1>1. \A t : Live(t)' = Live(t)
  BY DEF Live
<1>2. \A t, p : Within(t, p)' = Within(t, p)
  BY <1>1 DEF Within
<1>3. \A ids : Total(ids)' = Total(ids) /\ Due(ids)' = Due(ids)
  BY DEF Total, Due
<1>4. \A ids : BalanceOf(ids)' = BalanceOf(ids)
  BY <1>3 DEF BalanceOf
<1>5. \A w : Quantity(w)' = Quantity(w) /\ Worth(w)' = Worth(w)
  BY DEF Worth, LastCost, Priced, Quantity, StockIn, RowsIn
<1>6. \A kinds, p : Of(kinds, p)' = Of(kinds, p)
  BY <1>2 DEF Of
<1>7. \A t : Mine(t)' = Mine(t)
  BY <1>1 DEF Mine
<1>8. Now' = Now
  BY DEF Now
<1>9. \A f, p : Figure(f, p)' = Figure(f, p)
  BY <1>2, <1>3, <1>4, <1>5, <1>6, <1>7 DEF Figure, Scarce
<1> QED
  BY <1>8, <1>9 DEF Good

\* What a statement brings is good.
IsNews(x) == x.at = Len(past) /\ Good(x.figure, x.of, x.value)

LEMMA BroughtIsNews ==
  ASSUME BooksOK, NEW q \in Questions, NEW s \in DOMAIN Statements(q)
  PROVE  \A x \in Brought(q, s) : IsNews(x)
<1>1. \A f \in DOMAIN Statements(q)[s] : Good(f, q[2], Statements(q)[s][f])
  BY StatementsGood DEF AllGood, RowGood
<1>2. \A x \in Brought(q, s) :
         \E f \in DOMAIN Statements(q)[s] :
            x = [figure |-> f, of |-> q[2], at |-> Len(past), value |-> Statements(q)[s][f]]
  BY DEF Brought
<1> QED
  BY <1>1, <1>2 DEF IsNews

\* News joins what was seen.
LEMMA NewsAgrees ==
  ASSUME IReports, UNCHANGED <<docs, entries, past>>,
         NEW news, \A x \in news : IsNews(x), AllRead' \subseteq AllRead \cup news,
         Wired', \A r \in Request : pc'[r] = "read" => HoldsQuestion(req'[r])
  PROVE  IReports'
<1>1. Len(past) \in Nat /\ Len(past) > 0 /\ BooksOK'
  BY DEF IReports, BooksOK
<1>2. \A x \in AllRead \cup news : Sound(x)
  BY <1>1 DEF IReports, Sound, IsNews
<1>3. \A x \in AllRead' : Sound(x)'
  BY <1>2, GoodStays DEF Sound
<1>4. ASSUME NEW a \in AllRead \cup news, NEW b \in AllRead \cup news PROVE Agreed(past, a, b)
  <2>1. CASE a \in AllRead /\ b \in AllRead
    BY <2>1 DEF IReports
  <2>2. CASE a.at = Len(past) /\ b.at = Len(past)
    BY <1>2, <2>2 DEF Agreed, Sound, Good, Now
  <2>3. CASE a.at # b.at
    BY <2>3 DEF Agreed
  <2> QED
    BY <2>1, <2>2, <2>3 DEF IsNews
<1>5. \A a, b \in AllRead' : Agreed(past, a, b)'
  BY <1>4 DEF Agreed, Differ
<1>6. \A r \in Reading' : HoldsQuestion(req[r])'
  BY DEF Reading, HoldsQuestion
<1> QED
  BY <1>1, <1>3, <1>5, <1>6 DEF IReports
\* A request that moves, or ends, and of the others none; it takes nothing else along.
LEMMA NothingNew ==
  ASSUME IReports, UNCHANGED reportVars, Wired',
         \A r \in Request : pc'[r] = "read" => pc[r] = "read" /\ req'[r] = req[r]
  PROVE  IReports'
<1>1. UNCHANGED <<docs, entries, past>> /\ readings' = readings
  BY DEF reportVars
<1>2. \A r \in Request : pc'[r] = "read" => HoldsQuestion(req'[r])
  BY DEF IReports, Reading
<1>3. PICK none : none = {}
  OBVIOUS
<1>4. (\A x \in none : IsNews(x)) /\ AllRead' \subseteq AllRead \cup none
  BY <1>1, <1>3 DEF AllRead, Reading
<1> QED
  BY <1>1, <1>2, <1>4, NewsAgrees

LEMMA AskKeeps ==
  ASSUME IReports, NEW r \in Request, Ask(r)
  PROVE  IReports'
<1>1. PICK q \in Questions :
         LET all == DOMAIN Statements(q)
         IN  /\ \E s \in Upcoming(q, all) :
                   LET got == Brought(q, s)
                   IN  IF all = {s}
                       THEN Arrive(r, "ok", Nothing) /\ Answer(q, got)
                       ELSE /\ Arrive(r, "read", [question |-> q, left |-> all \ {s}, got |-> got])
                            /\ UNCHANGED <<readings, dashboard>>
             /\ UNCHANGED <<docs, entries, past>>
  BY DEF Ask
<1>2. PICK all : all = DOMAIN Statements(q) /\ all = 1..Parts(q)
  BY StatementsOf
<1>3. PICK s \in Upcoming(q, all) :
         IF all = {s}
         THEN Arrive(r, "ok", Nothing) /\ Answer(q, Brought(q, s))
         ELSE /\ Arrive(r, "read", [question |-> q, left |-> all \ {s}, got |-> Brought(q, s)])
              /\ UNCHANGED <<readings, dashboard>>
  BY <1>1, <1>2
<1>4. s \in all
  BY <1>3 DEF Upcoming
<1>5. PICK news : news = Brought(q, s) /\ \A x \in news : IsNews(x)
  BY <1>2, <1>4, BroughtIsNews DEF IReports
<1>6. UNCHANGED <<docs, entries, past>>
  BY <1>1
<1>7. CASE all = {s}
  <2>1. Arrive(r, "ok", Nothing) /\ readings' = readings \cup news
    BY <1>3, <1>5, <1>7 DEF Answer
  <2>2. Wired' /\ Alone(r) /\ pc'[r] = "ok"
    BY <2>1, ArriveMoves DEF IReports
  <2>3. \A x \in Request : pc'[x] = "read" => HoldsQuestion(req'[x])
    BY <2>2 DEF IReports, Reading, Alone
  <2>4. AllRead' \subseteq AllRead \cup news
    BY <2>1, <2>2 DEF AllRead, Reading, Alone
  <2> QED
    BY <1>5, <1>6, <2>2, <2>3, <2>4, NewsAgrees
<1>8. CASE all # {s}
  <2> DEFINE h == [question |-> q, left |-> all \ {s}, got |-> news]
  <2>1. Arrive(r, "read", h) /\ readings' = readings
    BY <1>3, <1>5, <1>8
  <2>2. h.got = news /\ HoldsQuestion(h)
    BY <1>2 DEF HoldsQuestion
  <2> HIDE DEF h
  <2>3. Wired' /\ Alone(r) /\ pc'[r] = "read" /\ req'[r] = h
    BY <2>1, ArriveMoves DEF IReports, Answered
  <2>4. \A x \in Request : pc'[x] = "read" => HoldsQuestion(req'[x])
    BY <2>2, <2>3 DEF IReports, Reading, Alone
  <2>5. AllRead' \subseteq AllRead \cup news
    BY <2>1, <2>2, <2>3 DEF AllRead, Reading, Alone
  <2> QED
    BY <1>5, <1>6, <2>3, <2>4, <2>5, NewsAgrees
<1> QED
  BY <1>7, <1>8

LEMMA ReadKeeps ==
  ASSUME IReports, NEW r \in Request, Read(r)
  PROVE  IReports'
<1>1. PICK h : h = req[r] /\ pc[r] = "read" /\ HoldsQuestion(h) /\ h.got \subseteq AllRead
  BY DEF Read, IReports, Reading, AllRead
<1>2. PICK s \in Upcoming(h.question, h.left) :
         IF h.left = {s}
         THEN Go(r, "read", "ok") /\ Answer(h.question, h.got \cup Brought(h.question, s))
         ELSE /\ Hold(r, "read", "read", [h EXCEPT !.left = @ \ {s},
                                                   !.got = h.got \cup Brought(h.question, s)])
              /\ UNCHANGED <<readings, dashboard>>
  BY <1>1 DEF Read
<1>3. s \in h.left /\ h.question \in Questions /\ s \in DOMAIN Statements(h.question)
  BY <1>1, <1>2, StatementsOf DEF Upcoming, HoldsQuestion
<1>4. PICK news : news = Brought(h.question, s) /\ \A x \in news : IsNews(x)
  BY <1>3, BroughtIsNews DEF IReports
<1>5. UNCHANGED <<docs, entries, past>>
  BY DEF Read
<1>6. CASE h.left = {s}
  <2>1. Go(r, "read", "ok") /\ readings' = readings \cup h.got \cup news
    BY <1>2, <1>4, <1>6 DEF Answer
  <2>2. Wired' /\ Alone(r) /\ pc'[r] = "ok"
    BY <2>1, GoMoves DEF IReports
  <2>3. \A x \in Request : pc'[x] = "read" => HoldsQuestion(req'[x])
    BY <2>2 DEF IReports, Reading, Alone
  <2>4. AllRead' \subseteq AllRead \cup news
    BY <1>1, <2>1, <2>2 DEF AllRead, Reading, Alone
  <2> QED
    BY <1>4, <1>5, <2>2, <2>3, <2>4, NewsAgrees
<1>7. CASE h.left # {s}
  <2>1. PICK k : k = [h EXCEPT !.left = @ \ {s}, !.got = h.got \cup news]
    OBVIOUS
  <2>2. Hold(r, "read", "read", k) /\ readings' = readings
    BY <1>2, <1>4, <1>7, <2>1
  <2>3. /\ DOMAIN k = DOMAIN h /\ k.question = h.question /\ k.left = h.left \ {s}
        /\ k.got = h.got \cup news
    BY <1>1, <2>1 DEF HoldsQuestion
  <2>4. HoldsQuestion(k)
    BY <1>1, <2>3 DEF HoldsQuestion
  <2>5. Wired' /\ Alone(r) /\ pc'[r] = "read" /\ req'[r] = k
    BY <2>2, HoldMoves DEF IReports
  <2>6. \A x \in Request : pc'[x] = "read" => HoldsQuestion(req'[x])
    BY <2>4, <2>5 DEF IReports, Reading, Alone
  <2>7. AllRead' \subseteq AllRead \cup news
    BY <1>1, <2>2, <2>3, <2>5 DEF AllRead, Reading, Alone
  <2> QED
    BY <1>4, <1>5, <2>5, <2>6, <2>7, NewsAgrees
<1> QED
  BY <1>6, <1>7

\* Once written, nothing is read yet of the books as they have become.
LEMMA WrittenKeeps ==
  ASSUME IReports, Written, docs' \in Seq(Document), entries' \in Seq(StockRow)
  PROVE  IReports'
<1>1. PICK b : b = [docs |-> docs', entries |-> entries']
  OBVIOUS
<1>2. /\ past' = Append(past, b) /\ UNCHANGED <<pc, req, readings>>
      /\ b \in [docs : Seq(Document), entries : Seq(StockRow)]
  BY <1>1 DEF Written, requestVars
<1>3. /\ past \in Seq([docs : Seq(Document), entries : Seq(StockRow)])
      /\ Len(past) \in Nat
  BY DEF IReports, BooksOK
<1>4. /\ past' \in Seq([docs : Seq(Document), entries : Seq(StockRow)])
      /\ Len(past') = Len(past) + 1 /\ past'[Len(past')] = b
      /\ \A n \in 1..Len(past) : past'[n] = past[n]
  BY <1>2, <1>3
<1>5. BooksOK'
  BY <1>1, <1>3, <1>4 DEF BooksOK
<1>6. Wired' /\ AllRead' = AllRead /\ \A r \in Reading' : HoldsQuestion(req[r])'
  BY <1>2 DEF IReports, Wired, Reading, AllRead, HoldsQuestion
<1>7. \A x \in AllRead : x.at \in 1..Len(past) /\ past'[x.at] = past[x.at]
  BY <1>4 DEF IReports, Sound
<1>8. \A x \in AllRead' : Sound(x)'
  BY <1>3, <1>4, <1>6, <1>7 DEF Sound
<1>9. \A a, b1 \in AllRead' : Agreed(past, a, b1)'
  BY <1>6, <1>7 DEF IReports, Agreed, Differ
<1> QED
  BY <1>5, <1>6, <1>8, <1>9 DEF IReports

LEMMA WritesKeep ==
  ASSUME IReports,
         RecordDocument \/ DeleteDocument \/ PayDocument \/ PatchDocument \/ EnterGoods
  PROVE  IReports'
<1>1. /\ docs \in Seq(Document) /\ entries \in Seq(StockRow)
      /\ \A i \in DOMAIN docs : docs[i] \in Document
      /\ \A d \in Document, i \in DOMAIN docs : [docs EXCEPT ![i] = d] \in Seq(Document)
  BY DEF IReports, BooksOK
<1>2. CASE RecordDocument
  BY <1>1, <1>2, ReportAssumption, WrittenKeeps DEF RecordDocument
<1>3. CASE DeleteDocument
  <2>1. PICK i \in DOMAIN docs : docs' = [docs EXCEPT ![i].live = FALSE]
    BY <1>3 DEF DeleteDocument
  <2>2. [docs[i] EXCEPT !.live = FALSE] \in Document
    BY <1>1 DEF Document
  <2>3. docs' \in Seq(Document) /\ entries' \in Seq(StockRow) /\ Written
    BY <1>1, <1>3, <2>1, <2>2 DEF DeleteDocument
  <2> QED
    BY <2>3, WrittenKeeps
<1>4. CASE PayDocument
  <2>1. PICK i \in DOMAIN docs :
           docs' = [docs EXCEPT ![i].paid = docs[i].total, ![i].status = "paid"]
    BY <1>4 DEF PayDocument
  <2>2. [docs[i] EXCEPT !.paid = docs[i].total, !.status = "paid"] \in Document
    BY <1>1 DEF Document, Status
  <2>3. docs' = [docs EXCEPT ![i] = [docs[i] EXCEPT !.paid = docs[i].total, !.status = "paid"]]
    BY <1>1, <2>1
  <2>4. docs' \in Seq(Document) /\ entries' \in Seq(StockRow) /\ Written
    BY <1>1, <1>4, <2>2, <2>3 DEF PayDocument
  <2> QED
    BY <2>4, WrittenKeeps
<1>5. CASE EnterGoods
  BY <1>1, <1>5, ReportAssumption, WrittenKeeps DEF EnterGoods
<1>6. CASE PatchDocument
  <2>0. PICK i \in DOMAIN docs :
           \E s \in Marks \cup {docs[i].status}, n \in Amounts \cup {docs[i].paid} :
              docs' = [docs EXCEPT ![i].paid = n, ![i].status = s]
    BY <1>6 DEF PatchDocument
  <2>1. PICK s \in Marks \cup {docs[i].status}, n \in Amounts \cup {docs[i].paid} :
           docs' = [docs EXCEPT ![i].paid = n, ![i].status = s]
    BY <2>0
  <2>2. s \in Status /\ n \in Int
    BY <1>1, <2>1, ReportAssumption DEF Document, Status
  <2>3. [docs[i] EXCEPT !.paid = n, !.status = s] \in Document
    BY <1>1, <2>2 DEF Document
  <2>4. docs' = [docs EXCEPT ![i] = [docs[i] EXCEPT !.paid = n, !.status = s]]
    BY <1>1, <2>1
  <2>5. docs' \in Seq(Document) /\ entries' \in Seq(StockRow) /\ Written
    BY <1>1, <1>6, <2>3, <2>4 DEF PatchDocument
  <2> QED
    BY <2>5, WrittenKeeps
<1> QED
  BY <1>2, <1>3, <1>4, <1>5, <1>6

LEMMA ReportsStepKeeps ==
  ASSUME IReports, ReportsNext \/ UNCHANGED <<requestVars, reportVars>>
  PROVE  IReports'
<1>1. CASE UNCHANGED <<requestVars, reportVars>>
  <2>1. Wired' /\ \A r \in Request : pc'[r] = pc[r] /\ req'[r] = req[r]
    BY <1>1 DEF requestVars, IReports, Wired
  <2> QED
    BY <1>1, <2>1, NothingNew
<1>2. ASSUME NEW r \in Request, AskCached(r) \/ AskTaxOfDates(r)
      PROVE  IReports'
  <2>1. PICK next \in {"ok", "error"} : Arrive(r, next, Nothing) /\ UNCHANGED reportVars
    BY <1>2 DEF AskCached, AskTaxOfDates
  <2>2. Wired' /\ Alone(r) /\ pc'[r] = next
    BY <2>1, ArriveMoves DEF IReports
  <2> QED
    BY <2>1, <2>2, NothingNew DEF Alone
<1>3. CASE Lapse
  <2>1. UNCHANGED <<docs, entries, past, readings, pc, req>>
    BY <1>3 DEF Lapse, requestVars
  <2>2. PICK none : none = {}
    OBVIOUS
  <2>3. /\ Wired' /\ AllRead' \subseteq AllRead \cup none /\ \A x \in none : IsNews(x)
        /\ \A r \in Request : pc'[r] = "read" => HoldsQuestion(req'[r])
    BY <2>1, <2>2 DEF IReports, Wired, AllRead, Reading
  <2> QED
    BY <2>1, <2>3, NewsAgrees
<1>4. ASSUME NEW r \in Request, Fail(r), UNCHANGED reportVars PROVE IReports'
  <2>1. Wired' /\ Alone(r) /\ pc'[r] = "error"
    BY <1>4, FailMoves DEF IReports
  <2> QED
    BY <1>4, <2>1, NothingNew DEF Alone
<1>5. ASSUME Halt, UNCHANGED reportVars PROVE IReports'
  <2>1. Wired' /\ \A q \in Request : ~Busy(q)'
    BY <1>5, HaltMoves DEF IReports
  <2>2. \A q \in Request : pc'[q] # "read"
    BY <2>1 DEF Busy, Answered
  <2> QED
    BY <1>5, <2>1, <2>2, NothingNew
<1> QED
  BY <1>1, <1>2, <1>3, <1>4, <1>5, AskKeeps, ReadKeeps, WritesKeep DEF ReportsNext

\* Figures that several reports show of the same books are the same, unless the books
\* hold what the queries behind them treat differently (ReportsService and the others).
THEOREM ReportsAgree == ReportsSpec => []StatementsAgree
<1>1. RequestInit /\ ReportsInit(Opening) => IReports
  BY ReportsInitial
<1>2. IReports /\ [ReportsNext]_<<requestVars, reportVars>> => IReports'
  BY ReportsStepKeeps
<1> QED
  BY <1>1, <1>2, ReportsImply, PTL DEF ReportsSpec
=============================================================================
