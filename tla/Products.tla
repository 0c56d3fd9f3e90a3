------------------------------ MODULE Products ------------------------------
(***************************************************************************)
(* ProductsService with the catalog it refers to, the pictures on disk and *)
(* the three lists kept in the process's cache: all products (findAll),    *)
(* the till's list with the stock (PosService.searchProducts), and the     *)
(* dashboard (ReportsService). Each is computed when it is missing, put    *)
(* into the cache afterwards, and dropped by those writes that think of it.*)
(* The catalog is changed one step at a time by Catalog's requests.        *)
(***************************************************************************)
EXTENDS Catalog

CONSTANTS Product, Sku, Picture

VARIABLES products, \* rows: a function on the existing ids
          files,    \* pictures on disk
          taken,    \* names of pictures given so far
          cached,   \* what the cache holds of each list
          behind,   \* requests computing a list whose rows have changed since they read
          excused,  \* history: stale lists no drop is to come for
          cut       \* history: pictures whose request ended between file and row

productVars == <<products, files, taken, cached, behind, excused, cut>>
listVars == <<cached, behind, excused>>
goodsVars == <<catalogVars, productVars>>

List == {"products", "pos", "dashboard"}
Products == <<"products">>

\* The first product, its SKU and its picture are there from the start.
ASSUME ProductAssumption == /\ None \notin Sku \cup Product \cup Picture
                            /\ Product # {} /\ Sku # {} /\ Picture # {}

ProductsOK ==
    /\ DOMAIN products \subseteq Product
    /\ \A p \in DOMAIN products : products[p] \in [sku : Sku, image : Picture \cup {None}]
    /\ files \cup cut \subseteq taken /\ taken \subseteq Picture
    /\ cached \in [List -> {"none", "fresh", "stale"}]
    /\ behind \subseteq Request
    /\ excused \subseteq List

FirstPicture == CHOOSE i \in Picture : TRUE

ProductsInit ==
    /\ products = [p \in {CHOOSE p \in Product : TRUE} |->
                        [sku |-> CHOOSE s \in Sku : TRUE, image |-> FirstPicture]]
    /\ files = {FirstPicture} /\ taken = {FirstPicture}
    /\ cached = [l \in List |-> "none"]
    /\ behind = {}
    /\ excused = {}
    /\ cut = {}
-----------------------------------------------------------------------------
(***************************************************************************)
(* The cached lists.                                                       *)
(***************************************************************************)
Filling(l) == {r \in Request : pc[r] = "fill" /\ req[r].list = l}
Dropping(l) == \E r \in Request : pc[r] = "dropLists" /\ l \in req[r].lists

\* Rows shown in the lists ls change.
Change(ls) ==
    /\ cached' = [l \in List |-> IF l \in ls /\ cached[l] = "fresh" THEN "stale" ELSE cached[l]]
    /\ behind' = behind \cup UNION {Filling(l) : l \in ls}

\* cacheManager.get misses and the rows are read.
ReadList(r) ==
    \E l \in List :
        /\ cached[l] = "none"
        /\ Arrive(r, "fill", [list |-> l])
        /\ UNCHANGED <<cats, units, productVars>>

\* cacheManager.set, whatever has been dropped since.
FillList(r) ==
    LET l == req[r].list
    IN  /\ pc[r] = "fill"
        /\ cached' = [cached EXCEPT ![l] = IF r \in behind THEN "stale" ELSE "fresh"]
        /\ behind' = behind \ {r}
        /\ excused' = IF r \in behind THEN excused \cup {l} ELSE excused \ {l}
        /\ Go(r, "fill", "ok")
        /\ UNCHANGED <<cats, units, products, files, taken, cut>>

\* The minute, or the five of the dashboard, are over.
Expire ==
    \E l \in List :
        /\ cached[l] # "none"
        /\ cached' = [cached EXCEPT ![l] = "none"]
        /\ excused' = excused \ {l}
        /\ UNCHANGED <<catalogVars, products, files, taken, behind, cut, requestVars>>

\* Mutant: the till's list is forgotten.
DropListsButPos(r) ==
    LET ls == req[r].lists \ {"pos"}
    IN  /\ pc[r] = "dropLists"
        /\ cached' = [l \in List |-> IF l \in ls THEN "none" ELSE cached[l]]
        /\ excused' = excused \ ls
        /\ Go(r, "dropLists", "ok")
        /\ UNCHANGED <<cats, units, products, files, taken, behind, cut>>

DropLists(r) ==
    LET ls == req[r].lists
    IN  /\ pc[r] = "dropLists"
        /\ cached' = [l \in List |-> IF l \in ls THEN "none" ELSE cached[l]]
        /\ excused' = excused \ ls
        /\ Go(r, "dropLists", "ok")
        /\ UNCHANGED <<cats, units, products, files, taken, behind, cut>>

\* SalesService.create and PurchasesService.create write their rows, then drop
\* the two lists that show stock and totals.
WriteTrade(r) ==
    /\ Arrive(r, "dropLists", [lists |-> {"pos", "dashboard"}])
    /\ Change({"pos", "dashboard"})
    /\ UNCHANGED <<cats, units, products, files, taken, excused, cut>>

\* Entries by hand, transfers, returns, and sales changed or removed drop none.
WriteStock(r) ==
    /\ Arrive(r, "ok", Nothing)
    /\ Change({"pos", "dashboard"})
    /\ excused' = excused \cup {"pos", "dashboard"}
    /\ UNCHANGED <<cats, units, products, files, taken, cut>>
-----------------------------------------------------------------------------
(***************************************************************************)
(* Products.                                                               *)
(***************************************************************************)
\* Every change of a product shows in all three lists. It is followed by the
\* drop of one.
ProductChanged ==
    /\ Change(List)
    /\ excused' = excused \cup {"pos", "dashboard"}

SkuTaken(s, but) == \E p \in DOMAIN products \ {but} : products[p].sku = s

\* create: there is a unit in use; brands and categories are looked up in the
\* same way.
FindForProduct(r) ==
    \E s \in Sku :
        /\ Rows(units) # {}
        /\ Begin(r, "checkSku", [on |-> Products, kind |-> "saveProduct", id |-> None, sku |-> s,
                                 lists |-> {"products"}], {{"saveProduct"}})
        /\ UNCHANGED <<cats, units, productVars>>

\* An update that leaves the SKU alone checks no more.
FindToUpdate(r) ==
    \E p \in DOMAIN products, s \in Sku :
        /\ Rows(units) # {}
        /\ Begin(r, IF products[p].sku = s THEN "writeProduct" ELSE "checkSku",
                 [on |-> Products, kind |-> "saveProduct", id |-> p, sku |-> s,
                  lists |-> {"products"}], {{"saveProduct"}})
        /\ UNCHANGED <<cats, units, productVars>>

Checked(h) == IF h.id = None THEN "insertProduct" ELSE "writeProduct"

\* Mutant: an update looks for its own SKU only.
CheckOwnSku(r) ==
    /\ pc[r] = "checkSku"
    /\ Go(r, "checkSku", IF req[r].id = None /\ SkuTaken(req[r].sku, req[r].id)
                         THEN "refused" ELSE Checked(req[r]))
    /\ UNCHANGED goodsVars

CheckSku(r) ==
    /\ pc[r] = "checkSku"
    /\ Go(r, "checkSku", IF SkuTaken(req[r].sku, req[r].id) THEN "refused" ELSE Checked(req[r]))
    /\ UNCHANGED goodsVars

InsertProduct(r) ==
    /\ Go(r, "insertProduct", "dropLists")
    /\ \E p \in Product \ DOMAIN products :
          products' = Put(products, p, [sku |-> req[r].sku, image |-> None])
    /\ ProductChanged
    /\ UNCHANGED <<catalogVars, files, taken, cut>>

\* The update; a row that is gone is an error (P2025).
WriteProduct(r) ==
    LET p == req[r].id
    IN  /\ pc[r] = "writeProduct"
        /\ UNCHANGED <<catalogVars, files, taken, cut>>
        /\ IF p \in DOMAIN products
           THEN /\ products' = [products EXCEPT ![p].sku = req[r].sku]
                /\ Go(r, "writeProduct", "dropLists") /\ ProductChanged
           ELSE Go(r, "writeProduct", "error") /\ UNCHANGED <<products, listVars>>

FindToRemove(r) ==
    \E p \in DOMAIN products :
        /\ Arrive(r, "removeProduct", [id |-> p, lists |-> {"products"}])
        /\ UNCHANGED <<cats, units, productVars>>

\* A hard delete. The picture stays on disk.
RemoveProduct(r) ==
    LET p == req[r].id
    IN  /\ pc[r] = "removeProduct"
        /\ UNCHANGED <<catalogVars, files, taken, cut>>
        /\ IF p \in DOMAIN products
           THEN /\ products' = [x \in DOMAIN products \ {p} |-> products[x]]
                /\ Go(r, "removeProduct", "dropLists") /\ ProductChanged
           ELSE Go(r, "removeProduct", "error") /\ UNCHANGED <<products, listVars>>

\* importFromCsv goes through its rows. A row whose SKU is taken, or whose unit
\* is not found, is skipped.
Import(r) ==
    /\ Begin(r, "importRow", [on |-> Products, kind |-> "saveProduct"], {{"saveProduct"}})
    /\ UNCHANGED <<cats, units, productVars>>

ImportCheck(r) ==
    \E s \in Sku :
        /\ ~SkuTaken(s, None)
        /\ Rows(units) # {}
        /\ Hold(r, "importRow", "importInsert",
                [on |-> Products, kind |-> "saveProduct", sku |-> s])
        /\ UNCHANGED goodsVars

\* The insert of a row; a failure is counted and the next row taken. No list is
\* dropped.
ImportInsert(r) ==
    /\ pc[r] = "importInsert"
    /\ \E p \in Product \ DOMAIN products :
          products' = Put(products, p, [sku |-> req[r].sku, image |-> None])
    /\ Go(r, "importInsert", "importRow")
    /\ Change(List)
    /\ excused' = List
    /\ UNCHANGED <<catalogVars, files, taken, cut>>

ImportDone(r) == Go(r, "importRow", "ok") /\ UNCHANGED <<cats, units, productVars>>
-----------------------------------------------------------------------------
(***************************************************************************)
(* Pictures.                                                               *)
(***************************************************************************)
Images(p) == IF p \in DOMAIN products THEN {products[p].image} \cap Picture ELSE {}

\* uploadImage: the new file is on disk before the handler runs, under a new name
\* (the time in milliseconds). The row is found, and the file it names is deleted.
FindToPicture(r) ==
    \E p \in DOMAIN products, i \in Picture \ taken :
        /\ Arrive(r, "storeImage", [id |-> p, image |-> i, old |-> Images(p),
                                    lists |-> {"products"}])
        /\ files' = (files \cup {i}) \ Images(p)
        /\ taken' = taken \cup {i}
        /\ UNCHANGED <<cats, units, products, listVars, cut>>

\* removeImage: the file goes first.
FindToUnpicture(r) ==
    \E p \in DOMAIN products :
        /\ Images(p) # {}
        /\ Arrive(r, "storeImage", [id |-> p, image |-> None, old |-> Images(p),
                                    lists |-> {"products"}])
        /\ files' = files \ Images(p)
        /\ UNCHANGED <<cats, units, products, taken, listVars, cut>>

\* Mutant: the new picture is not recorded.
StoreNoImage(r) ==
    /\ pc[r] = "storeImage"
    /\ Go(r, "storeImage", "dropLists") /\ ProductChanged
    /\ UNCHANGED <<catalogVars, products, files, taken, cut>>

StoreImage(r) ==
    LET p == req[r].id
    IN  /\ pc[r] = "storeImage"
        /\ UNCHANGED <<catalogVars, files, taken, cut>>
        /\ IF p \in DOMAIN products
           THEN /\ products' = [products EXCEPT ![p].image = req[r].image]
                /\ Go(r, "storeImage", "dropLists") /\ ProductChanged
           ELSE Go(r, "storeImage", "error") /\ UNCHANGED <<products, listVars>>

ProductStep(r) ==
    \/ ReadList(r) \/ FillList(r) \/ DropLists(r) \/ WriteTrade(r) \/ WriteStock(r)
    \/ FindForProduct(r) \/ FindToUpdate(r) \/ CheckSku(r)
    \/ InsertProduct(r) \/ WriteProduct(r)
    \/ FindToRemove(r) \/ RemoveProduct(r)
    \/ Import(r) \/ ImportCheck(r) \/ ImportInsert(r) \/ ImportDone(r)
    \/ FindToPicture(r) \/ FindToUnpicture(r) \/ StoreImage(r)

\* What a request leaves behind that ends at its next statement.
LeftBy(rs) ==
    /\ excused' = excused \cup UNION {req[r].lists : r \in {x \in rs : pc[x] = "dropLists"}}
    /\ behind' = behind \ rs
    /\ cut' = cut \cup UNION {req[r].old : r \in {x \in rs : pc[x] = "storeImage"}}
    /\ UNCHANGED <<catalogVars, products, files, taken>>

Refuse(r) ==
    /\ Fail(r) /\ pc[r] # "importInsert"
    /\ LeftBy({r}) /\ UNCHANGED cached

\* The cache is in the process, which starts with an empty one.
Restart ==
    /\ Halt
    /\ cut' = cut \cup UNION {req[r].old : r \in {x \in Request : pc[x] = "storeImage"}}
    /\ cached' = [l \in List |-> "none"]
    /\ behind' = {}
    /\ excused' = {}
    /\ UNCHANGED <<catalogVars, products, files, taken>>
-----------------------------------------------------------------------------
ProductsNext ==
    \/ \E r \in Request : (CategoryStep(r) \/ UnitStep(r)) /\ UNCHANGED productVars
    \/ \E r \in Request : ProductStep(r)
    \/ \E r \in Request : Refuse(r)
    \/ Restart
    \/ Expire

ProductsSpec == RequestInit /\ CatalogInit /\ ProductsInit
                    /\ [][ProductsNext]_<<requestVars, goodsVars>>
-----------------------------------------------------------------------------
(***************************************************************************)
(* Properties.                                                             *)
(***************************************************************************)
\* No index of the schema keeps SKUs apart: two products share one only if two
\* requests that save products, imports included, were under way together.
SkusAreUnique ==
    ~Together(Products, "saveProduct", "saveProduct") =>
        \A p, q \in DOMAIN products : products[p].sku = products[q].sku => p = q

\* A list served from the cache shows the rows as they are, or a request is
\* about to drop it, or it waits for its time to run out because the write drops
\* it not at all, its request was cut short, or it was computed before the write
\* and stored after the drop.
StaleListExplained ==
    \A l \in List : cached[l] = "stale" => l \in excused \/ Dropping(l)

\* The picture a product names is on disk, unless the request that replaces or
\* removes it has deleted the file and not yet written the row, or never will.
ImagesExplained ==
    \A p \in DOMAIN products : \A i \in Images(p) \ (files \cup cut) :
        \E r \in Request : pc[r] = "storeImage" /\ i \in req[r].old
=============================================================================
