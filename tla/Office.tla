------------------------------- MODULE Office -------------------------------
(***************************************************************************)
(* The services of the API beside its documents over one pool of requests. *)
(* They share no variable. Where a service reads or writes a table that    *)
(* another owns (stock rows and documents in Reports and Notices, the      *)
(* founder's row of users in Composites), its module has a view of its own *)
(* of it, and what the others write there is an action of that module. So  *)
(* steps at different desks commute; the clients of a behaviour turn to    *)
(* one desk, chosen at the start, and within a desk everything interleaves.*)
(***************************************************************************)
EXTENDS Accounts, Products, CashRegister, Defaults, Records, Reports, Notices, Composites, Backups

CONSTANT Desks  \* those the clients may turn to

VARIABLE desk

ASSUME DeskAssumption ==
    Desks \subseteq {"accounts", "products", "cash", "defaults", "reports", "alerts",
                    "schedules", "composites", "backups"} \cup DOMAIN Service

vars == <<requestVars, accountVars, goodsVars, registers, defaultVars, recordVars,
          reportVars, noticeVars, compositeVars, backupVars, desk>>

TypeOK ==
    /\ AccountsOK /\ CatalogOK /\ ProductsOK /\ CashOK /\ DefaultsOK /\ RecordsOK
    /\ ReportsOK /\ NoticesOK /\ CompositesOK /\ BackupsOK
    /\ faults \in 0..MaxFaults

\* What a desk starts from, where that is not always the same.
At(d, all, otherwise) == IF desk = d THEN all ELSE otherwise

Init ==
    /\ desk \in Desks
    /\ RequestInit
    /\ AccountsInit(At("accounts", Admins, {Staff}))
    /\ CatalogInit /\ ProductsInit /\ CashInit /\ DefaultsInit
    /\ RecordsInit(IF desk \in DOMAIN Service THEN Service[desk] ELSE {})
    /\ ReportsInit(At("reports", Opening, {[docs |-> <<>>, entries |-> <<>>]}))
    /\ NoticesInit(At("schedules", SUBSET Schedule, {{}}))
    /\ CompositesInit /\ BackupsInit

AtAccounts ==
    /\ desk = "accounts" /\ AccountsNext
    /\ UNCHANGED <<goodsVars, registers, defaultVars, recordVars,
                   reportVars, noticeVars, compositeVars, backupVars, desk>>

AtProducts ==
    /\ desk = "products" /\ ProductsNext
    /\ UNCHANGED <<accountVars, registers, defaultVars, recordVars,
                   reportVars, noticeVars, compositeVars, backupVars, desk>>

AtCash ==
    /\ desk = "cash" /\ CashNext
    /\ UNCHANGED <<accountVars, goodsVars, defaultVars, recordVars,
                   reportVars, noticeVars, compositeVars, backupVars, desk>>

AtDefaults ==
    /\ desk = "defaults" /\ DefaultsNext
    /\ UNCHANGED <<accountVars, goodsVars, registers, recordVars,
                   reportVars, noticeVars, compositeVars, backupVars, desk>>

AtRecords ==
    /\ desk \in DOMAIN Service /\ RecordsNext(desk)
    /\ UNCHANGED <<accountVars, goodsVars, registers, defaultVars,
                   reportVars, noticeVars, compositeVars, backupVars, desk>>

AtReports ==
    /\ desk = "reports" /\ ReportsNext
    /\ UNCHANGED <<accountVars, goodsVars, registers, defaultVars, recordVars,
                   noticeVars, compositeVars, backupVars, desk>>

AtNotices ==
    /\ \/ desk = "alerts" /\ AlertsNext
       \/ desk = "schedules" /\ SchedulesNext
    /\ UNCHANGED <<accountVars, goodsVars, registers, defaultVars, recordVars,
                   reportVars, compositeVars, backupVars, desk>>

AtComposites ==
    /\ desk = "composites" /\ CompositesNext
    /\ UNCHANGED <<accountVars, goodsVars, registers, defaultVars, recordVars,
                   reportVars, noticeVars, backupVars, desk>>

AtBackups ==
    /\ desk = "backups" /\ BackupsNext
    /\ UNCHANGED <<accountVars, goodsVars, registers, defaultVars, recordVars,
                   reportVars, noticeVars, compositeVars, desk>>

Next ==
    \/ AtAccounts \/ AtProducts \/ AtCash \/ AtDefaults \/ AtRecords
    \/ AtReports \/ AtNotices \/ AtComposites \/ AtBackups

Spec == Init /\ [][Next]_vars
=============================================================================
