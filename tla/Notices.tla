------------------------------- MODULE Notices -------------------------------
(***************************************************************************)
(* What the API tells people unasked: low-stock alerts to the managers     *)
(* (NotificationsService, on demand), and reports by mail at set times     *)
(* (ReportSchedulerService, by the clock). Whether a notification was read *)
(* is left out, and so are the mail and the push that go with an alert:    *)
(* nobody waits for their outcome.                                         *)
(***************************************************************************)
EXTENDS Requests

CONSTANTS Item, Manager, \* tracked products, and those who are told of them
          Code,          \* skus
          Labels,        \* the skus that all products have at a time
          Mention,       \* <<p, t, s>>: an alert about p under the sku t contains s
          MaxNotices,    \* bound on alerts
          Schedule,      \* ids of scheduled reports
          Frequency

VARIABLES told,      \* history: the alerts in order: to whom, of what, under which sku,
                     \* and how many were over an hour old by then
          aged,      \* of all alerts, how many are over an hour old now
          notices,   \* numbers of those that are there: the notifications
          passed,    \* history: managers found told of an item who had not been within
                     \* the hour, and the sku that was looked for
          schedules, \* function on the ids there are
          mailed,    \* history: mails sent for the occasion that is or was last due
          unstored,  \* history: schedules whose run was mailed and not stored
          unwanted,  \* history: mailed when switched off or removed
          stale      \* history: given their next run by a frequency since changed

alertVars == <<told, aged, notices, passed>>
scheduleVars == <<schedules, mailed, unstored, unwanted, stale>>
noticeVars == <<alertVars, scheduleVars>>

ASSUME NoticeAssumption ==
    /\ Labels \subseteq [Item -> Code]
    /\ Mention \subseteq Item \X Code \X Code
    /\ \A p \in Item, s \in Code : <<p, s, s>> \in Mention
    /\ MaxNotices \in Nat

NoticesInit(kepts) ==
    /\ told = <<>> /\ aged = 0
    /\ notices = {} /\ passed = {}
    /\ \E kept \in kepts, f \in Frequency :
          schedules = [s \in kept |-> [frequency |-> f, due |-> FALSE, active |-> TRUE]]
    /\ mailed = [s \in Schedule |-> 0]
    /\ unstored = {} /\ unwanted = {} /\ stale = {}

NoticesOK ==
    /\ Len(told) <= MaxNotices /\ aged \in 0..Len(told) /\ notices \subseteq DOMAIN told
    /\ \A n \in DOMAIN told :
          told[n] \in [to : Manager, of : Item, sku : Code, before : 0..n - 1]
    /\ DOMAIN schedules \subseteq Schedule
    /\ \A s \in DOMAIN schedules :
          schedules[s] \in [frequency : Frequency, due : BOOLEAN, active : BOOLEAN]

Without(f, gone) == [x \in DOMAIN f \ gone |-> f[x]]
Plus(f, x, v) == [y \in DOMAIN f \cup {x} |-> IF y = x THEN v ELSE f[y]]
-----------------------------------------------------------------------------
(***************************************************************************)
(* Low-stock alerts.                                                       *)
(***************************************************************************)
\* sendLowStockAlerts: the stock and the products are read once, as they are just
\* now, for others change both at any time; then every item that is low is gone
\* through with every manager.
CheckStock(r) ==
    \E low \in SUBSET Item, skus \in Labels :
        LET todo == low \X Manager
        IN  /\ Begin(r, IF todo = {} THEN "ok" ELSE "look",
                     [on |-> "alerts", kind |-> "check", todo |-> todo,
                      skuOf |-> [p \in low |-> skus[p]]], {{"check"}})
            /\ UNCHANGED noticeVars

\* Alerts of the last hour, the removed ones included.
LastHour == {n \in DOMAIN told : n > aged}

\* Mutant: any alert of the last hour will do.
RecentOfAny(m, s) == {n \in notices \cap LastHour : told[n].to = m}

\* Notifications of the last hour to m that contain the sku s.
Recent(m, s) ==
    {n \in notices \cap LastHour :
        told[n].to = m /\ <<told[n].of, told[n].sku, s>> \in Mention}

\* Has m been told? All managers of one item come before the next item.
Look(r) ==
    LET h == req[r]
        begun == {p \in Item : \E m \in Manager :
                     <<p, m>> \in h.todo /\ {p} \X Manager \cap h.todo # {p} \X Manager}
    IN  /\ pc[r] = "look"
        /\ \E x \in h.todo :
              LET p == x[1]
                  m == x[2]
                  s == h.skuOf[p]
                  really == \E n \in LastHour : told[n].of = p /\ told[n].to = m
              IN  /\ begun = {} \/ p \in begun
                  /\ IF Recent(m, s) = {}
                     THEN /\ Hold(r, "look", "tell",
                                  [on |-> h.on, kind |-> h.kind, skuOf |-> h.skuOf,
                                   todo |-> h.todo \ {x}, x |-> x])
                          /\ UNCHANGED passed
                     ELSE /\ IF h.todo = {x} THEN Go(r, "look", "ok")
                             ELSE Hold(r, "look", "look", [h EXCEPT !.todo = @ \ {x}])
                          /\ passed' = IF really THEN passed
                                       ELSE passed \cup {[of |-> p, to |-> m, sku |-> s]}
        /\ UNCHANGED <<told, aged, notices, scheduleVars>>

Tell(r) ==
    LET h == req[r]
        alert == [to |-> h.x[2], of |-> h.x[1], sku |-> h.skuOf[h.x[1]], before |-> aged]
    IN  /\ pc[r] = "tell"
        /\ Len(told) < MaxNotices
        /\ IF h.todo = {} THEN Go(r, "tell", "ok")
           ELSE Hold(r, "tell", "look",
                     [on |-> h.on, kind |-> h.kind, skuOf |-> h.skuOf, todo |-> h.todo])
        /\ told' = Append(told, alert)
        /\ notices' = notices \cup {Len(told')}
        /\ UNCHANGED <<aged, passed, scheduleVars>>

\* A manager removes a notification, or all.
FindNotice(r) ==
    \E n \in notices :
        /\ Arrive(r, "removeNotice", [on |-> "alerts", kind |-> "remove", id |-> n])
        /\ UNCHANGED noticeVars

RemoveNotice(r) ==
    LET n == req[r].id
    IN  /\ pc[r] = "removeNotice"
        /\ Go(r, "removeNotice", IF n \in notices THEN "ok" ELSE "error")
        /\ notices' = notices \ {n}
        /\ UNCHANGED <<told, aged, passed, scheduleVars>>

ClearAll(r) ==
    \E m \in Manager :
        /\ Arrive(r, "ok", Nothing)
        /\ notices' = {n \in notices : told[n].to # m}
        /\ UNCHANGED <<told, aged, passed, scheduleVars>>

\* The alerts grow older.
HourPasses ==
    /\ aged' \in LastHour
    /\ UNCHANGED <<requestVars, told, notices, passed, scheduleVars>>

AlertsNext ==
    \/ \E r \in Request :
          CheckStock(r) \/ Look(r) \/ Tell(r) \/ FindNotice(r) \/ RemoveNotice(r) \/ ClearAll(r)
    \/ HourPasses
    \/ \E r \in Request : Fail(r) /\ UNCHANGED noticeVars
    \/ Halt /\ UNCHANGED noticeVars
-----------------------------------------------------------------------------
(***************************************************************************)
(* Scheduled reports.                                                      *)
(***************************************************************************)
ScheduleRivals == {{"tick"}, {"tick", "update"}, {"tick", "remove"}}

Ticks == {r \in Request : Busy(r) /\ req[r].kind = "tick"}
InTick(s) == \E r \in Ticks : s \in DOMAIN req[r].left

\* A new id: none that a tick has at hand.
ScheduleReport(r) ==
    \E s \in Schedule \ DOMAIN schedules, f \in Frequency :
        /\ ~InTick(s)
        /\ Arrive(r, "ok", Nothing)
        /\ schedules' = Plus(schedules, s, [frequency |-> f, due |-> FALSE, active |-> TRUE])
        /\ UNCHANGED <<alertVars, mailed, unstored, unwanted, stale>>

FindScheduled(r) ==
    \E s \in DOMAIN schedules, f \in Frequency \cup {"kept"}, active \in BOOLEAN :
        /\ Begin(r, "changeScheduled",
                 [on |-> "schedules", kind |-> "update", id |-> s, frequency |-> f,
                  active |-> active], ScheduleRivals)
        /\ UNCHANGED noticeVars

\* With a frequency comes a new next run.
ChangeScheduled(r) ==
    LET h == req[r]
    IN  /\ pc[r] = "changeScheduled"
        /\ IF h.id \in DOMAIN schedules
           THEN /\ Go(r, "changeScheduled", "ok")
                /\ schedules' = [schedules EXCEPT ![h.id] =
                       IF h.frequency = "kept" THEN [@ EXCEPT !.active = h.active]
                       ELSE [frequency |-> h.frequency, due |-> FALSE, active |-> h.active]]
           ELSE Go(r, "changeScheduled", "error") /\ UNCHANGED schedules
        /\ UNCHANGED <<alertVars, mailed, unstored, unwanted, stale>>

FindScheduledToRemove(r) ==
    \E s \in DOMAIN schedules :
        /\ Begin(r, "removeScheduled", [on |-> "schedules", kind |-> "remove", id |-> s],
                 ScheduleRivals)
        /\ UNCHANGED noticeVars

RemoveScheduled(r) ==
    LET s == req[r].id
    IN  /\ pc[r] = "removeScheduled"
        /\ Go(r, "removeScheduled", IF s \in DOMAIN schedules THEN "ok" ELSE "error")
        /\ schedules' = Without(schedules, {s})
        /\ UNCHANGED <<alertVars, mailed, unstored, unwanted, stale>>

\* The next run of a schedule, hours away at least, has come: by then the tick that
\* set it is over.
ComesDue(s) ==
    /\ ~schedules[s].due
    /\ ~InTick(s)
    /\ schedules' = [schedules EXCEPT ![s].due = TRUE]
    /\ mailed' = [mailed EXCEPT ![s] = 0]
    /\ UNCHANGED <<requestVars, alertVars, unstored, unwanted, stale>>

\* runDueReports, every hour, whether or not the last one is over.
Tick(r) ==
    LET due == {s \in DOMAIN schedules : schedules[s].due /\ schedules[s].active}
    IN  /\ Begin(r, IF due = {} THEN "ok" ELSE "mail",
                 [on |-> "schedules", kind |-> "tick",
                  left |-> [s \in due |-> schedules[s].frequency]], ScheduleRivals)
        /\ UNCHANGED noticeVars

\* On to the next report.
Rest(h, s) == [h EXCEPT !.left = Without(h.left, {s})]

NextReport(r, s) ==
    IF DOMAIN req[r].left = {s} THEN Go(r, pc[r], "ok")
    ELSE Hold(r, pc[r], "mail", Rest(req[r], s))

Mail(r) ==
    LET h == req[r]
    IN  /\ pc[r] = "mail"
        /\ \E s \in DOMAIN h.left :
              /\ Hold(r, "mail", "storeRun",
                      [on |-> h.on, kind |-> h.kind, left |-> h.left, now |-> s])
              /\ mailed' = [mailed EXCEPT ![s] = @ + 1]
              /\ unwanted' = IF s \in DOMAIN schedules /\ schedules[s].active
                             THEN unwanted ELSE unwanted \cup {s}
        /\ UNCHANGED <<alertVars, schedules, unstored, stale>>

\* The mail does not go out: it is logged, and the report stays due.
MailFails(r) ==
    /\ pc[r] = "mail"
    /\ \E s \in DOMAIN req[r].left : NextReport(r, s)
    /\ UNCHANGED noticeVars

\* The next run by the frequency there was at the tick. A row that is gone is logged.
StoreRun(r) ==
    LET s == req[r].now
    IN  /\ pc[r] = "storeRun"
        /\ NextReport(r, s)
        /\ IF s \in DOMAIN schedules
           THEN /\ schedules' = [schedules EXCEPT ![s].due = FALSE]
                /\ stale' = IF schedules[s].frequency # req[r].left[s]
                            THEN stale \cup {s} ELSE stale
           ELSE UNCHANGED <<schedules, stale>>
        /\ UNCHANGED <<alertVars, mailed, unstored, unwanted>>

\* The statement is refused: that is logged too, and the report stays due.
RunNotStored(r) ==
    LET s == req[r].now
        more == DOMAIN req[r].left # {s}
    IN  /\ pc[r] = "storeRun"
        /\ faults < MaxFaults
        /\ faults' = faults + 1
        /\ pc' = [pc EXCEPT ![r] = IF more THEN "mail" ELSE "ok"]
        /\ req' = [req EXCEPT ![r] = IF more THEN Rest(req[r], s) ELSE Nothing]
        /\ unstored' = unstored \cup {s}
        /\ UNCHANGED <<raced, alertVars, schedules, mailed, unwanted, stale>>

SchedulesNext ==
    \/ \E r \in Request :
          \/ ScheduleReport(r) \/ FindScheduled(r) \/ ChangeScheduled(r)
          \/ FindScheduledToRemove(r) \/ RemoveScheduled(r)
          \/ Tick(r) \/ Mail(r) \/ MailFails(r) \/ StoreRun(r) \/ RunNotStored(r)
    \/ \E s \in DOMAIN schedules : ComesDue(s)
    \/ \E r \in Request : Fail(r) /\ req[r].kind # "tick" /\ UNCHANGED noticeVars
    \/ /\ Halt
       /\ unstored' = unstored \cup {req[r].now : r \in {q \in Request : pc[q] = "storeRun"}}
       /\ UNCHANGED <<alertVars, schedules, mailed, unwanted, stale>>

NoticesSpec ==
    /\ RequestInit
    /\ \/ NoticesInit({{}}) /\ [][AlertsNext]_<<requestVars, noticeVars>>
       \/ NoticesInit(SUBSET Schedule) /\ [][SchedulesNext]_<<requestVars, noticeVars>>
-----------------------------------------------------------------------------
(***************************************************************************)
(* Properties.                                                             *)
(***************************************************************************)
\* Alert k is told although alert n told the same manager of the same item within
\* the hour before.
Repeats(k, n) ==
    /\ n < k /\ n > told[k].before
    /\ told[n].of = told[k].of /\ told[n].to = told[k].to

\* A manager is told of an item again within the hour only if two checks were under
\* way together, the earlier notification was removed, or the item has another sku
\* by now; and is passed over as told without having been only if an alert about
\* another item contains this one's sku. The report of an occasion is mailed twice
\* only if two ticks were under way together or one was cut short between the mail
\* and the next run, mailed although switched off or removed only if that was done
\* during a tick, and given its next run by an old frequency likewise.
NoticesExplained ==
    /\ \A k, n \in DOMAIN told : Repeats(k, n) =>
          \/ Together("alerts", "check", "check")
          \/ n \notin notices \/ told[n].sku # told[k].sku
    /\ \A x \in passed : \E n \in DOMAIN told :
          /\ told[n].to = x.to /\ told[n].of # x.of
          /\ <<told[n].of, told[n].sku, x.sku>> \in Mention
    /\ \A s \in Schedule \ unstored : mailed[s] > 1 => Together("schedules", "tick", "tick")
    /\ unwanted # {} => \/ Together("schedules", "tick", "update")
                        \/ Together("schedules", "tick", "remove")
    /\ stale # {} => Together("schedules", "tick", "update")
=============================================================================
