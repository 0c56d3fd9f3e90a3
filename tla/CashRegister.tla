---------------------------- MODULE CashRegister ----------------------------
(***************************************************************************)
(* CashRegisterService: the sessions of a shop's cash registers. A session *)
(* is opened, money goes in and out of it, and when it is closed the       *)
(* amount that should be in the drawer is worked out from its rows.        *)
(*                                                                         *)
(* The rows of a session's opening and closing, which its balance ignores, *)
(* are kept apart from the movements; notes and lists are left out.        *)
(***************************************************************************)
EXTENDS Requests

CONSTANTS Cashier, Money

VARIABLE registers \* the sessions in the order of their ids

Movement == [type : {"cash_in", "cash_out", "sale", "refund"}, amount : Money]
Closing == [counted : Money, expected : Int]
Session == [user : Cashier, open : BOOLEAN, opening : Money,
            moves : Seq(Movement), closings : Seq(Closing)]

ASSUME MoneyAssumption == Money \subseteq Int

CashOK == registers \in Seq(Session)

CashInit == registers = <<>>

Sessions == DOMAIN registers
OpenSessions == {i \in Sessions : registers[i].open}

\* A movement as a number.
Signed(m) == IF m.type \in {"cash_in", "sale"} THEN m.amount ELSE -m.amount

\* opening + cash_in - cash_out + sale - refund, row by row.
Balance(opening, moves) ==
    LET b[n \in 0..Len(moves)] == IF n = 0 THEN opening ELSE b[n - 1] + Signed(moves[n])
    IN  b[Len(moves)]

\* Two openings by a cashier, and a closing with anything else on its session,
\* can defeat each other's check.
CashRivals == {{"open"}, {"close"}, {"close", "move"}}
Till(i) == <<"session", i>>
Drawer(u) == <<"cashier", u>>
-----------------------------------------------------------------------------
\* Mutant: only the newest session is looked at, whoever's it is.
FindNewest(r) ==
    \E u \in Cashier, m \in Money :
        /\ \A i \in OpenSessions : registers[i].user # u \/ i # Len(registers)
        /\ Begin(r, "createSession", [on |-> Drawer(u), kind |-> "open", user |-> u, amount |-> m],
                 CashRivals)
        /\ UNCHANGED registers

\* openRegister finds that the cashier has no open session.
FindNoSession(r) ==
    \E u \in Cashier, m \in Money :
        /\ \A i \in OpenSessions : registers[i].user # u
        /\ Begin(r, "createSession", [on |-> Drawer(u), kind |-> "open", user |-> u, amount |-> m],
                 CashRivals)
        /\ UNCHANGED registers

CreateSession(r) ==
    LET h == req[r]
    IN  /\ Go(r, "createSession", "ok")
        /\ registers' = Append(registers, [user |-> h.user, open |-> TRUE, opening |-> h.amount,
                                           moves |-> <<>>, closings |-> <<>>])

\* Mutant: or closed.
FindAny(r) ==
    \E i \in Sessions, m \in Movement :
        /\ Begin(r, "insertMovement", [on |-> Till(i), kind |-> "move", id |-> i, move |-> m],
                 CashRivals)
        /\ UNCHANGED registers

\* addTransaction finds the session open. Anybody of the shop may use it.
FindOpen(r) ==
    \E i \in OpenSessions, m \in Movement :
        /\ Begin(r, "insertMovement", [on |-> Till(i), kind |-> "move", id |-> i, move |-> m],
                 CashRivals)
        /\ UNCHANGED registers

InsertMovement(r) ==
    LET h == req[r]
    IN  /\ Go(r, "insertMovement", "ok")
        /\ registers' = [registers EXCEPT ![h.id].moves = Append(@, h.move)]

\* closeRegister reads the session with its rows and works out the balance.
FindToClose(r) ==
    \E i \in OpenSessions, m \in Money :
        /\ Begin(r, "closeSession",
                 [on |-> Till(i), kind |-> "close", id |-> i, counted |-> m,
                  expected |-> Balance(registers[i].opening, registers[i].moves)],
                 CashRivals)
        /\ UNCHANGED registers

\* The session is closed, even if it was by now, and answered with the amount
\* expected (which no row keeps).
CloseSession(r) ==
    LET h == req[r]
        row == [counted |-> h.counted, expected |-> h.expected]
    IN  /\ Go(r, "closeSession", "ok")
        /\ registers' = [registers EXCEPT ![h.id].open = FALSE, ![h.id].closings = Append(@, row)]

CashStep(r) ==
    \/ FindNoSession(r) \/ CreateSession(r)
    \/ FindOpen(r) \/ InsertMovement(r)
    \/ FindToClose(r) \/ CloseSession(r)

CashNext == \/ \E r \in Request : CashStep(r)
            \/ \E r \in Request : Fail(r) /\ UNCHANGED registers
            \/ Halt /\ UNCHANGED registers

CashSpec == RequestInit /\ CashInit /\ [][CashNext]_<<requestVars, registers>>
-----------------------------------------------------------------------------
(***************************************************************************)
(* Properties.                                                             *)
(***************************************************************************)
\* A cashier has one open session: two are open only if the cashier opened two
\* at a time, each finding none.
OneOpenSession ==
    \A i, j \in OpenSessions :
        registers[i].user = registers[j].user =>
            i = j \/ Together(Drawer(registers[i].user), "open", "open")

\* A closed session was closed once, and what its closing said should be in the
\* drawer is what its rows add up to, for good, unless another closing or a
\* movement was under way with the closing. Nothing moves in a closed session.
ClosingReconciles ==
    \A i \in Sessions \ OpenSessions :
        \/ Together(Till(i), "close", "close") \/ Together(Till(i), "close", "move")
        \/ /\ Len(registers[i].closings) = 1
           /\ registers[i].closings[1].expected
                  = Balance(registers[i].opening, registers[i].moves)
=============================================================================
