----------------------------- MODULE MCPayments ------------------------------
(* Payments on a small instance: a sale of 3 that was partly paid at the    *)
(* till, an unpaid sale of 1 and a purchase of 2; single payments of a      *)
(* purchase or of a sale and a purchase, bulk payments of one or two sales. *)
EXTENDS Payments, TLC

CONSTANTS sale, petty, purchase

Totals   == (sale :> 3) @@ (petty :> 1) @@ (purchase :> 2)
PaidThen == (sale :> 1) @@ (petty :> 0) @@ (purchase :> 0)

\* The statuses left to the service; a sale made as paid and a purchase as overdue.
NoneSent == (sale :> "none") @@ (petty :> "none") @@ (purchase :> "none")
OneSent  == {NoneSent}
AsSent   == {NoneSent, (sale :> "paid") @@ (petty :> "none") @@ (purchase :> "overdue")}

Single  == {[docs |-> <<sale, purchase>>, amount |-> 1], [docs |-> <<purchase>>, amount |-> 2]}
Ticked  == {<<sale>>, <<petty, sale>>}
Patches == {[paid |-> 3], [status |-> "due"]}

Symmetry == Permutations(Request)
=============================================================================
