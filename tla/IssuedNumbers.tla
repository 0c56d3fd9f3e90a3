---------------------------- MODULE IssuedNumbers ----------------------------
(***************************************************************************)
(* What a numbered document table promises its readers: a document gets    *)
(* its number once, together with its id, no other document of the same    *)
(* business ever gets that number, and neither the document nor its number *)
(* goes away again (an invoice number is never reused or reassigned).      *)
(***************************************************************************)
VARIABLE issued  \* the numbers given out: records [id, biz, no]

Init == issued = {}

Fresh(x) == \A y \in issued : x.id # y.id /\ ~(x.biz = y.biz /\ x.no = y.no)

\* One more number is given out, and nothing else changes.
Issue == \E x \in issued' : /\ Fresh(x)
                            /\ issued' = issued \cup {x}

Spec == Init /\ [][Issue]_issued
=============================================================================
