------------------------------- MODULE MCStock -------------------------------
(* Stock keeping on a small instance: one shop, two products, two sale      *)
(* requests, one purchase request and two moves by hand.                    *)
EXTENDS Stock, TLC

CONSTANTS shop, tea, cup

Of(p, n) == [product |-> p, qty |-> n]
NoNumber == [series |-> "", seq |-> 0]
ABody(type, status, lines) ==
    [biz |-> shop, type |-> type, status |-> status, lines |-> lines, no |-> NoNumber]

Sold == {ABody("quotation", "final", <<Of(tea, 2)>>)}
Bought == {ABody("purchase", "received", <<Of(tea, 3)>>),
           ABody("purchase", "ordered", <<Of(tea, 5)>>)}
Back == {<<Of(tea, 1)>>}
Moved == {[biz |-> shop, product |-> tea, qty |-> 4, status |-> s] : s \in {"completed", "pending"}}
Entered == {[biz |-> shop, product |-> tea, type |-> "opening_stock", qty |-> 2],
            [biz |-> shop, product |-> cup, type |-> "opening_stock", qty |-> 2]}

Symmetry == Permutations(SaleRequest) \cup Permutations(MoveRequest)
=============================================================================
