----------------------------- MODULE MCPurchases -----------------------------
(* Purchases on a small instance with two tenants: a received purchase of   *)
(* two lines whose reference somebody typed so that it looks generated, an  *)
(* order and a requisition that is received at once.                        *)
EXTENDS Purchases, TLC

CONSTANTS shop, mall, tea, cup

Of(p, n) == [product |-> p, qty |-> n]

ABody(b, type, status, lines, no) ==
    [biz |-> b, type |-> type, status |-> status, lines |-> lines, no |-> no]

Bodies ==
    {ABody(shop, "purchase", "received", <<Of(tea, 2), Of(cup, 1)>>, [series |-> "PO", seq |-> 2]),
     ABody(shop, "requisition", "received", <<Of(tea, 1)>>, NoNumber),
     ABody(shop, "purchase", "ordered", <<Of(cup, 3)>>, NoNumber),
     ABody(mall, "purchase", "ordered", <<Of(tea, 1)>>, NoNumber)}

ReturnCarts == {<<Of(tea, 2)>>}

Symmetry == Permutations(Request)
=============================================================================
