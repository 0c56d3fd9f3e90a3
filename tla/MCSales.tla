------------------------------- MODULE MCSales -------------------------------
(* Sales on a small instance: a sale of two lines of different products and *)
(* a draft entered as a return, which can be converted.                     *)
EXTENDS Sales, TLC

CONSTANTS shop, tea, cup

Of(p, n) == [product |-> p, qty |-> n]

ABody(type, status, lines) ==
    [biz |-> shop, type |-> type, status |-> status, lines |-> lines, no |-> NoNumber]

Bodies == {ABody("sale", "final", <<Of(tea, 2), Of(cup, 1)>>),
           ABody("sale_return", "draft", <<Of(tea, 1)>>)}

ReturnCarts == {<<Of(tea, 2)>>}

Symmetry == Permutations(Request)
=============================================================================
