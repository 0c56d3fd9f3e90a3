------------------------------ MODULE MCBrowser ------------------------------
EXTENDS Browser, TLC

CONSTANTS all, some

\* One view passes everything and has room for one row; the other passes what was
\* there first and what was typed first, and has room for all.
Views == {all, some}
FitThere == {<<all, x>> : x \in Content} \cup {<<some, 0>>, <<some, 1>>}
SpanThere == (all :> {0}) @@ (some :> {0, 1})

Symmetry == Permutations(Call)
=============================================================================
