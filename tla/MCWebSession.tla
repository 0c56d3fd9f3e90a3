---------------------------- MODULE MCWebSession ----------------------------
(* Instances of WebSession for TLC. *)
EXTENDS WebSession

CONSTANTS r1, r2, r3

MCRequest == {r1, r2, r3}
MCDenied == {r3}
=============================================================================
