------------------------------ MODULE MCKmodRing ------------------------------
(***************************************************************************)
(* A small instance of KmodRing for TLC.                                   *)
(***************************************************************************)
EXTENDS KmodRing, TLC

CONSTANTS c1, c2

TwoCPUs == {c1, c2}

\* A torn header's length: nothing, too short, or right.
ShortLens == {0, 2, 3}
===============================================================================
