---------------------------- MODULE MCProcessCache ----------------------------
(***************************************************************************)
(* Model values for ProcessCache.                                          *)
(***************************************************************************)
EXTENDS ProcessCache

CONSTANTS p1, p2

OnePid == {p1}
TwoPids == {p1, p2}
===============================================================================
