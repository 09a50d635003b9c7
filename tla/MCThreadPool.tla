----------------------------- MODULE MCThreadPool -----------------------------
(***************************************************************************)
(* Model values and symmetry for ThreadPool.                               *)
(***************************************************************************)
EXTENDS ThreadPool, TLC

CONSTANTS t1, t2, t3

ThreeTasks == {t1, t2, t3}
NoTask == {}
NullOnly == {NULL}
NullOrWild == {NULL, Wild}
ReadyOnly == {"ready"}
AlwaysControl == {"ready", "marking", "joining"}
TaskSymmetry == Permutations(Tasks)
===============================================================================
