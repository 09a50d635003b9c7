----------------------------- MODULE MCKmodDevice -----------------------------
(***************************************************************************)
(* Small instances of KmodDevice for TLC.                                  *)
(***************************************************************************)
EXTENDS KmodDevice

CONSTANTS p1, p2, f1, f2, o1, o2, c1, openat

TwoProcs == {p1, p2}
TwoFiles == {f1, f2}
TwoObjs == {o1, o2}
OneCPU == {c1}
OneTraced == {openat}
OneTP == {"SYSMON_TP_SYS_ENTER"}
SomeCmds == {"ENABLE_SYSCALL", "DISABLE_SYSCALL", "ENABLE_TP", "DISABLE_TP",
             "ENABLE_FDS", "ENABLE_DROPPING_MODE"}
BothRegions == {"info", "buffer"}
===============================================================================
