------------------------------- MODULE MCDetect -------------------------------
(***************************************************************************)
(* Two rules that compile, one of each kind that does not, and the event   *)
(* types of linx_event_table.c with the most parameters, reduced to the    *)
(* last two of each: execve's exit has a user and a process id where       *)
(* openat's exit has an inode.                                             *)
(***************************************************************************)
EXTENDS Detect, TLC

CONSTANTS r1, r2, rNull, rNone, execve_x, openat_x, close_e

FourRules == {r1, r2, rNull, rNone}

SomeTree == (r1 :> "matcher") @@ (r2 :> "matcher") @@ (rNull :> "null")
                @@ (rNone :> "none")

ThreeTypes == {execve_x, openat_x, close_e}

SomeHits == (r1 :> {openat_x}) @@ (r2 :> {openat_x, close_e})
                @@ (rNull :> {}) @@ (rNone :> {})

SomeParams == (execve_x :> <<"heap", "heap">>) @@ (openat_x :> <<"slot">>)
                  @@ (close_e :> <<>>)

RulesFile == UNION {[1..n -> FourRules] : n \in 0..2}

SomeDirectories ==
    {<<f>> : f \in {NULL} \cup UNION {[1..n -> FourRules] : n \in 0..3}}
    \cup {<<f, g>> : f \in RulesFile, g \in {NULL} \cup [1..1 -> FourRules]}

OneDirectory == {<< <<r1, rNone, r2>> >>}
===============================================================================
