---------------------------- MODULE MCPageScripts ----------------------------
(***************************************************************************)
(* The pages for TLC.                                                      *)
(***************************************************************************)
EXTENDS PageScripts

CONSTANTS i1, i2, d1

SomeLimits == [any |-> 1, console |-> 2, tracker |-> 2]
=============================================================================
