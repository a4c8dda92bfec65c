------------------------------ MODULE MCSeHal ------------------------------
(***************************************************************************)
(* Instances of SeHal: each driver, two calls and two restarts, a counter   *)
(* of two values and its limit.                                            *)
(***************************************************************************)
EXTENDS SeHal

MCAll == {"TERNARYCORE", "ATECC", "SE051"}
=============================================================================
