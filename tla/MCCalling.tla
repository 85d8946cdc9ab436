------------------------------- MODULE MCCalling -------------------------------
(***************************************************************************)
(* The calls of one caller to a procedure one node provides.               *)
(***************************************************************************)
EXTENDS Calling

CallingSpec == CInit /\ [][CNext]_cvars
=============================================================================
