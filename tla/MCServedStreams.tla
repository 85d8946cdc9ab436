--------------------------- MODULE MCServedStreams ---------------------------
(***************************************************************************)
(* Instances of ServedStreams for TLC: the streams of one caller, whose    *)
(* sessions share that caller's budgets.                                   *)
(***************************************************************************)
EXTENDS ServedStreams, TLC

MCCallerOf == [s \in Stream |-> "a"]

StreamSymmetry == Permutations(Stream)
==============================================================================
