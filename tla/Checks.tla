-------------------------------- MODULE Checks --------------------------------
(***************************************************************************)
(* A verifier of this repository runs its checks in a fixed order and      *)
(* answers with the error of the first that fails.  Such a chain is written*)
(* as a sequence of <<fails, error>> pairs in the order of the code.       *)
(***************************************************************************)
EXTENDS Sequences, FiniteSetsExt

\* The error of the first check that fails, "none" when every one passes.
FirstFault(checks) ==
    LET failing == {i \in DOMAIN checks : checks[i][1]}
    IN  IF failing = {} THEN "none" ELSE checks[Min(failing)][2]
=============================================================================
