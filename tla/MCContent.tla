------------------------------- MODULE MCContent -------------------------------
(***************************************************************************)
(* The sharing side of content alone: contents that have blocks in common. *)
(***************************************************************************)
EXTENDS Content

SharedMC == {<<1>>, <<2, 1>>, <<1, 2, 1>>}
BlocksMC == {<<1>>, <<2>>, <<1, 2>>}

=============================================================================
