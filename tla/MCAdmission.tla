----------------------------- MODULE MCAdmission -----------------------------
(***************************************************************************)
(* Instances of Admission for TLC: callers "a" and "b" (and "c"), where    *)
(* "a" signs two requests under one id (a1, a1x) and one under another.    *)
(* Deadlines lie inside and outside the window as the clock runs.          *)
(***************************************************************************)
EXTENDS Admission, TLC

CONSTANTS p1, p2, s1, s2

MCCallerOf == [r \in Request |-> CASE r \in {"a1", "a1x", "a2"} -> "a" [] r = "b1" -> "b" [] OTHER -> "c"]

MCIdOf == [r \in Request |-> IF r = "a2" THEN 2 ELSE 1]

MCDeadline == [r \in Request |-> CASE r \in {"a1", "c1"} -> 0 [] r = "b1" -> 2 [] OTHER -> 1]

MCShareOf == p1 :> s1 @@ p2 :> s2

\* The two links are alike: each receiver is swapped with its share.
LinkSymmetry == {f \in Permutations(Receiver \union Share) : \A p \in Receiver : f[p] \in Receiver /\ f[ShareOf[p]] = ShareOf[f[p]]}
==============================================================================
