------------------------------ MODULE MCClocked ------------------------------
(***************************************************************************)
(* What a node decides by its clock: the requests it admitted, the epochs  *)
(* of a group it joined, and the records it signs.  Each works on state of *)
(* its own, so a behaviour runs one of them, chosen at its start.          *)
(***************************************************************************)
EXTENDS MCAdmission, Groups, Records

LifeMC == <<2, 3, 3, 3, 3, 4>>

VARIABLE part

clockedvars == <<vars, gvars, rvars, part>>

ClockedInit == part \in {"admission", "groups", "records"} /\ Init /\ GInit /\ RInit

ClockedNext ==
    \/ part = "admission" /\ Next /\ UNCHANGED <<gvars, rvars, part>>
    \/ part = "groups" /\ GNext /\ UNCHANGED <<vars, rvars, part>>
    \/ part = "records" /\ RNext /\ UNCHANGED <<vars, gvars, part>>

ClockedSpec == ClockedInit /\ [][ClockedNext]_clockedvars
==============================================================================
