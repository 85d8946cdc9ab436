------------------------------ MODULE MCHolding ------------------------------
(***************************************************************************)
(* What a node holds open for its users: the streams it serves on a link,  *)
(* and a subscription over the links of its pool.  Each works on state of  *)
(* its own, so a behaviour runs one of them, chosen at its start.          *)
(***************************************************************************)
EXTENDS MCServedStreams, PoolSubscription

VARIABLE part

holdingvars == <<vars, pvars, part>>

HoldingSymmetry == Permutations(Stream \union Link)

HoldingInit ==
    /\ part \in {"streams", "subscription"}
    /\ Init /\ PInit
    /\ part = "streams" => grouped = FALSE

\* A group's subscription differs in its queues only, which Close leaves alone:
\* the pool closes around the other.
HoldingNext ==
    \/ part = "streams" /\ Next /\ UNCHANGED <<pvars, part>>
    \/ part = "subscription" /\ PNext /\ (grouped => ~closed') /\ UNCHANGED <<vars, part>>

HoldingSpec == HoldingInit /\ [][HoldingNext]_holdingvars
==============================================================================
