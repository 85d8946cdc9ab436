-------------------------------- MODULE MCCabi --------------------------------
(***************************************************************************)
(* The C ABI: an inbox with its locks and signals, what a pool keeps for a *)
(* binding, and the key file a binding loads or creates.  Each works on    *)
(* state of its own, so a behaviour runs one of them, chosen at its start. *)
(***************************************************************************)
EXTENDS Inbox, Cabi, KeyFiles

VARIABLE part

abivars == <<vars, cabivars, keyvars, part>>

AbiInit ==
    /\ part \in {"inbox", "serving", "keys"}
    /\ Init /\ CabiInit /\ KeyInit
    /\ part # "inbox" => policy = "waitForRoom"
    /\ serves = "calls" <=> sub = "never"
    /\ part # "serving" => serves = "calls"
    /\ part # "keys" => files = <<>>
    /\ files \in {<<>>, <<Foreign("none", "macula")>>, <<Foreign("bad", "seed")>>}

AbiNext ==
    \/ part = "inbox" /\ Next /\ UNCHANGED <<cabivars, keyvars, part>>
    \/ part = "serving" /\ CabiNext /\ UNCHANGED <<vars, keyvars, part>>
    \/ part = "keys" /\ KeyNext /\ UNCHANGED <<vars, cabivars, part>>

AbiSpec == AbiInit /\ [][AbiNext]_abivars /\ Fairness
=============================================================================
