-------------------------------- MODULE MCPool --------------------------------
(***************************************************************************)
(* What a pool does over its links: serving, calls, a caller's stream,     *)
(* content and publications.  Each works on state of its own, so a         *)
(* behaviour runs one of them, chosen at its start.                        *)
(***************************************************************************)
EXTENDS Serving, Calling, CallerStream, Content, Publications, TLC

VARIABLE part

poolvars == <<svars, cvars, csvars, ctvars, pubvars, part>>

SharedMC == {<<1>>, <<2, 1>>, <<1, 2, 1>>}
BlocksMC == {<<1>>, <<2>>, <<1, 2>>}

PoolSymmetry == Permutations(Uplink) \union Permutations(Node)

\* The choices a part makes in its initial state are fixed in the others; the
\* providers of a call treat a clear request alike, and one of them advertises
\* its key, or one of another profile, and the other none.
PoolInit ==
    /\ part \in {"serving", "calling", "stream", "content", "publications"}
    /\ SInit /\ CInit /\ CSInit /\ CtInit /\ PubInit
    /\ part # "stream" => keys = 0 /\ call = "kept"
    /\ \A n, m \in Node : clearly[n] = clearly[m]
    /\ \A n \in Node : adverts[n] = {0} => held[n] = 1
    /\ \A n \in Node : held[n] = OtherProfile => clearly[n] = "serves"
    /\ IF part = "calling" THEN \E n, m \in Node : adverts[n] = {0} /\ adverts[m] # {0}
       ELSE \A n \in Node : adverts[n] = {0} /\ clearly[n] = "serves"

PoolNext ==
    \/ part = "serving" /\ SNext /\ UNCHANGED <<cvars, csvars, ctvars, pubvars, part>>
    \/ part = "calling" /\ CNext /\ UNCHANGED <<svars, csvars, ctvars, pubvars, part>>
    \/ part = "stream" /\ CSNext /\ UNCHANGED <<svars, cvars, ctvars, pubvars, part>>
    \/ part = "content" /\ CtNext /\ UNCHANGED <<svars, cvars, csvars, pubvars, part>>
    \/ part = "publications" /\ PubNext /\ UNCHANGED <<svars, cvars, csvars, ctvars, part>>

PoolSpec == PoolInit /\ [][PoolNext]_poolvars
=============================================================================
