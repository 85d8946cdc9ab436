-------------------------------- MODULE MCLinks --------------------------------
(***************************************************************************)
(* What a link rests on: the handshake and the statements it hands over,   *)
(* and what frames, payloads and tokens say.  Each works on state of its   *)
(* own, so a behaviour runs one of them, chosen at its start.              *)
(***************************************************************************)
EXTENDS Handshake, Issuer, Frames, Cbor, Ucan

VARIABLE part

linkvars == <<hvars, ivars, fvars, bvars, uvars, part>>
-----------------------------------------------------------------------------
FaultsMC ==
    {<<"none", "none">>}
    \union {"client"} \X {"profile", "no_node_id", "tls_group", "opener_malformed", "opener_version",
              "connect_malformed", "key_reuse", "no_exporter", "no_material", "other_ranges",
              "connect_key_form", "connect_key_reuse", "no_puzzle", "binding_dropped"}
    \union {"station"} \X {"tls_certificate", "challenge_layout", "hello_version", "station_key_form",
              "station_key_reuse", "no_station_exporter", "proof_rate", "proofless", "capabilities"}
    \union {"client", "station"} \X {"binding_signature", "binding_form", "binding_use", "binding_node",
              "binding_early", "binding_late", "status_signature", "status_form", "status_node",
              "status_binding", "status_future", "status_late"}

\* A unary call, a stream to the caller's own node, and another under its id.
RequestsMC ==
    [call |-> [frame |-> "call", id |-> 0, caller |-> "a", target |-> "b", mode |-> "none",
               via |-> {"s", "t"}, sealed |-> TRUE],
     up |-> [frame |-> "stream_open", id |-> 1, caller |-> "a", target |-> "a", mode |-> "server_stream",
             via |-> {}, sealed |-> TRUE],
     again |-> [frame |-> "stream_open", id |-> 1, caller |-> "a", target |-> "a", mode |-> "bidi",
                via |-> {"t"}, sealed |-> FALSE]]

\* Payloads up to one level deeper than allowed, with more elements than
\* allowed, longer than a frame, and with maps whose keys come in either order
\* or twice.
Uint(n) == [kind |-> "uint", arg |-> n]
Text(s) == [kind |-> "text", of |-> s]
Atoms == {Uint(0), Uint(2), Uint(9), Text(<<1>>), Text(<<3>>),
          [kind |-> "negint", arg |-> 0], [kind |-> "bytes", of |-> <<3>>], [kind |-> "float", arg |-> 4],
          [kind |-> "float", arg |-> 12]}
ListsOf(S) == {[kind |-> "list", of |-> s] : s \in {<<>>} \union {<<a>> : a \in S} \union {<<a, b>> : a \in S, b \in S}}
MapsOf(S) == {[kind |-> "map", of |-> s] :
                s \in {<<>>} \union {<< <<a, Uint(0)>>, <<c, b>> >> : a \in S, b \in S, c \in S}}
Small == {Uint(0), Text(<<1>>)}
PayloadsMC == Atoms \union ListsOf(Atoms) \union MapsOf(Atoms) \union ListsOf(Small \union ListsOf(Small))

\* Chains of up to three tokens from root through a and b to the caller.
With(kind, org, proc) == [kind |-> kind, realm |-> "r1", org |-> org, proc |-> proc]
MayCall(with) == [with |-> with, can |-> "call"]
CallRealm == <<MayCall(With("realm", "", ""))>>
CapsMC == {CallRealm,
           <<MayCall(With("org", "o2", "")), MayCall(With("proc", "o1", "p1"))>>,
           <<MayCall(With("proc", "o1", "p2")), [with |-> With("org", "o1", ""), can |-> "read"]>>}
OddCaps == {<<>>, <<MayCall([With("realm", "", "") EXCEPT !.realm = "R1"])>>,
            <<MayCall([With("org", "o1", "") EXCEPT !.realm = "r2"])>>,
            <<MayCall(With("proc", "", ""))>>, <<MayCall(With("none", "", ""))>>}
Sounds(iss, aud, caps) == {[iss |-> iss, aud |-> aud, cap |-> c, fault |-> "none"] : c \in caps}
Spoilts(iss, aud) ==
    {[iss |-> iss, aud |-> aud, cap |-> CallRealm, fault |-> f] :
       f \in {"form", "alg", "claims", "signature", "expired", "lifetime", "early", "not_identity_key", "beyond_lifetime"}}
MadeMC ==
    <<Sounds("root", "a", CapsMC) \union Sounds("a", "b", CapsMC) \union Sounds("root", "caller", CapsMC \union OddCaps)
         \union Spoilts("root", "a"),
      Sounds("a", "b", CapsMC) \union Sounds("a", "caller", CapsMC) \union Spoilts("a", "caller"),
      Sounds("b", "caller", CapsMC)>>
-----------------------------------------------------------------------------
LinksSymmetry == Permutations(Conn)

\* The choices a part makes in its initial state are fixed in the others, and
\* at most one connection of the handshake has a fault or another station.
LinksInit ==
    /\ part \in {"handshake", "issuer", "frames", "cbor", "ucan"}
    /\ HInit
    /\ Cardinality({c \in Conn : fault[c] # NoFault \/ reaches[c] # StationA}) <= 1
    /\ part # "handshake" => \A c \in Conn : reaches[c] = StationA /\ fault[c] = NoFault
    /\ IInit /\ FInit /\ BInit /\ UInit

LinksNext ==
    \/ part = "handshake" /\ HNext /\ UNCHANGED <<ivars, fvars, bvars, uvars, part>>
    \/ part = "issuer" /\ INext /\ UNCHANGED <<hvars, fvars, bvars, uvars, part>>
    \/ part = "frames" /\ FNext /\ UNCHANGED <<hvars, ivars, bvars, uvars, part>>
    \/ part = "cbor" /\ BNext /\ UNCHANGED <<hvars, ivars, fvars, uvars, part>>
    \/ part = "ucan" /\ UNext /\ UNCHANGED <<hvars, ivars, fvars, bvars, part>>

LinksSpec == LinksInit /\ [][LinksNext]_linkvars
=============================================================================
