------------------------------- MODULE Handshake -------------------------------
(***************************************************************************)
(* The connection handshake: OPENER, CHALLENGE, CONNECT, HELLO             *)
(* (handshake/handshake.go), run by a dialing link (stationlink/link.go,   *)
(* transport/profile_dial.go) and by a station (teststation/station.go).   *)
(*                                                                         *)
(* Keys, hashes and the TLS exporter are symbolic: a signature is the      *)
(* signer and the message it covers, a hash is what it hashes, and the     *)
(* exporter of a connection is the connection with the two node_ids.  A    *)
(* party may be handed a frame that was sent on another connection.  Each  *)
(* connection has at most one fault, of one side, which says what is wrong *)
(* with it.  The version floor is that of the one version there is, so it  *)
(* never refuses and is left out.                                          *)
(***************************************************************************)
EXTENDS Checks, TLC

CONSTANTS Conn, Fault

VARIABLES
    reaches,   \* the station a connection really ends at; every client expects StationA
    fault,     \* what is wrong on the connection: <<side, what>>, NoFault mostly
    client,    \* the dialing side: "dialing", "opened", "answered", "up", or the error
    seen,      \* the CHALLENGE the client answered
    said,      \* the CONNECT it sent
    station,   \* the station's side: "waiting", "challenged", "accepted", or the error
    admitted,  \* the node_id and CONNECT the station accepted
    frames     \* every frame sent, on any connection

hvars == <<reaches, fault, client, seen, said, station, admitted, frames>>

StationA == "A"
StationB == "B"
ClientNode == "n"
None == <<>>
NoFault == <<"none", "none">>

HInit ==
    /\ reaches \in [Conn -> {StationA, StationB}]
    /\ fault \in [Conn -> Fault]
    /\ client = [c \in Conn |-> "dialing"] /\ seen = [c \in Conn |-> None] /\ said = [c \in Conn |-> None]
    /\ station = [c \in Conn |-> "waiting"] /\ admitted = [c \in Conn |-> None]
    /\ frames = {}

\* What is wrong with the client's, or the station's, part of connection c.
FaultOf(c, side) == IF fault[c][1] = side THEN fault[c][2] ELSE "none"
Has(c, what) == fault[c][2] = what
ClientProfile(c) == IF Has(c, "profile") THEN "cnsa" ELSE "bsi"
StationProfile == "bsi"
Leaf(s) == <<"leaf", s>>
Exported(c, n, s) == <<c, n, s>>

\* checkProfileConnection and dialable: what DialTarget refuses.
dialed(c) == FirstFault(<<
    <<Has(c, "no_node_id"), "no_expected_node_id">>,
    <<Has(c, "tls_group"), "wrong_key_exchange_group">>,
    <<Has(c, "tls_certificate"), "station_certificate">> >>)

\* decode: the decoding rule and version, the type, the layout and field types.
decode(f, type) == FirstFault(<<
    <<f.bad = "malformed", "malformed_frame">>,
    <<f.bad = "version", "unsupported_version">>,
    <<f.type # type, "unexpected_frame">>,
    <<f.bad = "layout", "malformed_frame">> >>)

\* What a frame of the given type sent on c is spoilt by.
Spoilt(c, type) ==
    CASE Has(c, type \o "_malformed") -> "malformed"
      [] Has(c, type \o "_version") -> "version"
      [] Has(c, type \o "_layout") -> "layout"
      [] OTHER -> "none"

\* negotiate: one version, the profile both list.
negotiate(a, b) == IF a = b THEN "none" ELSE "profile_unsupported"
-----------------------------------------------------------------------------
\* Dial: DialTarget, then exchangeHandshake sends OPENER.
Dial(c) ==
    /\ client[c] = "dialing"
    /\ IF dialed(c) # "none"
       THEN client' = [client EXCEPT ![c] = dialed(c)] /\ UNCHANGED frames
       ELSE /\ client' = [client EXCEPT ![c] = "opened"]
            /\ frames' = frames \union {[type |-> "opener", bad |-> Spoilt(c, "opener"), profile |-> ClientProfile(c)]}
    /\ UNCHANGED <<reaches, fault, seen, said, station, admitted>>

\* wireRefusal: the coarse code of a refusing HELLO.
wireRefusal(error) ==
    IF error \in {"unsupported_version", "puzzle_invalid", "session_proof_rate"} THEN error ELSE "not_accepted"

\* helloEarlyRefusal names a profile the ranges do not share.
earlyRefusal(error) ==
    IF wireRefusal(error) = "not_accepted" THEN "profile_unsupported" ELSE wireRefusal(error)

RefusingHello(code, early) == [type |-> "hello", bad |-> "none", accepted |-> FALSE, capabilities |-> "none", code |-> code, early |-> early, proof |-> None]

\* ReadOpener, then Challenge: a fresh nonce, the station's key, binding and
\* statement; an opener of no common version or profile is refused with a HELLO.
ReadOpener(c, f) ==
    LET read  == decode(f, "opener")
        error == IF read # "none" THEN read ELSE negotiate(f.profile, StationProfile)
        s     == reaches[c]
    IN  /\ station[c] = "waiting"
        /\ IF error = "none"
           THEN /\ station' = [station EXCEPT ![c] = "challenged"]
                /\ frames' = frames \union {[type |-> "challenge", bad |-> Spoilt(c, "challenge"), nonce |-> c, profile |-> StationProfile,
                                             key |-> s, binds |-> Leaf(s), fault |-> FaultOf(c, "station")]}
           ELSE /\ station' = [station EXCEPT ![c] = error]
                /\ frames' = IF read \in {"none", "unsupported_version"}
                             THEN frames \union {RefusingHello(earlyRefusal(error), TRUE)} ELSE frames
        /\ UNCHANGED <<reaches, fault, client, seen, said, admitted>>

\* The verification of a binding and of its status statement, by the subject
\* the verifier has: verifyBinding and VerifyStatus, in the code's order.
verifyBinding(what, sound) == FirstFault(<<
    <<what = "binding_signature", "binding_signature_invalid">>,
    <<what = "binding_form", "malformed_frame">>,
    <<what = "binding_use", "binding_wrong_use">>,
    <<what = "binding_node", "node_id_mismatch">>,
    <<~sound, "binding_key_mismatch">>,
    <<what = "binding_early", "binding_not_yet_valid">>,
    <<what = "binding_late", "binding_expired">> >>)

verifyStatus(what) == FirstFault(<<
    <<what = "status_signature", "status_signature_invalid">>,
    <<what = "status_form", "malformed_frame">>,
    <<what = "status_node", "node_id_mismatch">>,
    <<what = "status_binding", "status_binding_mismatch">>,
    <<what = "status_future", "status_future_dated">>,
    <<what = "status_late", "status_expired">> >>)

\* ReadChallenge: the client's checks of a CHALLENGE.
ReadChallenge(c, f) ==
    LET read == decode(f, "challenge")
    IN  IF read # "none" THEN read ELSE FirstFault(<<
            <<negotiate(ClientProfile(c), f.profile) # "none", "downgrade_detected">>,
            <<f.fault = "station_key_form", "malformed_frame">>,
            <<Has(c, "key_reuse") \/ f.fault = "station_key_reuse", "key_purpose_reuse">>,
            <<f.key # StationA, "peer_identity_mismatch">>,
            <<verifyBinding(f.fault, f.binds = Leaf(reaches[c])) # "none", verifyBinding(f.fault, f.binds = Leaf(reaches[c]))>>,
            <<verifyStatus(f.fault) # "none", verifyStatus(f.fault)>>,
            <<Has(c, "no_exporter"), "exporter_unavailable">> >>)

\* Mutant: the proof covers the challenge and CONNECT, not the exporter.
proofMessageOf(c, challenge, s, tbs) == [nonce |-> challenge.nonce, station |-> s, client |-> ClientNode, leaf |-> Leaf(s),
                                         challenge |-> challenge, e |-> None, tbs |-> tbs]

\* proofMessage: what the CONNECT proof signs.
proofMessage(c, challenge, s, tbs) == [nonce |-> challenge.nonce, station |-> s, client |-> ClientNode, leaf |-> Leaf(s),
                                       challenge |-> challenge, e |-> Exported(c, ClientNode, s), tbs |-> tbs]

\* helloTBS: a HELLO without its session proof.
helloTBS(f) == [accepted |-> f.accepted, capabilities |-> f.capabilities]

\* sessionProofMessage: what the session proof of HELLO signs.
sessionProofMessage(c, challenge, connect, s, tbs) ==
    [e |-> Exported(c, ClientNode, s), challenge |-> challenge, connect |-> connect,
     station |-> s, client |-> ClientNode, hello |-> tbs]

\* AnswerChallenge, with the issuer's material, which may not be had.
AnswerChallenge(c, f) ==
    LET error == IF Has(c, "no_material") THEN "no_connect_material" ELSE ReadChallenge(c, f)
        tbs   == [profile |-> ClientProfile(c), fault |-> FaultOf(c, "client")]
        connect == [type |-> "connect", bad |-> Spoilt(c, "connect"), tbs |-> tbs, key |-> ClientNode,
                    proof |-> [by |-> "connect", over |-> proofMessage(c, f, f.key, tbs)]]
    IN  /\ client[c] = "opened"
        /\ IF error # "none"
           THEN client' = [client EXCEPT ![c] = error] /\ UNCHANGED <<seen, said, frames>>
           ELSE /\ client' = [client EXCEPT ![c] = "answered"]
                /\ seen' = [seen EXCEPT ![c] = f] /\ said' = [said EXCEPT ![c] = connect]
                /\ frames' = frames \union {connect}
        /\ UNCHANGED <<reaches, fault, station, admitted>>

\* checkConnect: decodeConnect, checkConnectKeys, checkPuzzleAndFloor, the
\* binding and status, checkConnectProof, signSessionProof.
checkConnect(c, f) ==
    LET read == decode(f, "connect")
        sent == CHOOSE g \in frames : g.type = "challenge" /\ g.nonce = c
    IN  IF read # "none" THEN read ELSE FirstFault(<<
            <<f.tbs.fault = "other_ranges", "negotiation_mismatch">>,
            <<f.tbs.profile # StationProfile, "profile_unsupported">>,
            <<f.tbs.fault = "connect_key_form", "malformed_frame">>,
            <<f.tbs.fault = "connect_key_reuse", "key_purpose_reuse">>,
            <<f.tbs.fault = "no_puzzle", "puzzle_invalid">>,
            <<verifyBinding(f.tbs.fault, TRUE) # "none", verifyBinding(f.tbs.fault, TRUE)>>,
            <<verifyStatus(f.tbs.fault) # "none", verifyStatus(f.tbs.fault)>>,
            <<Has(c, "no_station_exporter"), "exporter_unavailable">>,
            <<f.proof.over # proofMessage(c, sent, reaches[c], f.tbs), "proof_invalid">>,
            <<Has(c, "proof_rate"), "session_proof_rate">> >>)

\* AcceptConnect: an accepting HELLO with the session proof, or a refusing one.
AcceptConnect(c, f) ==
    LET error == checkConnect(c, f)
        sent  == CHOOSE g \in frames : g.type = "challenge" /\ g.nonce = c
        tbs   == [accepted |-> TRUE, capabilities |-> "station"]
        proof == [by |-> reaches[c], over |-> sessionProofMessage(c, sent, f, reaches[c], tbs)]
    IN  /\ station[c] = "challenged"
        /\ IF error = "none"
           THEN /\ station' = [station EXCEPT ![c] = "accepted"]
                /\ admitted' = [admitted EXCEPT ![c] = f]
                /\ frames' = frames \union {[type |-> "hello", bad |-> Spoilt(c, "hello"), accepted |-> TRUE, code |-> "none", early |-> FALSE,
                                             capabilities |-> IF Has(c, "capabilities") THEN "others" ELSE "station",
                                             proof |-> IF Has(c, "proofless") THEN None ELSE proof]}
           ELSE /\ station' = [station EXCEPT ![c] = error]
                /\ frames' = frames \union {RefusingHello(wireRefusal(error), FALSE)}
                /\ UNCHANGED admitted
        /\ UNCHANGED <<reaches, fault, client, seen, said>>

\* ReadHello, and the link that handshaken makes of it.
ReadHello(c, f) ==
    LET read == decode(f, "hello")
        error == IF read # "none" THEN read ELSE FirstFault(<<
            <<~f.accepted, "refused">>,
            <<f.proof = None, "session_proof_missing">>,
            <<f.proof # [by |-> seen[c].key, over |-> sessionProofMessage(c, seen[c], said[c], seen[c].key, helloTBS(f))], "session_proof_invalid">>,
            <<Has(c, "binding_dropped"), "unknown_binding">> >>)
    IN  /\ client[c] = "answered"
        /\ client' = [client EXCEPT ![c] = IF error = "none" THEN "up" ELSE error]
        /\ UNCHANGED <<reaches, fault, seen, said, station, admitted, frames>>

\* A handshake that does not finish within HandshakeTimeout.
TimesOut(c) ==
    /\ client[c] \in {"opened", "answered"}
    /\ client' = [client EXCEPT ![c] = "timeout"]
    /\ UNCHANGED <<reaches, fault, seen, said, station, admitted, frames>>

HNext ==
    \E c \in Conn :
        \/ Dial(c) \/ TimesOut(c)
        \/ \E f \in frames : ReadOpener(c, f) \/ AnswerChallenge(c, f) \/ AcceptConnect(c, f) \/ ReadHello(c, f)

HSpec == HInit /\ [][HNext]_hvars
-----------------------------------------------------------------------------
\* A link that is up and its station agree on the session: the connection ends
\* at the expected station, which accepted this CONNECT on this connection; and
\* a station accepts on a connection only what that connection's client sent
\* for that connection's challenge.  Frames of other connections change nothing.
Agreement ==
    \A c \in Conn :
        /\ client[c] = "up" => reaches[c] = StationA /\ station[c] = "accepted" /\ admitted[c] = said[c]
        /\ station[c] = "accepted" => said[c] = admitted[c] /\ seen[c].nonce = c
=============================================================================
