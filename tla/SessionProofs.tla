---------------------------- MODULE SessionProofs ---------------------------
(***************************************************************************)
(* Proofs about what identifies and binds a session, for any periods,      *)
(* tolerances and connections.  The two sides of a handshake agree on each *)
(* other, on the connection and on what was offered.  A signed record can be*)
(* withdrawn, and what authorizes an advertisement covers it.  And what the*)
(* issuer hands a dial verifies.                                           *)
(***************************************************************************)
EXTENDS Issuer, Handshake, Records, WellFoundedInduction, TLAPS

\* The least of some naturals is one of them.
LEMMA MinIs ==
    ASSUME NEW S \in SUBSET Nat, S # {}
    PROVE  Min(S) \in S
<1> DEFINE R == {ss \in Nat \X Nat : ss[1] < ss[2]}
<1>0. OpToRel(<, Nat) = R
    BY Zenon DEF OpToRel
<1>1. IsWellFoundedOn(R, Nat)
    BY <1>0, NatLessThanWellFounded, Zenon
<1> HIDE DEF R
<1>2. \E x \in S : \A y \in S : ~(<<y, x>> \in R)
    BY <1>1, WFMin, Zenon
<1>3. PICK x \in S : \A y \in S : ~(<<y, x>> \in R)
    BY <1>2, Zenon
<1>4. ASSUME NEW y \in S PROVE x =< y
  <2>1. ~(<<y, x>> \in R)
    BY <1>3, Zenon
  <2>2. x \in Nat /\ y \in Nat
    BY Zenon
  <2> QED
    BY <2>1, <2>2 DEF R
<1> QED
    BY <1>4, Zenon DEF Min

\* What a chain of checks answers: nothing if none fails, or the error of one that fails.
LEMMA FaultIs ==
    ASSUME NEW checks, DOMAIN checks \subseteq Nat
    PROVE  \/ FirstFault(checks) = "none" /\ \A i \in DOMAIN checks : ~checks[i][1]
           \/ \E i \in DOMAIN checks : checks[i][1] /\ FirstFault(checks) = checks[i][2]
<1> DEFINE failing == {i \in DOMAIN checks : checks[i][1]}
<1>1. CASE failing = {}
    BY <1>1, Zenon DEF FirstFault
<1>2. CASE failing # {}
  <2>1. Min(failing) \in failing
    BY <1>2, MinIs, Zenon
  <2>2. FirstFault(checks) = checks[Min(failing)][2]
    BY <1>2, Zenon DEF FirstFault
  <2> QED
    BY <2>1, <2>2, Zenon
<1> QED
    BY <1>1, <1>2, Zenon

\* The names of a side's progress, none of which is an error.
Stages == {"dialing", "opened", "answered", "up", "waiting", "challenged", "accepted"}

\* When a chain passes no check failed, given that no failing check answers
\* "none"; and it answers with a stage only if a check does.
LEMMA Passes ==
    ASSUME NEW checks, DOMAIN checks \subseteq Nat,
           \A i \in DOMAIN checks : checks[i][1] => checks[i][2] # "none",
           FirstFault(checks) = "none"
    PROVE  \A i \in DOMAIN checks : ~checks[i][1]
    BY FaultIs, Zenon

\* A chain whose errors are no stages of a handshake does not answer with one.
LEMMA NoStage ==
    ASSUME NEW checks, DOMAIN checks \subseteq Nat,
           \A i \in DOMAIN checks : checks[i][1] => checks[i][2] \notin Stages
    PROVE  FirstFault(checks) \notin Stages
<1>1. "none" \notin Stages
    BY Zenon DEF Stages
<1> QED
    BY <1>1, FaultIs, Zenon

\* decode passes only a frame of the type it is to read.
LEMMA DecodeIs ==
    ASSUME NEW f, NEW type
    PROVE  decode(f, type) \notin Stages /\ (decode(f, type) = "none" => f.type = type)
<1> DEFINE checks == <<
        <<f.bad = "malformed", "malformed_frame">>,
        <<f.bad = "version", "unsupported_version">>,
        <<f.type # type, "unexpected_frame">>,
        <<f.bad = "layout", "malformed_frame">> >>
<1>1. DOMAIN checks \subseteq Nat /\ 3 \in DOMAIN checks
    OBVIOUS
<1>2. \A i \in DOMAIN checks : checks[i][2] \notin Stages /\ checks[i][2] # "none"
    BY DEF Stages
<1>3. checks[3][1] = (f.type # type)
    BY Zenon
<1>4. decode(f, type) = FirstFault(checks)
    BY Zenon DEF decode
<1> HIDE DEF checks
<1> QED
    BY <1>1, <1>2, <1>3, <1>4, Passes, NoStage, Zenon

\* The errors of the other checks are no stages, nor "none".
LEMMA BindingIs ==
    ASSUME NEW what, NEW sound
    PROVE  verifyBinding(what, sound) \notin Stages
<1> DEFINE checks == <<
        <<what = "binding_signature", "binding_signature_invalid">>,
        <<what = "binding_form", "malformed_frame">>,
        <<what = "binding_use", "binding_wrong_use">>,
        <<what = "binding_node", "node_id_mismatch">>,
        <<~sound, "binding_key_mismatch">>,
        <<what = "binding_early", "binding_not_yet_valid">>,
        <<what = "binding_late", "binding_expired">> >>
<1>1. DOMAIN checks \subseteq Nat
    OBVIOUS
<1>2. \A i \in DOMAIN checks : checks[i][2] \notin Stages
    BY DEF Stages
<1>3. verifyBinding(what, sound) = FirstFault(checks)
    BY Zenon DEF verifyBinding
<1> HIDE DEF checks
<1> QED
    BY <1>1, <1>2, <1>3, NoStage, Zenon

\* Checking a status statement does not end in a stage of the handshake.
LEMMA StatusIs ==
    ASSUME NEW what
    PROVE  verifyStatus(what) \notin Stages
<1> DEFINE checks == <<
        <<what = "status_signature", "status_signature_invalid">>,
        <<what = "status_form", "malformed_frame">>,
        <<what = "status_node", "node_id_mismatch">>,
        <<what = "status_binding", "status_binding_mismatch">>,
        <<what = "status_future", "status_future_dated">>,
        <<what = "status_late", "status_expired">> >>
<1>1. DOMAIN checks \subseteq Nat
    OBVIOUS
<1>2. \A i \in DOMAIN checks : checks[i][2] \notin Stages
    BY DEF Stages
<1>3. verifyStatus(what) = FirstFault(checks)
    BY Zenon DEF verifyStatus
<1> HIDE DEF checks
<1> QED
    BY <1>1, <1>2, <1>3, NoStage, Zenon

\* Nor does checking who was dialed.
LEMMA DialedIs ==
    ASSUME NEW c
    PROVE  dialed(c) \notin Stages
<1> DEFINE checks == <<
        <<Has(c, "no_node_id"), "no_expected_node_id">>,
        <<Has(c, "tls_group"), "wrong_key_exchange_group">>,
        <<Has(c, "tls_certificate"), "station_certificate">> >>
<1>1. DOMAIN checks \subseteq Nat
    OBVIOUS
<1>2. \A i \in DOMAIN checks : checks[i][2] \notin Stages
    BY DEF Stages
<1>3. dialed(c) = FirstFault(checks)
    BY Zenon DEF dialed
<1> HIDE DEF checks
<1> QED
    BY <1>1, <1>2, <1>3, NoStage, Zenon

\* A client answers only a CHALLENGE of the station it expects.
LEMMA ChallengeIs ==
    ASSUME NEW c, NEW f
    PROVE  /\ ReadChallenge(c, f) \notin Stages
           /\ ReadChallenge(c, f) = "none" => f.type = "challenge" /\ f.key = StationA
<1> DEFINE sound == f.binds = Leaf(reaches[c])
           binding == verifyBinding(f.fault, sound)
           status == verifyStatus(f.fault)
           checks == <<
            <<negotiate(ClientProfile(c), f.profile) # "none", "downgrade_detected">>,
            <<f.fault = "station_key_form", "malformed_frame">>,
            <<Has(c, "key_reuse") \/ f.fault = "station_key_reuse", "key_purpose_reuse">>,
            <<f.key # StationA, "peer_identity_mismatch">>,
            <<binding # "none", binding>>,
            <<status # "none", status>>,
            <<Has(c, "no_exporter"), "exporter_unavailable">> >>
           read == decode(f, "challenge")
<1>1. binding \notin Stages /\ status \notin Stages
    BY BindingIs, StatusIs, Zenon
<1>2. ReadChallenge(c, f) = IF read # "none" THEN read ELSE FirstFault(checks)
    BY Zenon DEF ReadChallenge
<1>3. read \notin Stages /\ (read = "none" => f.type = "challenge")
    BY DecodeIs, Zenon
<1> HIDE DEF binding, status, read
<1>4. DOMAIN checks \subseteq Nat /\ 4 \in DOMAIN checks
    OBVIOUS
<1>5. \A i \in DOMAIN checks : checks[i][1] => checks[i][2] \notin Stages /\ checks[i][2] # "none"
  <2>1. \A i \in DOMAIN checks \ {5, 6} : checks[i][2] \notin Stages /\ checks[i][2] # "none"
    BY DEF Stages
  <2>2. checks[5][1] = (binding # "none") /\ checks[5][2] = binding
    BY Zenon
  <2>3. checks[6][1] = (status # "none") /\ checks[6][2] = status
    BY Zenon
  <2> HIDE DEF checks
  <2> QED
    BY <1>1, <2>1, <2>2, <2>3, Zenon
<1>6. checks[4][1] = (f.key # StationA)
    BY Zenon
<1> HIDE DEF checks
<1>7. FirstFault(checks) \notin Stages /\ (FirstFault(checks) = "none" => f.key = StationA)
    BY <1>4, <1>5, <1>6, Passes, NoStage, Zenon
<1> QED
    BY <1>2, <1>3, <1>7, Zenon

\* The CHALLENGE a station sent on connection c.
SentOn(c) == CHOOSE g \in frames : g.type = "challenge" /\ g.nonce = c

\* A station accepts only a CONNECT whose proof covers its own CHALLENGE and the
\* exporter of its own connection.
LEMMA ConnectIs ==
    ASSUME NEW c, NEW f
    PROVE  /\ checkConnect(c, f) \notin Stages
           /\ checkConnect(c, f) = "none" =>
                 f.type = "connect" /\ f.proof.over = proofMessage(c, SentOn(c), reaches[c], f.tbs)
<1> DEFINE binding == verifyBinding(f.tbs.fault, TRUE)
           status == verifyStatus(f.tbs.fault)
           message == proofMessage(c, SentOn(c), reaches[c], f.tbs)
           read == decode(f, "connect")
           checks == <<
            <<f.tbs.fault = "other_ranges", "negotiation_mismatch">>,
            <<f.tbs.profile # StationProfile, "profile_unsupported">>,
            <<f.tbs.fault = "connect_key_form", "malformed_frame">>,
            <<f.tbs.fault = "connect_key_reuse", "key_purpose_reuse">>,
            <<f.tbs.fault = "no_puzzle", "puzzle_invalid">>,
            <<binding # "none", binding>>,
            <<status # "none", status>>,
            <<Has(c, "no_station_exporter"), "exporter_unavailable">>,
            <<f.proof.over # message, "proof_invalid">>,
            <<Has(c, "proof_rate"), "session_proof_rate">> >>
<1>1. binding \notin Stages /\ status \notin Stages
    BY BindingIs, StatusIs, Zenon
<1>2. checkConnect(c, f) = IF read # "none" THEN read ELSE FirstFault(checks)
    BY Zenon DEF checkConnect, SentOn
<1>3. read \notin Stages /\ (read = "none" => f.type = "connect")
    BY DecodeIs, Zenon
<1> HIDE DEF binding, status, read, message
<1>4. DOMAIN checks \subseteq Nat /\ 9 \in DOMAIN checks
    OBVIOUS
<1>5. \A i \in DOMAIN checks : checks[i][1] => checks[i][2] \notin Stages /\ checks[i][2] # "none"
  <2>1. \A i \in DOMAIN checks \ {6, 7} : checks[i][2] \notin Stages /\ checks[i][2] # "none"
    BY DEF Stages
  <2>2. checks[6][1] = (binding # "none") /\ checks[6][2] = binding
    BY Zenon
  <2>3. checks[7][1] = (status # "none") /\ checks[7][2] = status
    BY Zenon
  <2> HIDE DEF checks
  <2> QED
    BY <1>1, <2>1, <2>2, <2>3, Zenon
<1>6. checks[9][1] = (f.proof.over # message)
    BY Zenon
<1> HIDE DEF checks
<1>7. FirstFault(checks) \notin Stages /\ (FirstFault(checks) = "none" => f.proof.over = message)
    BY <1>4, <1>5, <1>6, Passes, NoStage, Zenon
<1> QED
    BY <1>2, <1>3, <1>7, Zenon DEF message

\* The state functions are defined on the connections.
HandshakeType ==
    /\ DOMAIN client = Conn /\ DOMAIN seen = Conn /\ DOMAIN said = Conn
    /\ DOMAIN station = Conn /\ DOMAIN admitted = Conn

\* A client that has answered a CHALLENGE, well or not, answers no other.
Answered(c) == client[c] \notin {"dialing", "opened"}

\* The CONNECT of connection c, whose proof covers the CHALLENGE answered.
IsConnectOf(g, c) ==
    said[c] = g /\ g.proof.over = proofMessage(c, seen[c], seen[c].key, g.tbs) /\ Answered(c)

\* The session proof of the HELLO that accepts connection c.
IsHelloOf(g, c) ==
    /\ station[c] = "accepted"
    /\ g.proof.over.e = Exported(c, ClientNode, reaches[c]) /\ g.proof.over.connect = admitted[c]

\* Where the frames in flight come from.
FramesFrom ==
    \A g \in frames :
        /\ g.type = "connect" => \E c \in Conn : IsConnectOf(g, c)
        /\ (g.type = "hello" /\ g.proof # None) => \E c \in Conn : IsHelloOf(g, c)

\* What the two sides of connection c know.
SidesKnow(c) ==
    /\ station[c] = "challenged" => \E g \in frames : g.type = "challenge" /\ g.nonce = c
    /\ client[c] \in {"answered", "up"} => seen[c].key = StationA
    /\ station[c] = "accepted" => Answered(c)

HandshakeInv == HandshakeType /\ FramesFrom /\ (\A c \in Conn : SidesKnow(c)) /\ Agreement

\* Agreement on one connection.
Agree(c) ==
    /\ client[c] = "up" => reaches[c] = StationA /\ station[c] = "accepted" /\ admitted[c] = said[c]
    /\ station[c] = "accepted" => said[c] = admitted[c] /\ seen[c].nonce = c

\* The property, one connection at a time.
LEMMA AgreeIs == Agreement <=> \A c \in Conn : Agree(c)
    BY Zenon DEF Agreement, Agree

\* Nothing of connection d changes.
Untouched(d) ==
    /\ client'[d] = client[d] /\ seen'[d] = seen[d] /\ said'[d] = said[d]
    /\ station'[d] = station[d] /\ admitted'[d] = admitted[d]

\* What was answered or accepted on connection d stays.
Settled(d) ==
    /\ Answered(d) => Answered(d)' /\ said'[d] = said[d] /\ seen'[d] = seen[d]
    /\ station[d] = "accepted" => station'[d] = "accepted" /\ admitted'[d] = admitted[d]

\* A frame comes from the connection it came from when that connection settled.
LEMMA FromKept ==
    ASSUME NEW g, NEW d, Settled(d), reaches' = reaches
    PROVE  /\ IsConnectOf(g, d) => IsConnectOf(g, d)'
           /\ IsHelloOf(g, d) => IsHelloOf(g, d)'
    BY Zenon DEF Settled, IsConnectOf, IsHelloOf, proofMessage, Exported, Leaf, ClientNode

\* A step of connection c keeps the invariant when it keeps c's own part of it
\* and says where each frame it sends comes from.
LEMMA OneConnection ==
    ASSUME NEW c \in Conn, HandshakeInv, HandshakeType', reaches' = reaches, frames \subseteq frames',
           \A d \in Conn \ {c} : Untouched(d), Settled(c), SidesKnow(c)', Agree(c)',
           \A g \in frames' \ frames :
              /\ g.type = "connect" => IsConnectOf(g, c)'
              /\ (g.type = "hello" /\ g.proof # None) => IsHelloOf(g, c)'
    PROVE  HandshakeInv'
<1>1. \A d \in Conn : Settled(d)
  <2> SUFFICES ASSUME NEW d \in Conn, d # c PROVE Settled(d)
    BY Zenon
  <2>1. Untouched(d)
    BY Zenon
  <2> QED
    BY <2>1, Zenon DEF Untouched, Settled, Answered
<1>2. FramesFrom'
  <2> SUFFICES ASSUME NEW g \in frames'
               PROVE  /\ g.type = "connect" => \E d \in Conn : IsConnectOf(g, d)'
                      /\ (g.type = "hello" /\ g.proof # None) => \E d \in Conn : IsHelloOf(g, d)'
    BY Zenon DEF FramesFrom
  <2>1. CASE g \in frames
    BY <1>1, <2>1, FromKept, Zenon DEF HandshakeInv, FramesFrom
  <2>2. CASE g \notin frames
    BY <2>2, Zenon
  <2> QED
    BY <2>1, <2>2, Zenon
<1>3. ASSUME NEW d \in Conn PROVE SidesKnow(d)' /\ Agree(d)'
  <2>1. CASE d = c
    BY <2>1, Zenon
  <2>2. CASE d # c
    <3>1. Untouched(d) /\ SidesKnow(d) /\ Agree(d)
      BY <2>2, AgreeIs, Zenon DEF HandshakeInv
    <3>2. SidesKnow(d)'
      BY <3>1, Zenon DEF Untouched, SidesKnow, Answered
    <3>3. Agree(d)'
      BY <3>1, Zenon DEF Untouched, Agree
    <3> QED
      BY <3>2, <3>3, Zenon
  <2> QED
    BY <2>1, <2>2, Zenon
<1>4. Agreement'
    BY <1>3, Zenon DEF Agreement, Agree
<1> QED
    BY <1>2, <1>3, <1>4, Zenon DEF HandshakeInv

\* What an assignment to one index of a function leaves.
LEMMA AssignedIs ==
    ASSUME NEW F, NEW G, NEW c \in DOMAIN F, NEW v, G = [F EXCEPT ![c] = v]
    PROVE  DOMAIN G = DOMAIN F /\ G[c] = v /\ \A d \in DOMAIN F \ {c} : G[d] = F[d]
    BY Zenon

\* The initial states satisfy the invariant.
LEMMA HandshakeInit == HInit => HandshakeInv
<1> SUFFICES ASSUME HInit PROVE HandshakeInv
    BY Zenon
<1>1. HandshakeType
    BY Zenon DEF HInit, HandshakeType
<1>2. FramesFrom
    BY Zenon DEF HInit, FramesFrom
<1>3. \A c \in Conn : client[c] = "dialing" /\ station[c] = "waiting"
    BY Zenon DEF HInit
<1>4. \A c \in Conn : SidesKnow(c) /\ Agree(c)
    BY <1>3, Zenon DEF SidesKnow, Agree
<1> QED
    BY <1>1, <1>2, <1>4, AgreeIs, Zenon DEF HandshakeInv

\* Stuttering keeps the invariant.
LEMMA HandshakeQuiet == HandshakeInv /\ UNCHANGED hvars => HandshakeInv'
<1> SUFFICES ASSUME HandshakeInv, UNCHANGED hvars PROVE HandshakeInv'
    BY Zenon
<1>1. UNCHANGED <<reaches, fault, client, seen, said, station, admitted, frames>>
    BY Zenon DEF hvars
<1>2. HandshakeType'
    BY <1>1, Zenon DEF HandshakeInv, HandshakeType
<1>3. \A d \in Conn : Settled(d) /\ Untouched(d)
    BY <1>1, Zenon DEF Settled, Untouched, Answered
<1>4. FramesFrom'
  <2>1. \A g \in frames :
           /\ g.type = "connect" => \E d \in Conn : IsConnectOf(g, d)'
           /\ (g.type = "hello" /\ g.proof # None) => \E d \in Conn : IsHelloOf(g, d)'
    BY <1>1, <1>3, FromKept, Zenon DEF HandshakeInv, FramesFrom
  <2> QED
    BY <1>1, <2>1, Zenon DEF FramesFrom
<1>5. ASSUME NEW d \in Conn PROVE SidesKnow(d)'
    BY <1>1, Zenon DEF HandshakeInv, SidesKnow, Answered
<1>6. Agreement'
    BY <1>1, Zenon DEF HandshakeInv, Agreement
<1> QED
    BY <1>2, <1>4, <1>5, <1>6, Zenon DEF HandshakeInv

\* A step of the client alone, to v, that sends frames of no proof.
LEMMA ClientMoves ==
    ASSUME NEW c \in Conn, NEW v, HandshakeInv,
           client' = [client EXCEPT ![c] = v], client[c] \in {"dialing", "opened", "answered"},
           ~(client[c] = "dialing" /\ v \in Stages \ {"opened"}), ~(client[c] # "dialing" /\ v \in Stages \ {"up"}),
           v = "up" => seen[c].key = StationA /\ Agree(c)',
           frames \subseteq frames', \A g \in frames' \ frames : g.type = "opener",
           UNCHANGED <<reaches, seen, said, station, admitted>>
    PROVE  HandshakeInv'
<1>1. HandshakeType /\ SidesKnow(c) /\ Agree(c)
    BY AgreeIs, Zenon DEF HandshakeInv
<1>2. DOMAIN client' = Conn /\ client'[c] = v /\ \A d \in Conn \ {c} : client'[d] = client[d]
    BY <1>1, AssignedIs, Zenon DEF HandshakeType
<1>3. HandshakeType'
    BY <1>1, <1>2, Zenon DEF HandshakeType
<1>4. \A d \in Conn \ {c} : Untouched(d)
    BY <1>2, Zenon DEF Untouched
<1>5. Answered(c) => Answered(c)'
    BY <1>2, Zenon DEF Answered, Stages
<1>6. Settled(c)
    BY <1>5, Zenon DEF Settled
<1>7. SidesKnow(c)'
  <2>1. client'[c] \in {"answered", "up"} => v = "up"
    BY <1>2, Zenon DEF Stages
  <2>2. station'[c] = "accepted" => Answered(c)'
    BY <1>1, <1>5, Zenon DEF SidesKnow
  <2>3. station'[c] = "challenged" => \E g \in frames' : g.type = "challenge" /\ g.nonce = c
    BY <1>1, Zenon DEF SidesKnow
  <2> QED
    BY <2>1, <2>2, <2>3, Zenon DEF SidesKnow
<1>8. Agree(c)'
  <2>1. CASE v = "up"
    BY <2>1, Zenon
  <2>2. CASE v # "up"
    BY <1>1, <1>2, <2>2, Zenon DEF Agree
  <2> QED
    BY <2>1, <2>2, Zenon
<1>9. \A g \in frames' \ frames : g.type # "connect" /\ g.type # "hello"
    BY Zenon
<1> QED
    BY <1>3, <1>4, <1>6, <1>7, <1>8, <1>9, OneConnection, Zenon

\* The dialer's CONNECT keeps the invariant.
LEMMA DialKeeps ==
    ASSUME NEW c \in Conn, HandshakeInv, Dial(c)
    PROVE  HandshakeInv'
<1>1. dialed(c) \notin Stages
    BY DialedIs, Zenon
<1>2. client[c] = "dialing" /\ UNCHANGED <<reaches, seen, said, station, admitted>>
    BY Zenon DEF Dial
<1> DEFINE opener == [type |-> "opener", bad |-> Spoilt(c, "opener"), profile |-> ClientProfile(c)]
<1>3. opener.type = "opener"
    BY Zenon
<1>4. \/ client' = [client EXCEPT ![c] = dialed(c)] /\ frames' = frames
      \/ client' = [client EXCEPT ![c] = "opened"] /\ frames' = frames \union {opener}
    BY Zenon DEF Dial
<1> HIDE DEF opener
<1>5. frames \subseteq frames' /\ \A g \in frames' \ frames : g.type = "opener"
    BY <1>3, <1>4, Zenon
<1>6. \E v : client' = [client EXCEPT ![c] = v] /\ v \notin Stages \ {"opened"}
    BY <1>1, <1>4, Zenon
<1>7. PICK v : client' = [client EXCEPT ![c] = v] /\ v \notin Stages \ {"opened"}
    BY <1>6, Zenon
<1>8. v # "up"
    BY <1>7, Zenon DEF Stages
<1>9. client[c] \in {"dialing", "opened", "answered"}
    BY <1>2, Zenon
<1> QED
    BY <1>2, <1>5, <1>7, <1>8, <1>9, ClientMoves, Zenon

\* A timeout of either side keeps the invariant.
LEMMA TimesOutKeeps ==
    ASSUME NEW c \in Conn, HandshakeInv, TimesOut(c)
    PROVE  HandshakeInv'
<1> DEFINE v == "timeout"
<1>1. v \notin Stages /\ v # "up"
    BY Zenon DEF Stages
<1>2. client[c] \in {"dialing", "opened", "answered"} /\ client[c] # "dialing"
    BY Zenon DEF TimesOut
<1>3. client' = [client EXCEPT ![c] = v] /\ UNCHANGED <<reaches, seen, said, station, admitted, frames>>
    BY Zenon DEF TimesOut
<1> HIDE DEF v
<1> QED
    BY <1>1, <1>2, <1>3, ClientMoves, Zenon

\* A client's link comes up only on the HELLO of its own connection.
LEMMA ReadHelloKeeps ==
    ASSUME NEW c \in Conn, NEW f \in frames, HandshakeInv, ReadHello(c, f)
    PROVE  HandshakeInv'
<1> DEFINE read == decode(f, "hello")
           proof == [by |-> seen[c].key, over |-> sessionProofMessage(c, seen[c], said[c], seen[c].key, helloTBS(f))]
           checks == <<
            <<~f.accepted, "refused">>,
            <<f.proof = None, "session_proof_missing">>,
            <<f.proof # proof, "session_proof_invalid">>,
            <<Has(c, "binding_dropped"), "unknown_binding">> >>
           error == IF read # "none" THEN read ELSE FirstFault(checks)
           v == IF error = "none" THEN "up" ELSE error
<1>1. /\ client[c] = "answered" /\ client' = [client EXCEPT ![c] = v]
      /\ UNCHANGED <<reaches, seen, said, station, admitted, frames>>
    BY Zenon DEF ReadHello
<1>2. read \notin Stages /\ (read = "none" => f.type = "hello")
    BY DecodeIs, Zenon
<1>3. proof.over = sessionProofMessage(c, seen[c], said[c], seen[c].key, helloTBS(f))
    BY Zenon
<1>4. sessionProofMessage(c, seen[c], said[c], seen[c].key, helloTBS(f)).e = Exported(c, ClientNode, seen[c].key)
    BY Zenon DEF sessionProofMessage
<1>5. sessionProofMessage(c, seen[c], said[c], seen[c].key, helloTBS(f)).connect = said[c]
    BY Zenon DEF sessionProofMessage
<1> HIDE DEF read, proof
<1>6. DOMAIN checks \subseteq Nat /\ 2 \in DOMAIN checks /\ 3 \in DOMAIN checks
    OBVIOUS
<1>7. \A i \in DOMAIN checks : checks[i][2] \notin Stages /\ checks[i][2] # "none"
    BY DEF Stages
<1>8. checks[2][1] = (f.proof = None) /\ checks[3][1] = (f.proof # proof)
    BY Zenon
<1> HIDE DEF checks
<1>9. FirstFault(checks) \notin Stages
    BY <1>6, <1>7, NoStage, Zenon
<1>10. error \notin Stages
    BY <1>2, <1>9, Zenon
<1>11. v \notin Stages \ {"up"}
    BY <1>10, Zenon
<1>12. HandshakeType /\ SidesKnow(c) /\ Agree(c) /\ FramesFrom
    BY AgreeIs, Zenon DEF HandshakeInv
<1>13. seen[c].key = StationA
    BY <1>1, <1>12, Zenon DEF SidesKnow
<1>14. ASSUME v = "up" PROVE Agree(c)'
  <2>1. "up" \in Stages
    BY Zenon DEF Stages
  <2>2. read = "none" /\ FirstFault(checks) = "none"
    BY <1>10, <1>14, <2>1, Zenon
  <2>3. f.proof = proof /\ f.proof # None
    BY <2>2, <1>6, <1>7, <1>8, Passes, Zenon
  <2>4. PICK d \in Conn : IsHelloOf(f, d)
    BY <1>2, <1>12, <2>2, <2>3, Zenon DEF FramesFrom
  <2>5. Exported(d, ClientNode, reaches[d]) = Exported(c, ClientNode, seen[c].key) /\ admitted[d] = said[c]
        /\ station[d] = "accepted"
    BY <1>3, <1>4, <1>5, <2>3, <2>4, Zenon DEF IsHelloOf
  <2>6. d = c /\ reaches[d] = seen[c].key
    BY <2>5, Zenon DEF Exported
  <2>7. reaches[c] = StationA /\ station[c] = "accepted" /\ admitted[c] = said[c]
    BY <1>13, <2>5, <2>6, Zenon
  <2> QED
    BY <1>1, <1>12, <2>7, Zenon DEF Agree
<1> HIDE DEF v
<1>15. client[c] \in {"dialing", "opened", "answered"} /\ client[c] # "dialing"
    BY <1>1, Zenon
<1> QED
    BY <1>1, <1>11, <1>13, <1>14, <1>15, ClientMoves, Zenon

\* A client answers one CHALLENGE, with the CONNECT of its connection.
LEMMA AnswerKeeps ==
    ASSUME NEW c \in Conn, NEW f \in frames, HandshakeInv, AnswerChallenge(c, f)
    PROVE  HandshakeInv'
<1> DEFINE error == IF Has(c, "no_material") THEN "no_connect_material" ELSE ReadChallenge(c, f)
           tbs == [profile |-> ClientProfile(c), fault |-> FaultOf(c, "client")]
           message == proofMessage(c, f, f.key, tbs)
           connect == [type |-> "connect", bad |-> Spoilt(c, "connect"), tbs |-> tbs, key |-> ClientNode,
                       proof |-> [by |-> "connect", over |-> message]]
<1>1. client[c] = "opened" /\ UNCHANGED <<reaches, station, admitted>>
    BY Zenon DEF AnswerChallenge
<1>2. \/ error # "none" /\ client' = [client EXCEPT ![c] = error] /\ UNCHANGED <<seen, said, frames>>
      \/ /\ error = "none" /\ client' = [client EXCEPT ![c] = "answered"]
         /\ seen' = [seen EXCEPT ![c] = f] /\ said' = [said EXCEPT ![c] = connect]
         /\ frames' = frames \union {connect}
    BY Zenon DEF AnswerChallenge
<1>3. "no_connect_material" \notin Stages \union {"none"}
    BY Zenon DEF Stages
<1>4. error \notin Stages /\ (error = "none" => f.key = StationA)
    BY <1>3, ChallengeIs, Zenon
<1>5. connect.type = "connect" /\ connect.tbs = tbs /\ connect.proof.over = message
    BY Zenon
<1> HIDE DEF connect, error
<1>6. connect.proof.over = proofMessage(c, f, f.key, connect.tbs)
    BY <1>5, Zenon
<1> HIDE DEF message, tbs
<1>7. client[c] \in {"dialing", "opened", "answered"} /\ client[c] # "dialing"
    BY <1>1, Zenon
<1>8. CASE error # "none" /\ client' = [client EXCEPT ![c] = error] /\ UNCHANGED <<seen, said, frames>>
  <2>1. error # "up"
    BY <1>4, Zenon DEF Stages
  <2> QED
    BY <1>1, <1>4, <1>7, <1>8, <2>1, ClientMoves, Zenon
<1>9. CASE /\ error = "none" /\ client' = [client EXCEPT ![c] = "answered"]
           /\ seen' = [seen EXCEPT ![c] = f] /\ said' = [said EXCEPT ![c] = connect]
           /\ frames' = frames \union {connect}
  <2>1. HandshakeType /\ SidesKnow(c) /\ Agree(c)
    BY AgreeIs, Zenon DEF HandshakeInv
  <2>2. DOMAIN client' = Conn /\ client'[c] = "answered" /\ \A d \in Conn \ {c} : client'[d] = client[d]
    BY <1>9, <2>1, AssignedIs, Zenon DEF HandshakeType
  <2>3. DOMAIN seen' = Conn /\ seen'[c] = f /\ \A d \in Conn \ {c} : seen'[d] = seen[d]
    BY <1>9, <2>1, AssignedIs, Zenon DEF HandshakeType
  <2>4. DOMAIN said' = Conn /\ said'[c] = connect /\ \A d \in Conn \ {c} : said'[d] = said[d]
    BY <1>9, <2>1, AssignedIs, Zenon DEF HandshakeType
  <2>5. HandshakeType'
    BY <1>1, <2>1, <2>2, <2>3, <2>4, Zenon DEF HandshakeType
  <2>6. \A d \in Conn \ {c} : Untouched(d)
    BY <1>1, <2>2, <2>3, <2>4, Zenon DEF Untouched
  <2>7. ~Answered(c) /\ station[c] # "accepted" /\ Answered(c)'
    BY <1>1, <2>1, <2>2, Zenon DEF SidesKnow, Answered
  <2>8. Settled(c)
    BY <2>7, Zenon DEF Settled
  <2>9. SidesKnow(c)'
    BY <1>1, <1>4, <1>9, <2>1, <2>3, <2>7, Zenon DEF SidesKnow
  <2>10. client'[c] # "up"
    BY <2>2, Zenon
  <2>11. Agree(c)'
    BY <1>1, <2>7, <2>10, Zenon DEF Agree
  <2>13. \A g \in frames' \ frames : g = connect
    BY <1>9, Zenon
  <2>14. "connect" # "hello"
    BY Zenon
  <2>15. frames \subseteq frames'
    BY <1>9, Zenon
  <2>16. ASSUME NEW g \in frames' \ frames
         PROVE  /\ g.type = "connect" => IsConnectOf(g, c)'
                /\ (g.type = "hello" /\ g.proof # None) => IsHelloOf(g, c)'
    <3>1. said'[c] = g /\ g.type = "connect" /\ g.proof.over = proofMessage(c, f, f.key, g.tbs)
      BY <1>5, <1>6, <2>4, <2>13, Zenon
    <3>2. IsConnectOf(g, c)'
      BY <2>3, <2>7, <3>1, Zenon DEF IsConnectOf
    <3> QED
      BY <2>14, <3>1, <3>2, Zenon
  <2> QED
    BY <1>1, <2>5, <2>6, <2>8, <2>9, <2>11, <2>15, <2>16, OneConnection, Zenon
<1> QED
    BY <1>2, <1>8, <1>9, Zenon

\* A step of the station alone, to v, that sends frames of no proof.
LEMMA StationMoves ==
    ASSUME NEW c \in Conn, NEW v, HandshakeInv,
           station' = [station EXCEPT ![c] = v], station[c] \in {"waiting", "challenged"},
                 v \notin Stages \ {"challenged"},
           v = "challenged" => \E g \in frames' : g.type = "challenge" /\ g.nonce = c,
           frames \subseteq frames',
           \A g \in frames' \ frames : g.type = "challenge" \/ (g.type = "hello" /\ g.proof = None),
           UNCHANGED <<reaches, client, seen, said, admitted>>
    PROVE  HandshakeInv'
<1>1. HandshakeType /\ SidesKnow(c) /\ Agree(c)
    BY AgreeIs, Zenon DEF HandshakeInv
<1>2. DOMAIN station' = Conn /\ station'[c] = v /\ \A d \in Conn \ {c} : station'[d] = station[d]
    BY <1>1, AssignedIs, Zenon DEF HandshakeType
<1>3. HandshakeType'
    BY <1>1, <1>2, Zenon DEF HandshakeType
<1>4. \A d \in Conn \ {c} : Untouched(d)
    BY <1>2, Zenon DEF Untouched
<1>5. station[c] # "accepted" /\ station'[c] # "accepted"
    BY <1>2, Zenon DEF Stages
<1>6. Settled(c)
    BY <1>5, Zenon DEF Settled, Answered
<1>7. SidesKnow(c)'
    BY <1>1, <1>2, <1>5, Zenon DEF SidesKnow
<1>8. Agree(c)'
    BY <1>1, <1>5, Zenon DEF Agree
<1>9. \A g \in frames' \ frames : g.type # "connect" /\ ~(g.type = "hello" /\ g.proof # None)
    BY Zenon
<1> QED
    BY <1>3, <1>4, <1>6, <1>7, <1>8, <1>9, OneConnection, Zenon

\* The station's reading of a CONNECT keeps the invariant.
LEMMA OpenerKeeps ==
    ASSUME NEW c \in Conn, NEW f \in frames, HandshakeInv, ReadOpener(c, f)
    PROVE  HandshakeInv'
<1> DEFINE read == decode(f, "opener")
           error == IF read # "none" THEN read ELSE negotiate(f.profile, StationProfile)
           s == reaches[c]
           challenge == [type |-> "challenge", bad |-> Spoilt(c, "challenge"), nonce |-> c,
                 profile |-> StationProfile,
                         key |-> s, binds |-> Leaf(s), fault |-> FaultOf(c, "station")]
           hello == RefusingHello(earlyRefusal(error), TRUE)
<1>1. station[c] = "waiting" /\ UNCHANGED <<reaches, client, seen, said, admitted>>
    BY Zenon DEF ReadOpener
<1>2. \/ /\ error = "none" /\ station' = [station EXCEPT ![c] = "challenged"]
         /\ frames' = frames \union {challenge}
      \/ /\ error # "none" /\ station' = [station EXCEPT ![c] = error]
         /\ frames' = frames \union {hello} \/ frames' = frames
    BY Zenon DEF ReadOpener
<1>3. challenge.type = "challenge" /\ challenge.nonce = c
    BY Zenon
<1>4. hello.type = "hello" /\ hello.proof = None
    BY Zenon DEF RefusingHello
<1>5. "profile_unsupported" \notin Stages /\ "none" \notin Stages
    BY Zenon DEF Stages
<1>6. negotiate(f.profile, StationProfile) \notin Stages
    BY <1>5, Zenon DEF negotiate
<1>7. error \notin Stages
    BY <1>6, DecodeIs, Zenon
<1> HIDE DEF challenge, hello, error
<1>8. station[c] \in {"waiting", "challenged"}
    BY <1>1, Zenon
<1>9. CASE /\ error = "none" /\ station' = [station EXCEPT ![c] = "challenged"]
           /\ frames' = frames \union {challenge}
  <2> DEFINE v == "challenged"
  <2>1. station' = [station EXCEPT ![c] = v] /\ v \notin Stages \ {"challenged"}
    BY <1>9, Zenon
  <2> HIDE DEF v
  <2>2. \E g \in frames' : g.type = "challenge" /\ g.nonce = c
    BY <1>3, <1>9, Zenon
  <2>3. frames \subseteq frames' /\ \A g \in frames' \ frames : g.type = "challenge"
    BY <1>3, <1>9, Zenon
  <2> QED
    BY <1>1, <1>8, <2>1, <2>2, <2>3, StationMoves, Zenon
<1>10. CASE /\ error # "none" /\ station' = [station EXCEPT ![c] = error]
            /\ frames' = frames \union {hello} \/ frames' = frames
  <2>1. error # "challenged"
    BY <1>7, Zenon DEF Stages
  <2>2. frames \subseteq frames' /\ \A g \in frames' \ frames : g.type = "hello" /\ g.proof = None
    BY <1>4, <1>10, Zenon
  <2> QED
    BY <1>1, <1>7, <1>8, <1>10, <2>1, <2>2, StationMoves, Zenon
<1> QED
    BY <1>2, <1>9, <1>10, Zenon

\* A station accepts on a connection only the CONNECT of that connection.
LEMMA AcceptKeeps ==
    ASSUME NEW c \in Conn, NEW f \in frames, HandshakeInv, AcceptConnect(c, f)
    PROVE  HandshakeInv'
<1> DEFINE error == checkConnect(c, f)
           tbs == [accepted |-> TRUE, capabilities |-> "station"]
           message == sessionProofMessage(c, SentOn(c), f, reaches[c], tbs)
           proof == [by |-> reaches[c], over |-> message]
           shown == IF Has(c, "proofless") THEN None ELSE proof
           hello == [type |-> "hello", bad |-> Spoilt(c, "hello"), accepted |-> TRUE, code |-> "none",
                     early |-> FALSE,
                     capabilities |-> IF Has(c, "capabilities") THEN "others" ELSE "station",
                     proof |-> shown]
           refusal == RefusingHello(wireRefusal(error), FALSE)
<1>1. station[c] = "challenged" /\ UNCHANGED <<reaches, client, seen, said>>
    BY Zenon DEF AcceptConnect
<1>2. \/ /\ error = "none" /\ station' = [station EXCEPT ![c] = "accepted"]
         /\ admitted' = [admitted EXCEPT ![c] = f] /\ frames' = frames \union {hello}
      \/ /\ error # "none" /\ station' = [station EXCEPT ![c] = error]
         /\ frames' = frames \union {refusal} /\ UNCHANGED admitted
    BY Zenon DEF AcceptConnect, SentOn
<1>3. hello.type = "hello" /\ hello.proof = shown
    BY Zenon
<1>4. refusal.type = "hello" /\ refusal.proof = None
    BY Zenon DEF RefusingHello
<1>5. proof.over = message
    BY Zenon
<1>6. message.e = Exported(c, ClientNode, reaches[c]) /\ message.connect = f
    BY Zenon DEF sessionProofMessage
<1>7. /\ error \notin Stages
      /\ error = "none" => f.type = "connect" /\ f.proof.over = proofMessage(c, SentOn(c), reaches[c], f.tbs)
    BY ConnectIs, Zenon
<1> HIDE DEF error, hello, refusal, proof, message
<1>8. station[c] \in {"waiting", "challenged"}
    BY <1>1, Zenon
<1>9. CASE /\ error # "none" /\ station' = [station EXCEPT ![c] = error]
           /\ frames' = frames \union {refusal} /\ UNCHANGED admitted
  <2>1. error # "challenged"
    BY <1>7, Zenon DEF Stages
  <2>2. frames \subseteq frames' /\ \A g \in frames' \ frames : g.type = "hello" /\ g.proof = None
    BY <1>4, <1>9, Zenon
  <2> QED
    BY <1>1, <1>7, <1>8, <1>9, <2>1, <2>2, StationMoves, Zenon
<1>10. CASE /\ error = "none" /\ station' = [station EXCEPT ![c] = "accepted"]
            /\ admitted' = [admitted EXCEPT ![c] = f] /\ frames' = frames \union {hello}
  <2>1. HandshakeType /\ SidesKnow(c) /\ Agree(c) /\ FramesFrom
    BY AgreeIs, Zenon DEF HandshakeInv
  <2>2. PICK d \in Conn : IsConnectOf(f, d)
    BY <1>7, <1>10, <2>1, Zenon DEF FramesFrom
  <2>3. proofMessage(d, seen[d], seen[d].key, f.tbs) = proofMessage(c, SentOn(c), reaches[c], f.tbs)
        /\ said[d] = f /\ Answered(d)
    BY <1>7, <1>10, <2>2, Zenon DEF IsConnectOf
  <2>4. d = c /\ seen[d] = SentOn(c)
    BY <2>3, Zenon DEF proofMessage, Exported
  <2>5. SentOn(c).nonce = c
    BY <1>1, <2>1, Zenon DEF SidesKnow, SentOn
  <2>6. said[c] = f /\ seen[c].nonce = c /\ Answered(c)
    BY <2>3, <2>4, <2>5, Zenon
  <2>7. DOMAIN station' = Conn /\ station'[c] = "accepted" /\ \A e \in Conn \ {c} : station'[e] = station[e]
    BY <1>10, <2>1, AssignedIs, Zenon DEF HandshakeType
  <2>8. DOMAIN admitted' = Conn /\ admitted'[c] = f /\ \A e \in Conn \ {c} : admitted'[e] = admitted[e]
    BY <1>10, <2>1, AssignedIs, Zenon DEF HandshakeType
  <2>9. HandshakeType'
    BY <1>1, <2>1, <2>7, <2>8, Zenon DEF HandshakeType
  <2>10. \A e \in Conn \ {c} : Untouched(e)
    BY <1>1, <2>7, <2>8, Zenon DEF Untouched
  <2>11. station[c] # "accepted" /\ station'[c] # "challenged"
    BY <1>1, <2>7, Zenon
  <2>12. Settled(c)
    BY <1>1, <2>11, Zenon DEF Settled, Answered
  <2>13. SidesKnow(c)'
    BY <1>1, <2>1, <2>6, <2>11, Zenon DEF SidesKnow, Answered
  <2>14. Agree(c)'
    BY <1>1, <2>1, <2>6, <2>7, <2>8, <2>11, Zenon DEF Agree
  <2>15. frames \subseteq frames' /\ \A g \in frames' \ frames : g = hello
    BY <1>10, Zenon
  <2>16. "connect" # "hello"
    BY Zenon
  <2>17. ASSUME NEW g \in frames' \ frames
         PROVE  /\ g.type = "connect" => IsConnectOf(g, c)'
                /\ (g.type = "hello" /\ g.proof # None) => IsHelloOf(g, c)'
    <3>1. g.type = "hello" /\ (g.proof # None => g.proof = proof)
      BY <1>3, <2>15, Zenon
    <3>2. ASSUME g.proof # None PROVE IsHelloOf(g, c)'
      <4>1. g.proof.over.e = Exported(c, ClientNode, reaches[c]) /\ g.proof.over.connect = f
        BY <1>5, <1>6, <3>1, <3>2, Zenon
      <4> QED
        BY <1>1, <2>7, <2>8, <4>1, Zenon DEF IsHelloOf
    <3> QED
      BY <2>16, <3>1, <3>2, Zenon
  <2> QED
    BY <1>1, <2>9, <2>10, <2>12, <2>13, <2>14, <2>15, <2>17, OneConnection, Zenon
<1> QED
    BY <1>2, <1>9, <1>10, Zenon

\* Every step keeps the invariant.
LEMMA HandshakeStep == HandshakeInv /\ [HNext]_hvars => HandshakeInv'
<1> SUFFICES ASSUME HandshakeInv, [HNext]_hvars PROVE HandshakeInv'
    BY Zenon
<1>1. CASE UNCHANGED hvars
    BY <1>1, HandshakeQuiet, Zenon
<1>2. CASE HNext
  <2>1. PICK c \in Conn :
           \/ Dial(c) \/ TimesOut(c)
           \/ \E f \in frames : ReadOpener(c, f) \/ AnswerChallenge(c, f) \/ AcceptConnect(c, f) \/ ReadHello(c, f)
    BY <1>2, Zenon DEF HNext
  <2>2. CASE Dial(c) \/ TimesOut(c)
    BY <2>2, DialKeeps, TimesOutKeeps, Zenon
  <2>3. CASE \E f \in frames : ReadOpener(c, f) \/ AnswerChallenge(c, f) \/ AcceptConnect(c, f) \/ ReadHello(c, f)
    BY <2>3, OpenerKeeps, AnswerKeeps, AcceptKeeps, ReadHelloKeeps, Zenon
  <2> QED
    BY <2>1, <2>2, <2>3, Zenon
<1> QED
    BY <1>1, <1>2, Zenon

\* A link that is up and its station agree on the session, for any number of
\* connections and any faults: no frame of another connection, and no spoilt
\* one, brings a link up or has a CONNECT accepted (handshake.go, ReadHello,
\* AcceptConnect).
THEOREM SessionsAgree == HSpec => []Agreement
<1>1. HInit => HandshakeInv
    BY HandshakeInit, Zenon
<1>2. HandshakeInv /\ [HNext]_hvars => HandshakeInv'
    BY HandshakeStep, Zenon
<1>3. HandshakeInv => Agreement
    BY Zenon DEF HandshakeInv
<1> QED
    BY <1>1, <1>2, <1>3, PTL DEF HSpec
-----------------------------------------------------------------------------
\* A check that answers with an error when it fails; and a chain of such checks,
\* which passes exactly when none of them fails.
Answers(p) == p[1] => p[2] # "none"

\* A chain of such checks passes exactly when none of them fails.
LEMMA PassesIs ==
    ASSUME NEW checks, DOMAIN checks \subseteq Nat, \A i \in DOMAIN checks : Answers(checks[i])
    PROVE  FirstFault(checks) = "none" <=> \A i \in DOMAIN checks : ~checks[i][1]
    BY FaultIs, Zenon DEF Answers

\* Chains of two, three, five, seven and nine checks.
LEMMA FirstOfTwo ==
    ASSUME NEW p1, NEW p2, Answers(p1), Answers(p2)
    PROVE  FirstFault(<<p1, p2>>) = "none" <=> ~p1[1] /\ ~p2[1]
<1>1. DOMAIN <<p1, p2>> = {1, 2} /\ {1, 2} \subseteq Nat
    OBVIOUS
<1>2. <<p1, p2>>[1] = p1 /\ <<p1, p2>>[2] = p2
    BY Zenon
<1> DEFINE checks == <<p1, p2>>
<1>3. (\A i \in DOMAIN checks : ~checks[i][1]) <=> ~p1[1] /\ ~p2[1]
    BY <1>1, <1>2, Zenon
<1>4. \A i \in DOMAIN checks : Answers(checks[i])
    BY <1>1, <1>2, Zenon
<1>5. DOMAIN checks \subseteq Nat
    BY <1>1, Zenon
<1> HIDE DEF checks
<1>6. FirstFault(checks) = "none" <=> \A i \in DOMAIN checks : ~checks[i][1]
    BY <1>4, <1>5, PassesIs, Zenon
<1> QED
    BY <1>3, <1>6, Zenon DEF checks

\* Three checks.
LEMMA FirstOfThree ==
    ASSUME NEW p1, NEW p2, NEW p3, Answers(p1), Answers(p2), Answers(p3)
    PROVE  FirstFault(<<p1, p2, p3>>) = "none" <=> ~p1[1] /\ ~p2[1] /\ ~p3[1]
<1>1. DOMAIN <<p1, p2, p3>> = {1, 2, 3} /\ {1, 2, 3} \subseteq Nat
    OBVIOUS
<1>2. <<p1, p2, p3>>[1] = p1 /\ <<p1, p2, p3>>[2] = p2 /\ <<p1, p2, p3>>[3] = p3
    BY Zenon
<1> DEFINE checks == <<p1, p2, p3>>
<1>3. (\A i \in DOMAIN checks : ~checks[i][1]) <=> ~p1[1] /\ ~p2[1] /\ ~p3[1]
  <2>1. DOMAIN checks = {1, 2, 3} /\ checks[1] = p1 /\ checks[2] = p2 /\ checks[3] = p3
    BY <1>1, <1>2, Zenon
  <2> HIDE DEF checks
  <2> QED
    BY <2>1, Zenon
<1>4. \A i \in DOMAIN checks : Answers(checks[i])
    BY <1>1, <1>2, Zenon
<1>5. DOMAIN checks \subseteq Nat
    BY <1>1, Zenon
<1> HIDE DEF checks
<1>6. FirstFault(checks) = "none" <=> \A i \in DOMAIN checks : ~checks[i][1]
    BY <1>4, <1>5, PassesIs, Zenon
<1> QED
    BY <1>3, <1>6, Zenon DEF checks

\* Five checks.
LEMMA FirstOfFive ==
    ASSUME NEW p1, NEW p2, NEW p3, NEW p4, NEW p5, Answers(p1), Answers(p2), Answers(p3), Answers(p4), Answers(p5)
    PROVE  FirstFault(<<p1, p2, p3, p4, p5>>) = "none" <=> ~p1[1] /\ ~p2[1] /\ ~p3[1] /\ ~p4[1] /\ ~p5[1]
<1>1. DOMAIN <<p1, p2, p3, p4, p5>> = {1, 2, 3, 4, 5} /\ {1, 2, 3, 4, 5} \subseteq Nat
    OBVIOUS
<1>2. <<p1, p2, p3, p4, p5>>[1] = p1 /\ <<p1, p2, p3, p4, p5>>[2] = p2 /\ <<p1, p2, p3, p4, p5>>[3] = p3 /\ <<p1, p2, p3,
      p4, p5>>[4] = p4 /\ <<p1, p2, p3, p4, p5>>[5] = p5
    BY Zenon
<1> DEFINE checks == <<p1, p2, p3, p4, p5>>
<1>3. (\A i \in DOMAIN checks : ~checks[i][1]) <=> ~p1[1] /\ ~p2[1] /\ ~p3[1] /\ ~p4[1] /\ ~p5[1]
  <2>1. DOMAIN checks = {1, 2, 3, 4, 5} /\ checks[1] = p1 /\ checks[2] = p2 /\ checks[3] = p3 /\ checks[4] = p4 /\ checks[5] = p5
    BY <1>1, <1>2, Zenon
  <2> HIDE DEF checks
  <2> QED
    BY <2>1, Zenon
<1>4. \A i \in DOMAIN checks : Answers(checks[i])
    BY <1>1, <1>2, Zenon
<1>5. DOMAIN checks \subseteq Nat
    BY <1>1, Zenon
<1> HIDE DEF checks
<1>6. FirstFault(checks) = "none" <=> \A i \in DOMAIN checks : ~checks[i][1]
    BY <1>4, <1>5, PassesIs, Zenon
<1> QED
    BY <1>3, <1>6, Zenon DEF checks

\* Seven checks.
LEMMA FirstOfSeven ==
    ASSUME NEW p1, NEW p2, NEW p3, NEW p4, NEW p5, NEW p6, NEW p7, Answers(p1), Answers(p2), Answers(p3), Answers(p4),
          Answers(p5), Answers(p6), Answers(p7)
    PROVE  FirstFault(<<p1, p2, p3, p4, p5, p6, p7>>) = "none" <=> ~p1[1] /\ ~p2[1] /\ ~p3[1] /\ ~p4[1] /\ ~p5[1] /\
          ~p6[1] /\ ~p7[1]
<1>1. DOMAIN <<p1, p2, p3, p4, p5, p6, p7>> = {1, 2, 3, 4, 5, 6, 7} /\ {1, 2, 3, 4, 5, 6, 7} \subseteq Nat
    OBVIOUS
<1>2. <<p1, p2, p3, p4, p5, p6, p7>>[1] = p1 /\ <<p1, p2, p3, p4, p5, p6, p7>>[2] = p2 /\ <<p1, p2, p3, p4, p5, p6,
      p7>>[3] = p3 /\ <<p1, p2, p3, p4, p5, p6, p7>>[4] = p4 /\ <<p1, p2, p3, p4, p5, p6, p7>>[5] = p5 /\ <<p1, p2, p3,
      p4, p5, p6, p7>>[6] = p6 /\ <<p1, p2, p3, p4, p5, p6, p7>>[7] = p7
    BY Zenon
<1> DEFINE checks == <<p1, p2, p3, p4, p5, p6, p7>>
<1>3. (\A i \in DOMAIN checks : ~checks[i][1]) <=> ~p1[1] /\ ~p2[1] /\ ~p3[1] /\ ~p4[1] /\ ~p5[1] /\ ~p6[1] /\ ~p7[1]
  <2>1. DOMAIN checks = {1, 2, 3, 4, 5, 6, 7} /\ checks[1] = p1 /\ checks[2] = p2 /\ checks[3] = p3 /\ checks[4] = p4 /\
        checks[5] = p5 /\ checks[6] = p6 /\ checks[7] = p7
    BY <1>1, <1>2, Zenon
  <2> HIDE DEF checks
  <2> QED
    BY <2>1, Zenon
<1>4. \A i \in DOMAIN checks : Answers(checks[i])
    BY <1>1, <1>2, Zenon
<1>5. DOMAIN checks \subseteq Nat
    BY <1>1, Zenon
<1> HIDE DEF checks
<1>6. FirstFault(checks) = "none" <=> \A i \in DOMAIN checks : ~checks[i][1]
    BY <1>4, <1>5, PassesIs, Zenon
<1> QED
    BY <1>3, <1>6, Zenon DEF checks

\* Nine checks.
LEMMA FirstOfNine ==
    ASSUME NEW p1, NEW p2, NEW p3, NEW p4, NEW p5, NEW p6, NEW p7, NEW p8, NEW p9, Answers(p1), Answers(p2), Answers(p3),
          Answers(p4), Answers(p5), Answers(p6), Answers(p7), Answers(p8), Answers(p9)
    PROVE  FirstFault(<<p1, p2, p3, p4, p5, p6, p7, p8, p9>>) = "none" <=> ~p1[1] /\ ~p2[1] /\ ~p3[1] /\ ~p4[1] /\
          ~p5[1] /\ ~p6[1] /\ ~p7[1] /\ ~p8[1] /\ ~p9[1]
<1>1. DOMAIN <<p1, p2, p3, p4, p5, p6, p7, p8, p9>> = {1, 2, 3, 4, 5, 6, 7, 8, 9} /\ {1, 2, 3, 4, 5, 6, 7, 8,
      9} \subseteq Nat
    OBVIOUS
<1>2. <<p1, p2, p3, p4, p5, p6, p7, p8, p9>>[1] = p1 /\ <<p1, p2, p3, p4, p5, p6, p7, p8, p9>>[2] = p2 /\ <<p1, p2, p3,
      p4, p5, p6, p7, p8, p9>>[3] = p3 /\ <<p1, p2, p3, p4, p5, p6, p7, p8, p9>>[4] = p4 /\ <<p1, p2, p3, p4, p5, p6, p7,
      p8, p9>>[5] = p5 /\ <<p1, p2, p3, p4, p5, p6, p7, p8, p9>>[6] = p6 /\ <<p1, p2, p3, p4, p5, p6, p7, p8,
      p9>>[7] = p7 /\ <<p1, p2, p3, p4, p5, p6, p7, p8, p9>>[8] = p8 /\ <<p1, p2, p3, p4, p5, p6, p7, p8, p9>>[9] = p9
    BY Zenon
<1> DEFINE checks == <<p1, p2, p3, p4, p5, p6, p7, p8, p9>>
<1>3. (\A i \in DOMAIN checks : ~checks[i][1]) <=> ~p1[1] /\ ~p2[1] /\ ~p3[1] /\ ~p4[1] /\ ~p5[1] /\ ~p6[1] /\ ~p7[1] /\
      ~p8[1] /\ ~p9[1]
  <2>1. DOMAIN checks = {1, 2, 3, 4, 5, 6, 7, 8, 9} /\ checks[1] = p1 /\ checks[2] = p2 /\ checks[3] = p3 /\
        checks[4] = p4 /\ checks[5] = p5 /\ checks[6] = p6 /\ checks[7] = p7 /\ checks[8] = p8 /\ checks[9] = p9
    BY <1>1, <1>2, Zenon
  <2> HIDE DEF checks
  <2> QED
    BY <2>1, Zenon
<1>4. \A i \in DOMAIN checks : Answers(checks[i])
    BY <1>1, <1>2, Zenon
<1>5. DOMAIN checks \subseteq Nat
    BY <1>1, Zenon
<1> HIDE DEF checks
<1>6. FirstFault(checks) = "none" <=> \A i \in DOMAIN checks : ~checks[i][1]
    BY <1>4, <1>5, PassesIs, Zenon
<1> QED
    BY <1>3, <1>6, Zenon DEF checks

\* The records there can be, with the authorizations they may carry.
RecordOf(By) ==
    [type : RecordType \union {"tombstone"}, of : RecordType, created : Int, expires : Int,
     payload : {PayloadOf(type) : type \in RecordType} \union {slotFieldNames(type) : type \in RecordType},
     fault : BuildFault \union GrantFault \union {"none"}, namespace : {"none", "own", "org"}, by : By]
Plain == RecordOf({<<>>})
Carrying == {<<>>} \union (Plain \X Plain)

\* What Sign has let pass.
SignedInv(r) ==
    /\ r \in RecordOf(Carrying)
    /\ r.type # "advertisement" => r.by = <<>>
    /\ r.type # "tombstone" => r.of = r.type /\ r.payload = PayloadOf(r.type)
    /\ Sign(r) = "none"

RecordsInv == rclock \in Int /\ \A r \in signed : SignedInv(r)

\* What each of the checks passes.
LEMMA LifetimeIs ==
    ASSUME NEW r
    PROVE  lifetimeFault(r) = "none" <=>
             /\ ~(r.expires <= r.created)
             /\ r.fault # "class_unknown"
             /\ ~(r.expires - r.created > LifetimeMax[typeLifetimeClass(r.of)] + tombstoneMargin(r.type))
<1> DEFINE b1 == r.expires <= r.created
           b2 == r.fault = "class_unknown"
           b3 == r.expires - r.created > LifetimeMax[typeLifetimeClass(r.of)] + tombstoneMargin(r.type)
           p1 == <<b1, "lifetime_reversed">>
           p2 == <<b2, "lifetime_class_unknown">>
           p3 == <<b3, "lifetime_too_long">>
<1>1. lifetimeFault(r) = FirstFault(<<p1, p2, p3>>)
    BY Zenon DEF lifetimeFault
<1>2. (~b1 <=> ~(r.expires <= r.created)) /\ (~b2 <=> r.fault # "class_unknown") /\
      (~b3 <=> ~(r.expires - r.created > LifetimeMax[typeLifetimeClass(r.of)] + tombstoneMargin(r.type)))
    BY Zenon
<1> HIDE DEF b1, b2, b3
<1>3. Answers(p1) /\ Answers(p2) /\ Answers(p3)
    BY Zenon DEF Answers
<1>4. p1[1] = b1 /\ p2[1] = b2 /\ p3[1] = b3
    BY Zenon
<1> HIDE DEF p1, p2, p3
<1>5. FirstFault(<<p1, p2, p3>>) = "none" <=> ~p1[1] /\ ~p2[1] /\ ~p3[1]
    BY <1>3, FirstOfThree, Zenon
<1> QED
    BY <1>1, <1>2, <1>4, <1>5, Zenon

\* When readerKnows passes.
LEMMA ReaderIs ==
    ASSUME NEW r
    PROVE  readerKnows(r) = "none" <=>
             /\ r.fault \notin {"type_unknown", "type_unplaced"}
             /\ r.fault # "schema"
<1> DEFINE b1 == r.fault \in {"type_unknown", "type_unplaced"}
           b2 == r.fault = "schema"
           p1 == <<b1, "type_unknown">>
           p2 == <<b2, "schema_unsupported">>
<1>1. readerKnows(r) = FirstFault(<<p1, p2>>)
    BY Zenon DEF readerKnows
<1>2. (~b1 <=> r.fault \notin {"type_unknown", "type_unplaced"}) /\ (~b2 <=> r.fault # "schema")
    BY Zenon
<1> HIDE DEF b1, b2
<1>3. Answers(p1) /\ Answers(p2)
    BY Zenon DEF Answers
<1>4. p1[1] = b1 /\ p2[1] = b2
    BY Zenon
<1> HIDE DEF p1, p2
<1>5. FirstFault(<<p1, p2>>) = "none" <=> ~p1[1] /\ ~p2[1]
    BY <1>3, FirstOfTwo, Zenon
<1> QED
    BY <1>1, <1>2, <1>4, <1>5, Zenon

\* When payloadChecks passes.
LEMMA PayloadChecksIs ==
    ASSUME NEW r
    PROVE  payloadChecks(r) = "none" <=>
             /\ r.fault \notin {"subject", "payload"}
             /\ (IF r.type = "tombstone" THEN r.payload = slotFieldNames(r.of) ELSE r.payload = PayloadOf(r.type))
             /\ ~(r.fault = "mcid_tag" /\ r.type = "announcement")
<1> DEFINE b1 == r.fault \in {"subject", "payload"}
           b2 == IF r.type = "tombstone" THEN r.payload # slotFieldNames(r.of) ELSE r.payload # PayloadOf(r.type)
           b3 == r.fault = "mcid_tag" /\ r.type = "announcement"
           p1 == <<b1, "malformed">>
           p2 == <<b2, "malformed">>
           p3 == <<b3, "mcid_tag_unknown">>
<1>1. payloadChecks(r) = FirstFault(<<p1, p2, p3>>)
    BY Zenon DEF payloadChecks
<1>2. (~b1 <=> r.fault \notin {"subject", "payload"}) /\
      (~b2 <=> (IF r.type = "tombstone" THEN r.payload = slotFieldNames(r.of) ELSE r.payload = PayloadOf(r.type))) /\
      (~b3 <=> ~(r.fault = "mcid_tag" /\ r.type = "announcement"))
    BY Zenon
<1> HIDE DEF b1, b2, b3
<1>3. Answers(p1) /\ Answers(p2) /\ Answers(p3)
    BY Zenon DEF Answers
<1>4. p1[1] = b1 /\ p2[1] = b2 /\ p3[1] = b3
    BY Zenon
<1> HIDE DEF p1, p2, p3
<1>5. FirstFault(<<p1, p2, p3>>) = "none" <=> ~p1[1] /\ ~p2[1] /\ ~p3[1]
    BY <1>3, FirstOfThree, Zenon
<1> QED
    BY <1>1, <1>2, <1>4, <1>5, Zenon

\* When Sign signs.
LEMMA SignIs ==
    ASSUME NEW r
    PROVE  Sign(r) = "none" <=>
             /\ r.fault # "purpose"
             /\ lifetimeFault(r) = "none"
             /\ ~NamesAnother(r)
             /\ (r.fault # "tbs" /\ readerKnows(r) = "none" /\ payloadChecks(r) = "none")
             /\ r.fault # "size"
<1> DEFINE b1 == r.fault = "purpose"
           b2 == lifetimeFault(r) # "none"
           b3 == NamesAnother(r)
           b4 == r.fault = "tbs" \/ readerKnows(r) # "none" \/ payloadChecks(r) # "none"
           b5 == r.fault = "size"
           p1 == <<b1, "key_purpose_mismatch">>
           p2 == <<b2, lifetimeFault(r)>>
           p3 == <<b3, "key_id_mismatch">>
           p4 == <<b4, "malformed">>
           p5 == <<b5, "record_too_large">>
<1>1. Sign(r) = FirstFault(<<p1, p2, p3, p4, p5>>)
    BY Zenon DEF Sign
<1>2. (~b1 <=> r.fault # "purpose") /\ (~b2 <=> lifetimeFault(r) = "none") /\ (~b3 <=> ~NamesAnother(r)) /\
      (~b4 <=> (r.fault # "tbs" /\ readerKnows(r) = "none" /\ payloadChecks(r) = "none")) /\
      (~b5 <=> r.fault # "size")
    BY Zenon
<1>3. b2 => lifetimeFault(r) # "none"
    BY Zenon
<1> HIDE DEF b1, b2, b3, b4, b5
<1>4. Answers(p1) /\ Answers(p2) /\ Answers(p3) /\ Answers(p4) /\ Answers(p5)
    BY <1>3, Zenon DEF Answers
<1>5. p1[1] = b1 /\ p2[1] = b2 /\ p3[1] = b3 /\ p4[1] = b4 /\ p5[1] = b5
    BY Zenon
<1> HIDE DEF p1, p2, p3, p4, p5
<1>6. FirstFault(<<p1, p2, p3, p4, p5>>) = "none" <=> ~p1[1] /\ ~p2[1] /\ ~p3[1] /\ ~p4[1] /\ ~p5[1]
    BY <1>4, FirstOfFive, Zenon
<1> QED
    BY <1>1, <1>2, <1>5, <1>6, Zenon

\* When the clock allows a record.
LEMMA ClockIs ==
    ASSUME NEW r, NEW now
    PROVE  clockFault(r, now) = "none" <=>
             /\ ~(r.created > now + ClockTolerance)
             /\ ~(r.expires + ClockTolerance < now)
<1> DEFINE b1 == r.created > now + ClockTolerance
           b2 == r.expires + ClockTolerance < now
           p1 == <<b1, "not_yet_valid">>
           p2 == <<b2, "expired">>
<1>1. clockFault(r, now) = FirstFault(<<p1, p2>>)
    BY Zenon DEF clockFault
<1>2. (~b1 <=> ~(r.created > now + ClockTolerance)) /\ (~b2 <=> ~(r.expires + ClockTolerance < now))
    BY Zenon
<1> HIDE DEF b1, b2
<1>3. Answers(p1) /\ Answers(p2)
    BY Zenon DEF Answers
<1>4. p1[1] = b1 /\ p2[1] = b2
    BY Zenon
<1> HIDE DEF p1, p2
<1>5. FirstFault(<<p1, p2>>) = "none" <=> ~p1[1] /\ ~p2[1]
    BY <1>3, FirstOfTwo, Zenon
<1> QED
    BY <1>1, <1>2, <1>4, <1>5, Zenon

\* When custodianSlot finds a slot.
LEMMA PlacedIs ==
    ASSUME NEW r, HasSlot(r), r.fault # "type_unplaced"
    PROVE  custodianSlot(r) = "none"
<1> DEFINE b1 == r.fault = "type_unplaced"
           b2 == r.fault # "type_unknown" /\ ~HasSlot(r)
           p1 == <<b1, "subject_missing">>
           p2 == <<b2, "malformed">>
<1>1. custodianSlot(r) = FirstFault(<<p1, p2>>)
    BY Zenon DEF custodianSlot
<1>2. ~b1 /\ ~b2
    BY Zenon
<1> HIDE DEF b1, b2
<1>3. Answers(p1) /\ Answers(p2)
    BY Zenon DEF Answers
<1>4. p1[1] = b1 /\ p2[1] = b2
    BY Zenon
<1> HIDE DEF p1, p2
<1>5. FirstFault(<<p1, p2>>) = "none" <=> ~p1[1] /\ ~p2[1]
    BY <1>3, FirstOfTwo, Zenon
<1> QED
    BY <1>1, <1>2, <1>4, <1>5, Zenon

\* When custodianChecks pass.
LEMMA CustodianIs ==
    ASSUME NEW r, NEW now
    PROVE  custodianChecks(r, now) = "none" <=>
             /\ r.fault # "size"
             /\ r.fault # "object"
             /\ r.fault # "alg"
             /\ r.fault # "signature"
             /\ r.fault # "envelope"
             /\ clockFault(r, now) = "none"
             /\ lifetimeFault(r) = "none"
             /\ r.fault # "class"
             /\ custodianSlot(r) = "none"
<1> DEFINE b1 == r.fault = "size"
           b2 == r.fault = "object"
           b3 == r.fault = "alg"
           b4 == r.fault = "signature"
           b5 == r.fault = "envelope"
           b6 == clockFault(r, now) # "none"
           b7 == lifetimeFault(r) # "none"
           b8 == r.fault = "class"
           b9 == custodianSlot(r) # "none"
           p1 == <<b1, "record_too_large">>
           p2 == <<b2, "malformed">>
           p3 == <<b3, "object_alg_unsupported">>
           p4 == <<b4, "object_signature_invalid">>
           p5 == <<b5, "malformed">>
           p6 == <<b6, clockFault(r, now)>>
           p7 == <<b7, lifetimeFault(r)>>
           p8 == <<b8, "lifetime_class_mismatch">>
           p9 == <<b9, custodianSlot(r)>>
<1>1. custodianChecks(r, now) = FirstFault(<<p1, p2, p3, p4, p5, p6, p7, p8, p9>>)
    BY Zenon DEF custodianChecks
<1>2. (~b1 <=> r.fault # "size") /\ (~b2 <=> r.fault # "object") /\ (~b3 <=> r.fault # "alg") /\
      (~b4 <=> r.fault # "signature") /\ (~b5 <=> r.fault # "envelope") /\ (~b6 <=> clockFault(r, now) = "none") /\
      (~b7 <=> lifetimeFault(r) = "none") /\ (~b8 <=> r.fault # "class") /\ (~b9 <=> custodianSlot(r) = "none")
    BY Zenon
<1>3. b6 => clockFault(r, now) # "none"
    BY Zenon
<1>4. (b7 => lifetimeFault(r) # "none") /\ (b9 => custodianSlot(r) # "none")
    BY Zenon
<1> HIDE DEF b1, b2, b3, b4, b5, b6, b7, b8, b9
<1>5. Answers(p1) /\ Answers(p2) /\ Answers(p3) /\ Answers(p4) /\ Answers(p5) /\ Answers(p6) /\ Answers(p7) /\
      Answers(p8) /\ Answers(p9)
    BY <1>3, <1>4, Zenon DEF Answers
<1>6. p1[1] = b1 /\ p2[1] = b2 /\ p3[1] = b3 /\ p4[1] = b4 /\ p5[1] = b5 /\ p6[1] = b6 /\ p7[1] = b7 /\ p8[1] = b8 /\
      p9[1] = b9
    BY Zenon
<1> HIDE DEF p1, p2, p3, p4, p5, p6, p7, p8, p9
<1>7. FirstFault(<<p1, p2, p3, p4, p5, p6, p7, p8, p9>>) = "none" <=> ~p1[1] /\ ~p2[1] /\ ~p3[1] /\ ~p4[1] /\ ~p5[1] /\
      ~p6[1] /\ ~p7[1] /\ ~p8[1] /\ ~p9[1]
    BY <1>5, FirstOfNine, Zenon
<1> QED
    BY <1>1, <1>2, <1>6, <1>7, Zenon

\* When Verify accepts.
LEMMA VerifyIs ==
    ASSUME NEW r, NEW now
    PROVE  Verify(r, now) = "none" <=>
             /\ custodianChecks(r, now) = "none"
             /\ readerKnows(r) = "none"
             /\ r.fault # "critical_ext"
             /\ payloadChecks(r) = "none"
             /\ ~NamesAnother(r)
<1> DEFINE b1 == custodianChecks(r, now) # "none"
           b2 == readerKnows(r) # "none"
           b3 == r.fault = "critical_ext"
           b4 == payloadChecks(r) # "none"
           b5 == NamesAnother(r)
           p1 == <<b1, custodianChecks(r, now)>>
           p2 == <<b2, readerKnows(r)>>
           p3 == <<b3, "extension_unsupported">>
           p4 == <<b4, payloadChecks(r)>>
           p5 == <<b5, "key_id_mismatch">>
<1>1. Verify(r, now) = FirstFault(<<p1, p2, p3, p4, p5>>)
    BY Zenon DEF Verify
<1>2. (~b1 <=> custodianChecks(r, now) = "none") /\ (~b2 <=> readerKnows(r) = "none") /\
      (~b3 <=> r.fault # "critical_ext") /\ (~b4 <=> payloadChecks(r) = "none") /\ (~b5 <=> ~NamesAnother(r))
    BY Zenon
<1>3. b1 => custodianChecks(r, now) # "none"
    BY Zenon
<1>4. b2 => readerKnows(r) # "none"
    BY Zenon
<1>5. b4 => payloadChecks(r) # "none"
    BY Zenon
<1> HIDE DEF b1, b2, b3, b4, b5
<1>6. Answers(p1) /\ Answers(p2) /\ Answers(p3) /\ Answers(p4) /\ Answers(p5)
    BY <1>3, <1>4, <1>5, Zenon DEF Answers
<1>7. p1[1] = b1 /\ p2[1] = b2 /\ p3[1] = b3 /\ p4[1] = b4 /\ p5[1] = b5
    BY Zenon
<1> HIDE DEF p1, p2, p3, p4, p5
<1>8. FirstFault(<<p1, p2, p3, p4, p5>>) = "none" <=> ~p1[1] /\ ~p2[1] /\ ~p3[1] /\ ~p4[1] /\ ~p5[1]
    BY <1>6, FirstOfFive, Zenon
<1> QED
    BY <1>1, <1>2, <1>7, <1>8, Zenon

\* Every record type has a lifetime class.
LEMMA ClassIs ==
    ASSUME NEW type \in RecordType
    PROVE  LifetimeMax[typeLifetimeClass(type)] \in Nat
<1>1. typeLifetimeClass(type) \in Minutes5..Days30
    BY DEF RecordType, typeLifetimeClass, Minutes5, Minutes30, Hours6, Hours48, Days7, Days30
<1>2. LifetimeMax \in [Minutes5..Days30 -> Nat \ {0}]
    BY Zenon, RecordTimes
<1> QED
    BY <1>1, <1>2, Zenon

\* What a slot is derived from, but for the signer, is what a tombstone repeats.
LEMMA SlotIs ==
    ASSUME NEW type \in RecordType
    PROVE  slotOfType(type) \subseteq slotFieldNames(type) \union {"signer"}
    BY Zenon DEF RecordType, slotOfType, slotFieldNames

\* The fields of a tombstone.
LEMMA TombstoneIs ==
    ASSUME NEW r, SignedInv(r), NEW ttl \in Nat, rclock \in Int
    PROVE  /\ NewTombstone(r, ttl) \in RecordOf({<<>>})
           /\ NewTombstone(r, ttl).type = "tombstone" /\ NewTombstone(r, ttl).of = r.of
           /\ NewTombstone(r, ttl).payload = slotFieldNames(r.of) /\ NewTombstone(r, ttl).fault = "none"
           /\ NewTombstone(r, ttl).created = rclock /\ NewTombstone(r, ttl).by = <<>>
           /\ NewTombstone(r, ttl).expires =
                 LET lives == rclock + (IF ttl = 0 THEN ClockTolerance ELSE ttl)
                     past  == r.expires + ClockTolerance
                 IN  IF lives > past THEN lives ELSE past
<1> DEFINE lives == rclock + (IF ttl = 0 THEN ClockTolerance ELSE ttl)
           past == r.expires + ClockTolerance
           till == IF lives > past THEN lives ELSE past
<1>1. r \in RecordOf(Carrying) /\ ClockTolerance \in Nat
    BY RecordTimes, Zenon DEF SignedInv
<1>2. r.expires \in Int /\ r.of \in RecordType
    BY <1>1, Zenon DEF RecordOf
<1>3. till \in Int
    BY <1>1, <1>2
<1>4. slotFieldNames(r.of) \in {PayloadOf(type) : type \in RecordType} \union {slotFieldNames(type) : type \in RecordType}
    BY <1>2, Zenon
<1> DEFINE fields == slotFieldNames(r.of)
           Payloads == {PayloadOf(type) : type \in RecordType} \union {slotFieldNames(type) : type \in RecordType}
           Faults == BuildFault \union GrantFault \union {"none"}
           Types == RecordType \union {"tombstone"}
<1>5. NewTombstone(r, ttl) =
         [r EXCEPT !.type = "tombstone", !.created = rclock, !.expires = till,
                   !.payload = fields, !.fault = "none", !.namespace = "none", !.by = <<>>]
    BY Zenon DEF NewTombstone
<1>6. "tombstone" \in Types /\ "none" \in Faults
    BY Zenon
<1>7. r \in [type : Types, of : RecordType, created : Int, expires : Int, payload : Payloads, fault : Faults,
             namespace : {"none", "own", "org"}, by : Carrying]
    BY <1>1, Zenon DEF RecordOf
<1> HIDE DEF till, fields, Payloads, Faults, Types
<1>8. /\ NewTombstone(r, ttl) \in [type : Types, of : RecordType, created : Int, expires : Int, payload : Payloads,
                                   fault : Faults, namespace : {"none", "own", "org"}, by : {<<>>}]
      /\ NewTombstone(r, ttl).type = "tombstone" /\ NewTombstone(r, ttl).of = r.of
      /\ NewTombstone(r, ttl).payload = fields /\ NewTombstone(r, ttl).fault = "none"
      /\ NewTombstone(r, ttl).created = rclock /\ NewTombstone(r, ttl).by = <<>>
      /\ NewTombstone(r, ttl).expires = till
  <2> DEFINE n == NewTombstone(r, ttl)
  <2>1. fields \in Payloads
    BY <1>4, Zenon DEF fields, Payloads
  <2>2. n = [r EXCEPT !.type = "tombstone", !.created = rclock, !.expires = till,
                      !.payload = fields, !.fault = "none", !.namespace = "none", !.by = <<>>]
    BY <1>5, Zenon
  <2> HIDE DEF n
  <2>3. n = [type |-> "tombstone", of |-> r.of, created |-> rclock, expires |-> till, payload |-> fields,
             fault |-> "none", namespace |-> "none", by |-> <<>>]
    BY <1>7, <2>2
  <2>4. r.of \in RecordType
    BY <1>7, Zenon
  <2>5. n \in [type : Types, of : RecordType, created : Int, expires : Int, payload : Payloads,
               fault : Faults, namespace : {"none", "own", "org"}, by : {<<>>}]
    BY <1>3, <1>6, <2>1, <2>3, <2>4
  <2>6. /\ n.type = "tombstone" /\ n.of = r.of /\ n.payload = fields /\ n.fault = "none"
        /\ n.created = rclock /\ n.by = <<>> /\ n.expires = till
    BY <2>3, Zenon
  <2> QED
    BY <2>5, <2>6, Zenon DEF n
<1>9. NewTombstone(r, ttl) \in RecordOf({<<>>})
    BY <1>8, Zenon DEF RecordOf, Types, Payloads, Faults
<1> QED
    BY <1>8, <1>9, Zenon DEF fields, till

\* A signed record's tombstone: it can be signed, and it takes the record's slot.
LEMMA TombstoneSigns ==
    ASSUME NEW r, SignedInv(r), r.type # "tombstone", rclock \in Int, r.created <= rclock + ClockTolerance
    PROVE  /\ Sign(NewTombstone(r, 0)) = "none"
           /\ StorageKey(NewTombstone(r, 0)) = StorageKey(r)
           /\ HasSlot(NewTombstone(r, 0))
<1> DEFINE t == NewTombstone(r, 0)
           max == LifetimeMax[typeLifetimeClass(r.of)]
<1>1. /\ t \in RecordOf({<<>>})
      /\ t.type = "tombstone" /\ t.of = r.of
      /\ t.payload = slotFieldNames(r.of) /\ t.fault = "none"
      /\ t.created = rclock
      /\ t.expires = IF rclock + ClockTolerance > r.expires + ClockTolerance
                     THEN rclock + ClockTolerance ELSE r.expires + ClockTolerance
    BY TombstoneIs, Zenon
<1>2. /\ r.created \in Int /\ r.expires \in Int /\ r.of \in RecordType /\ r.of = r.type
      /\ r.payload = PayloadOf(r.of)
    BY Zenon DEF SignedInv, RecordOf
<1>3. ClockTolerance \in Nat /\ ClockTolerance > 0 /\ max \in Nat
    BY <1>2, ClassIs, RecordTimes
<1>4. lifetimeFault(r) = "none"
    BY SignIs, Zenon DEF SignedInv
<1>5. ~(r.expires - r.created > max + tombstoneMargin(r.type))
    BY <1>4, LifetimeIs, Zenon
<1> HIDE DEF max
<1>6. r.expires - r.created =< max
    BY <1>2, <1>3, <1>5 DEF tombstoneMargin
<1> HIDE DEF t
<1>7. t.expires > t.created /\ t.expires - t.created =< max + 2 * ClockTolerance
    BY <1>1, <1>2, <1>3, <1>6
<1>8. /\ ~(t.expires <= t.created)
      /\ ~(t.expires - t.created > max + tombstoneMargin(t.type))
  <2>1. t.expires \in Int /\ t.created \in Int
    BY <1>1, <1>2, <1>3
  <2> QED
    BY <1>1, <1>3, <1>7, <2>1 DEF tombstoneMargin
<1>9. lifetimeFault(t) = "none"
  <2>1. ~(t.expires - t.created > LifetimeMax[typeLifetimeClass(t.of)] + tombstoneMargin(t.type))
    BY <1>1, <1>8, Zenon DEF max
  <2>2. t.fault # "class_unknown"
    BY <1>1, Zenon
  <2> QED
    BY <1>8, <2>1, <2>2, LifetimeIs, Zenon
<1>10. readerKnows(t) = "none"
  <2>1. t.fault \notin {"type_unknown", "type_unplaced"} /\ t.fault # "schema"
    BY <1>1, Zenon
  <2> QED
    BY <2>1, ReaderIs, Zenon
<1>11. payloadChecks(t) = "none"
  <2>1. t.fault \notin {"subject", "payload"} /\ t.payload = slotFieldNames(t.of) /\ ~(t.fault = "mcid_tag")
    BY <1>1, Zenon
  <2> QED
    BY <1>1, <2>1, PayloadChecksIs, Zenon
<1>12. Sign(t) = "none"
  <2>1. t.fault # "purpose" /\ t.fault # "tbs" /\ t.fault # "size" /\ ~NamesAnother(t)
    BY <1>1, Zenon DEF NamesAnother
  <2> QED
    BY <1>9, <1>10, <1>11, <2>1, SignIs, Zenon
<1>13. slotOfType(r.of) \subseteq slotFieldNames(r.of) \union {"signer"}
    BY <1>2, SlotIs, Zenon
<1>14. HasSlot(t)
    BY <1>1, <1>13, Zenon DEF HasSlot
<1>15. StorageKey(t) = StorageKey(r)
  <2>1. slotOfType(r.of) \intersect (slotFieldNames(r.of) \union {"signer"}) = slotOfType(r.of)
    BY <1>13, Zenon
  <2>2. slotOfType(r.of) \intersect (PayloadOf(r.of) \union {"signer"}) = slotOfType(r.of)
    BY Zenon DEF PayloadOf
  <2> QED
    BY <1>1, <1>2, <2>1, <2>2, Zenon DEF StorageKey
<1> QED
    BY <1>12, <1>14, <1>15, Zenon DEF t

\* A record that verified once verifies whenever the clock allows it.
LEMMA OnlyTheClock ==
    ASSUME NEW r, NEW before, NEW now, Verify(r, before) = "none", clockFault(r, now) = "none"
    PROVE  Verify(r, now) = "none"
<1>1. custodianChecks(r, before) = "none" /\ readerKnows(r) = "none" /\ r.fault # "critical_ext"
      /\ payloadChecks(r) = "none" /\ ~NamesAnother(r)
    BY VerifyIs, Zenon
<1>2. custodianChecks(r, now) = "none"
    BY <1>1, CustodianIs, Zenon
<1> QED
    BY <1>1, <1>2, VerifyIs, Zenon

\* RecordsInv is what the withdrawal of a record rests on.
LEMMA WithdrawalFollows ==
    ASSUME RecordsInv
    PROVE  WithdrawalHolds
<1> SUFFICES ASSUME NEW r \in signed, r.type # "tombstone", r.created <= rclock + ClockTolerance
             PROVE  /\ Sign(NewTombstone(r, 0)) = "none"
                    /\ StorageKey(NewTombstone(r, 0)) = StorageKey(r)
                    /\ \A now \in (NewTombstone(r, 0).created - ClockTolerance)..(r.expires + 2 * ClockTolerance) :
                          Verify(r, now) = "none" => Verify(NewTombstone(r, 0), now) = "none"
    BY Zenon DEF WithdrawalHolds
<1> DEFINE t == NewTombstone(r, 0)
<1>1. SignedInv(r) /\ rclock \in Int
    BY Zenon DEF RecordsInv
<1>2. Sign(t) = "none" /\ StorageKey(t) = StorageKey(r) /\ HasSlot(t)
    BY <1>1, TombstoneSigns, Zenon
<1>3. /\ t.fault = "none" /\ t.created = rclock
      /\ t.expires = IF rclock + ClockTolerance > r.expires + ClockTolerance
                     THEN rclock + ClockTolerance ELSE r.expires + ClockTolerance
    BY <1>1, TombstoneIs, Zenon
<1>4. r.expires \in Int /\ ClockTolerance \in Nat
    BY <1>1, RecordTimes, Zenon DEF SignedInv, RecordOf
<1>5. /\ lifetimeFault(t) = "none" /\ ~NamesAnother(t) /\ readerKnows(t) = "none" /\ payloadChecks(t) = "none"
    BY <1>2, SignIs, Zenon
<1> HIDE DEF t
<1>6. ASSUME NEW now \in (t.created - ClockTolerance)..(r.expires + 2 * ClockTolerance)
      PROVE  Verify(t, now) = "none"
  <2>1. now \in Int /\ now >= t.created - ClockTolerance /\ now =< r.expires + 2 * ClockTolerance
    BY <1>1, <1>3, <1>4
  <2>2. ~(t.created > now + ClockTolerance) /\ ~(t.expires + ClockTolerance < now)
    BY <1>1, <1>3, <1>4, <2>1
  <2>3. clockFault(t, now) = "none"
    BY <2>2, ClockIs, Zenon
  <2>4. t.fault \notin {"size", "object", "alg", "signature", "envelope", "class", "critical_ext", "type_unplaced"}
    BY <1>3, Zenon
  <2>5. custodianSlot(t) = "none"
    BY <1>2, <2>4, PlacedIs, Zenon
  <2>6. custodianChecks(t, now) = "none"
    BY <1>2, <1>5, <2>3, <2>4, <2>5, CustodianIs, Zenon
  <2> QED
    BY <1>5, <2>4, <2>6, VerifyIs, Zenon
<1> QED
    BY <1>2, <1>6, Zenon DEF t

\* An org's authorization, when it holds.
LEMMA DelegationIs ==
    ASSUME NEW r, NEW now, delegationPath(r, now) = "none"
    PROVE  /\ Verify(r.by[1], now) = "none" /\ Verify(r.by[2], now) = "none"
           /\ ~(r.expires > AuthorizedTill(r.by[1], r.by[2]))
<1> DEFINE directory == r.by[1]
           delegation == r.by[2]
           b1 == r.fault = "no_realm_key"
           b2 == Verify(directory, now) # "none"
           b3 == r.fault = "other_realm"
           b4 == r.fault = "other_org"
           b5 == Verify(delegation, now) # "none"
           b6 == r.fault = "other_advertiser"
           b7 == r.expires > AuthorizedTill(directory, delegation)
           p1 == <<b1, "no_realm_key">>
           p2 == <<b2, "org_directory_invalid">>
           p3 == <<b3, "org_directory_wrong_realm">>
           p4 == <<b4, "org_directory_wrong_org">>
           p5 == <<b5, "delegation_invalid">>
           p6 == <<b6, "delegation_mismatch">>
           p7 == <<b7, "authorization_outlived">>
<1>1. delegationPath(r, now) = FirstFault(<<p1, p2, p3, p4, p5, p6, p7>>)
    BY Zenon DEF delegationPath
<1>2. /\ ~b2 => Verify(r.by[1], now) = "none"
      /\ ~b5 => Verify(r.by[2], now) = "none"
      /\ ~b7 => ~(r.expires > AuthorizedTill(r.by[1], r.by[2]))
    BY Zenon
<1> HIDE DEF b1, b2, b3, b4, b5, b6, b7
<1>3. Answers(p1) /\ Answers(p2) /\ Answers(p3) /\ Answers(p4) /\ Answers(p5) /\ Answers(p6) /\ Answers(p7)
    BY Zenon DEF Answers
<1>4. p2[1] = b2 /\ p5[1] = b5 /\ p7[1] = b7
    BY Zenon
<1> HIDE DEF p1, p2, p3, p4, p5, p6, p7
<1>5. FirstFault(<<p1, p2, p3, p4, p5, p6, p7>>) = "none" <=>
         ~p1[1] /\ ~p2[1] /\ ~p3[1] /\ ~p4[1] /\ ~p5[1] /\ ~p6[1] /\ ~p7[1]
    BY <1>3, FirstOfSeven, Zenon
<1> QED
    BY <1>1, <1>2, <1>4, <1>5, Zenon

\* RecordsInv is what the cover of an authorization rests on.
LEMMA CoverFollows ==
    ASSUME RecordsInv
    PROVE  AuthorizationCovers
<1> SUFFICES ASSUME NEW r \in signed, r.namespace = "org", VerifyAuthorization(r, rclock) = "none",
                    NEW now \in rclock..(r.expires + ClockTolerance)
             PROVE  Verify(r.by[1], now) = "none" /\ Verify(r.by[2], now) = "none"
    BY Zenon DEF AuthorizationCovers
<1>1. SignedInv(r) /\ rclock \in Int
    BY Zenon DEF RecordsInv
<1>2. r.by # <<>> /\ delegationPath(r, rclock) = "none"
  <2>1. orgAuthorization(r, rclock) = "none"
    BY DEF VerifyAuthorization
  <2> QED
    BY <2>1 DEF orgAuthorization
<1>3. /\ Verify(r.by[1], rclock) = "none" /\ Verify(r.by[2], rclock) = "none"
      /\ ~(r.expires > AuthorizedTill(r.by[1], r.by[2]))
    BY <1>2, DelegationIs, Zenon
<1>4. r.by \in Plain \X Plain
    BY <1>1, <1>2, Zenon DEF SignedInv, RecordOf, Carrying
<1>5. PICK d, e : d \in Plain /\ e \in Plain /\ d = r.by[1] /\ e = r.by[2]
    BY <1>4, Zenon
<1>6. /\ r.expires \in Int /\ ClockTolerance \in Nat
      /\ d.expires \in Int /\ e.expires \in Int /\ d.created \in Int /\ e.created \in Int
    BY <1>1, <1>5, RecordTimes, Zenon DEF SignedInv, RecordOf, Plain
<1>7. r.expires =< d.expires /\ r.expires =< e.expires
    BY <1>3, <1>5, <1>6 DEF AuthorizedTill
<1>8. /\ Verify(d, rclock) = "none" /\ clockFault(d, rclock) = "none"
      /\ Verify(e, rclock) = "none" /\ clockFault(e, rclock) = "none"
    BY <1>3, <1>5, VerifyIs, CustodianIs, Zenon
<1>9. ~(d.created > rclock + ClockTolerance) /\ ~(e.created > rclock + ClockTolerance)
    BY <1>8, ClockIs, Zenon
<1>10. now \in Int /\ now >= rclock /\ now =< r.expires + ClockTolerance
    BY <1>1, <1>6
<1>11. /\ ~(d.created > now + ClockTolerance) /\ ~(d.expires + ClockTolerance < now)
       /\ ~(e.created > now + ClockTolerance) /\ ~(e.expires + ClockTolerance < now)
    BY <1>1, <1>6, <1>7, <1>9, <1>10
<1>12. clockFault(d, now) = "none" /\ clockFault(e, now) = "none"
    BY <1>11, ClockIs, Zenon
<1> QED
    BY <1>5, <1>8, <1>12, OnlyTheClock, Zenon

\* A record that may be signed, whatever Sign says of it.
MaySign(r) ==
    /\ r \in RecordOf(Carrying)
    /\ r.type # "advertisement" => r.by = <<>>
    /\ r.type # "tombstone" => r.of = r.type /\ r.payload = PayloadOf(r.type)

\* Signing keeps the invariant.
LEMMA SignsKeeps ==
    ASSUME RecordsInv, NEW r, MaySign(r), Signs(r)
    PROVE  RecordsInv'
<1>1. rclock' \in Int
    BY Zenon DEF RecordsInv, Signs
<1>2. ASSUME NEW s \in signed' PROVE SignedInv(s)
  <2>1. s \in signed \/ (s = r /\ Sign(r) = "none")
    BY Zenon DEF Signs
  <2> QED
    BY <2>1, Zenon DEF RecordsInv, SignedInv, MaySign
<1> QED
    BY <1>1, <1>2, Zenon DEF RecordsInv

\* What a builder makes may be signed.
LEMMA BuiltIs ==
    ASSUME NEW type \in RecordType, NEW ttl \in Nat, NEW what \in BuildFault \union GrantFault, rclock \in Int
    PROVE  /\ unsigned(type, ttl, what) \in Plain
           /\ unsigned(type, ttl, what).type = type /\ unsigned(type, ttl, what).of = type
           /\ unsigned(type, ttl, what).payload = PayloadOf(type)
<1> DEFINE row == LifetimeMax[typeLifetimeClass(type)]
           default == IF row < DefaultTTL THEN row ELSE DefaultTTL
           till == rclock + (IF ttl = 0 THEN default ELSE ttl)
           fields == PayloadOf(type)
<1>1. row \in Nat /\ DefaultTTL \in Nat
    BY ClassIs, RecordTimes, Zenon
<1> HIDE DEF row
<1>2. till \in Int
    BY <1>1
<1>3. unsigned(type, ttl, what) =
        [type |-> type, of |-> type, created |-> rclock, expires |-> till,
         payload |-> fields, fault |-> what, namespace |-> "none", by |-> <<>>]
    BY Zenon DEF unsigned, row
<1>4. fields \in {PayloadOf(x) : x \in RecordType} \union {slotFieldNames(x) : x \in RecordType}
    BY Zenon
<1> HIDE DEF till, fields
<1>5. unsigned(type, ttl, what) \in Plain
    BY <1>2, <1>3, <1>4 DEF Plain, RecordOf
<1> QED
    BY <1>3, <1>5 DEF fields

\* A builder's record keeps the invariant.
LEMMA BuildKeeps ==
    ASSUME RecordsInv, NEW type \in RecordType, NEW ttl \in AskedTTL, NEW what \in BuildFault, Build(type, ttl, what)
    PROVE  RecordsInv'
<1> DEFINE r == unsigned(type, ttl, what)
<1>1. ttl \in Nat /\ rclock \in Int
    BY RecordTimes, Zenon DEF RecordsInv
<1>2. r \in Plain /\ r.type = type /\ r.of = type /\ r.payload = PayloadOf(type)
    BY <1>1, BuiltIs, Zenon
<1>3. Signs(r)
    BY Zenon DEF Build
<1> HIDE DEF r
<1>4. MaySign(r)
    BY <1>2, Zenon DEF MaySign, Plain, RecordOf, Carrying
<1> QED
    BY <1>3, <1>4, SignsKeeps, Zenon

\* An advertisement carries records that carry none, and keeps the invariant.
LEMMA AdvertiseKeeps ==
    ASSUME RecordsInv, NEW by \in {<<>>} \union (signed \X signed), NEW namespace \in {"none", "own", "org"},
           NEW ttl \in AskedTTL, NEW what \in GrantFault, Advertise(by, namespace, ttl, what)
    PROVE  RecordsInv'
<1> DEFINE u == unsigned("advertisement", ttl, what)
           r == [u EXCEPT !.by = by, !.namespace = namespace]
<1>1. ttl \in Nat /\ rclock \in Int /\ "advertisement" \in RecordType /\ what \in BuildFault \union GrantFault
    BY RecordTimes, Zenon DEF RecordsInv, RecordType
<1>2. u \in Plain /\ u.type = "advertisement" /\ u.of = "advertisement" /\ u.payload = PayloadOf("advertisement")
  <2> HIDE DEF r
  <2> QED
    BY <1>1, BuiltIs, Zenon
<1>3. by \in Carrying
  <2>1. CASE by = <<>>
    BY <2>1, Zenon DEF Carrying
  <2>2. CASE by # <<>>
    <3>1. by \in signed \X signed
      BY <2>2, Zenon
    <3>2. PICK directory \in signed, delegation \in signed : by = <<directory, delegation>>
      BY <3>1
    <3>3. by[1] = directory /\ by[2] = delegation
      BY <3>2, Zenon
    <3>4. SignedInv(directory) /\ SignedInv(delegation)
      BY Zenon DEF RecordsInv
    <3>5. directory.type = "directory" /\ delegation.type = "delegation"
      BY <2>2, <3>3, Zenon DEF Advertise
    <3>6. directory.by = <<>> /\ delegation.by = <<>>
      BY <3>4, <3>5, Zenon DEF SignedInv
    <3>7. directory \in Plain /\ delegation \in Plain
      BY <3>4, <3>6, Zenon DEF SignedInv, RecordOf, Plain
    <3> QED
      BY <3>2, <3>7, Zenon DEF Carrying
  <2> QED
    BY <2>1, <2>2, Zenon
<1>4. Signs(r)
    BY Zenon DEF Advertise
<1> HIDE DEF u
<1>5. r \in RecordOf(Carrying) /\ r.type = "advertisement" /\ r.of = "advertisement" /\
      r.payload = PayloadOf("advertisement")
    BY <1>2, <1>3, Zenon DEF Plain, RecordOf
<1> HIDE DEF r
<1>6. MaySign(r)
    BY <1>5, Zenon DEF MaySign
<1> QED
    BY <1>4, <1>6, SignsKeeps, Zenon

\* A refreshed record keeps the invariant.
LEMMA RefreshKeeps ==
    ASSUME RecordsInv, NEW r \in signed, Refresh(r)
    PROVE  RecordsInv'
<1> DEFINE till == rclock + r.expires - r.created
           s == [r EXCEPT !.created = rclock, !.expires = till]
<1>1. SignedInv(r) /\ rclock \in Int
    BY Zenon DEF RecordsInv
<1>2. Signs(s)
    BY Zenon DEF Refresh
<1>3. till \in Int
    BY <1>1 DEF SignedInv, RecordOf
<1> HIDE DEF till
<1>4. s \in RecordOf(Carrying) /\ s.type = r.type /\ s.of = r.of /\ s.by = r.by /\ s.payload = r.payload
    BY <1>1, <1>3, Zenon DEF SignedInv, RecordOf
<1> HIDE DEF s
<1>5. MaySign(s)
    BY <1>1, <1>4, Zenon DEF MaySign, SignedInv
<1> QED
    BY <1>2, <1>5, SignsKeeps, Zenon

\* A tombstone keeps the invariant.
LEMMA WithdrawKeeps ==
    ASSUME RecordsInv, NEW r \in signed, NEW ttl \in AskedTTL, Withdraw(r, ttl)
    PROVE  RecordsInv'
<1> DEFINE t == NewTombstone(r, ttl)
<1>1. SignedInv(r) /\ rclock \in Int /\ ttl \in Nat
    BY RecordTimes, Zenon DEF RecordsInv
<1>2. t \in RecordOf({<<>>}) /\ t.type = "tombstone" /\ t.by = <<>>
    BY <1>1, TombstoneIs, Zenon
<1>3. Signs(t)
    BY Zenon DEF Withdraw
<1> HIDE DEF t
<1>4. MaySign(t)
    BY <1>2, Zenon DEF MaySign, RecordOf, Carrying
<1> QED
    BY <1>3, <1>4, SignsKeeps, Zenon

\* The actions that sign nothing.
LEMMA RecordsQuiet ==
    ASSUME RecordsInv, UNCHANGED signed, rclock' \in Int
    PROVE  RecordsInv'
    BY Zenon DEF RecordsInv

\* Every step keeps the invariant.
LEMMA RecordsStep ==
    ASSUME RecordsInv, [RNext]_rvars
    PROVE  RecordsInv'
<1>0. rclock \in Int
    BY Zenon DEF RecordsInv
<1>1. ASSUME NEW type \in RecordType, NEW ttl \in AskedTTL, NEW what \in BuildFault, Build(type, ttl, what)
      PROVE  RecordsInv'
    BY <1>1, BuildKeeps, Zenon
<1>2. ASSUME NEW by \in {<<>>} \union (signed \X signed), NEW namespace \in {"none", "own", "org"},
             NEW ttl \in AskedTTL, NEW what \in GrantFault, Advertise(by, namespace, ttl, what)
      PROVE  RecordsInv'
    BY <1>2, AdvertiseKeeps, Zenon
<1>3. ASSUME NEW r \in signed, Refresh(r)
      PROVE  RecordsInv'
    BY <1>3, RefreshKeeps, Zenon
<1>4. ASSUME NEW r \in signed, NEW what \in WireFault, Put(r, what) \/ FindRecord(r, what) \/ FindRecords(r, what)
      PROVE  RecordsInv'
  <2>1. UNCHANGED signed /\ rclock' \in Int
    BY <1>0, <1>4, Zenon DEF Put, FindRecord, FindRecords
  <2> QED
    BY <2>1, RecordsQuiet, Zenon
<1>5. ASSUME NEW r \in signed, NEW ttl \in AskedTTL, Withdraw(r, ttl)
      PROVE  RecordsInv'
    BY <1>5, WithdrawKeeps, Zenon
<1>6. ASSUME NEW t \in 0..MaxRecordTime, RecordClockMoves(t)
      PROVE  RecordsInv'
  <2>1. t \in Int
    BY RecordTimes
  <2>2. UNCHANGED signed /\ rclock' \in Int
    BY <1>6, <2>1, Zenon DEF RecordClockMoves
  <2> QED
    BY <2>2, RecordsQuiet, Zenon
<1>7. CASE UNCHANGED rvars
  <2>1. UNCHANGED signed /\ rclock' \in Int
    BY <1>0, <1>7, Zenon DEF rvars
  <2> QED
    BY <2>1, RecordsQuiet, Zenon
<1> QED
    BY <1>1, <1>2, <1>3, <1>4, <1>5, <1>6, <1>7, Zenon DEF RNext

\* The invariant holds throughout.
LEMMA RecordsHold == RSpec => []RecordsInv
<1>1. RInit => RecordsInv
    BY DEF RInit, RecordsInv
<1>2. RecordsInv /\ [RNext]_rvars => RecordsInv'
    BY RecordsStep, Zenon
<1> QED
    BY <1>1, <1>2, PTL DEF RSpec

\* NewTombstone, Sign and Verify (record.go, tombstone.go): any record a node signed can
\* be withdrawn, whatever its type and lifetime, for every tolerance and lifetime row.
THEOREM WithdrawalsHold == RSpec => []WithdrawalHolds
<1>1. RecordsInv => WithdrawalHolds
    BY WithdrawalFollows, Zenon
<1> QED
    BY <1>1, RecordsHold, PTL

\* VerifyAuthorization (authorization.go): an advertisement an org authorized is never
\* accepted at a time when its directory or its delegation is not.
THEOREM AuthorizationsCover == RSpec => []AuthorizationCovers
<1>1. RecordsInv => AuthorizationCovers
    BY CoverFollows, Zenon
<1> QED
    BY <1>1, RecordsHold, PTL
-----------------------------------------------------------------------------
\* A binding as the issuer holds it: its newest statement is dated between the
\* time it was stated and a tolerance after.
Held(b) ==
    /\ b \in [boundAt : Nat, statedAt : Nat, issuedAt : Nat, notAfter : Nat]
    /\ b.notAfter = b.boundAt + ConnectBindingValid
    /\ b.statedAt <= b.issuedAt /\ b.issuedAt <= b.statedAt + Tolerance

HeldInv ==
    /\ clock \in Nat /\ current \in DOMAIN bindings
    /\ \A n \in DOMAIN bindings : Held(bindings[n])
    /\ MaterialVerifies

\* later is at now or after it, and within the tolerance of it.
LEMMA LaterIsNear ==
    ASSUME NEW previous \in Nat, NEW now \in Nat
    PROVE  later(previous, now) \in now..(now + Tolerance)
BY IssuerTimes DEF later

\* What the issuer binds at a clock reading is held for that reading.
LEMMA BoundIsHeld ==
    ASSUME NEW now \in Nat
    PROVE  Held(BoundAt(now))
BY IssuerTimes DEF Held, BoundAt

\* reissue keeps what it restates, and what it does not.
LEMMA ReissuedIsHeld ==
    ASSUME NEW now \in Nat, NEW failed, NEW n \in DOMAIN bindings, Held(bindings[n])
    PROVE  Held(Reissued(bindings, now, failed)[n])
<1> DEFINE b == bindings[n]
           r == [b EXCEPT !.statedAt = now, !.issuedAt = later(b.issuedAt, now)]
<1>1. Reissued(bindings, now, failed)[n] = IF b.notAfter < now \/ n \in failed THEN b ELSE r
  BY Zenon DEF Reissued
<1>2. b \in [boundAt : Nat, statedAt : Nat, issuedAt : Nat, notAfter : Nat]
      /\ b.notAfter = b.boundAt + ConnectBindingValid
  BY Zenon DEF Held
<1>3. later(b.issuedAt, now) \in now..(now + Tolerance)
  BY <1>2, LaterIsNear, Zenon
<1>4. later(b.issuedAt, now) \in Nat
  BY <1>3, IssuerTimes
<1>5. r \in [boundAt : Nat, statedAt : Nat, issuedAt : Nat, notAfter : Nat]
      /\ r.boundAt = b.boundAt /\ r.notAfter = b.notAfter /\ r.statedAt = now /\ r.issuedAt = later(b.issuedAt, now)
  BY <1>2, <1>4, Zenon
<1>6. Held(r)
  BY <1>2, <1>3, <1>5, IssuerTimes DEF Held
<1> QED
  BY <1>1, <1>6, Zenon

\* tick, whatever fails of it.
LEMMA TickedIsHeld ==
    ASSUME HeldInv, NEW failed, NEW rotates \in BOOLEAN, Ticked(clock, failed, rotates)
    PROVE  current' \in DOMAIN bindings' /\ \A n \in DOMAIN bindings' : Held(bindings'[n])
<1> DEFINE restated == Reissued(bindings, clock, failed)
           rotated  == rotationDue(restated[current], clock) /\ rotates
           cur      == IF rotated THEN current + 1 ELSE current
           after    == [n \in DOMAIN bindings \union {cur} |-> IF rotated /\ n = cur THEN BoundAt(clock) ELSE restated[n]]
<1>1. current' = cur /\ bindings' = Kept(after, clock, cur)
  BY Zenon DEF Ticked
<1>2. ASSUME NEW n \in DOMAIN after PROVE Held(after[n])
  <2>1. CASE rotated /\ n = cur
    <3>1. after[n] = BoundAt(clock)
      BY <2>1, Zenon
    <3> QED
      BY <3>1, BoundIsHeld, Zenon DEF HeldInv
  <2>2. CASE ~(rotated /\ n = cur)
    <3>1. n \in DOMAIN bindings
      BY <2>2, <1>2, Zenon DEF HeldInv
    <3>2. after[n] = restated[n]
      BY <2>2, Zenon
    <3> QED
      BY <3>1, <3>2, ReissuedIsHeld, Zenon DEF HeldInv
  <2> QED
    BY <2>1, <2>2, Zenon
<1>3. cur \in DOMAIN after
  BY Zenon
<1> HIDE DEF cur, after
<1> QED
  BY <1>1, <1>2, <1>3, Zenon DEF Kept

\* What is in force verifies, with the statement a dial takes of it.
LEMMA InForceVerifies ==
    ASSUME NEW b, Held(b), NEW now \in Nat, inForce(b, now)
    PROVE  BindingVerifies(b.boundAt, b.notAfter, now) /\ StatusVerifies(dialStatement(b, now), now)
<1>1. /\ b.boundAt \in Nat /\ b.statedAt \in Nat /\ b.issuedAt \in Nat /\ b.notAfter \in Nat
      /\ b.notAfter = b.boundAt + ConnectBindingValid
      /\ b.statedAt <= b.issuedAt /\ b.issuedAt <= b.statedAt + Tolerance
  BY Zenon DEF Held
<1> QED
  BY <1>1, IssuerTimes DEF inForce, BindingVerifies, StatusVerifies, dialStatement

\* The initial states satisfy the invariant.
LEMMA HeldInit == IInit => HeldInv
<1> SUFFICES ASSUME IInit PROVE HeldInv
  BY Zenon
<1>1. clock \in Nat /\ bindings = [n \in {1} |-> BoundAt(clock)] /\ current = 1 /\ handed = {}
  BY IssuerTimes DEF IInit
<1> QED
  BY <1>1, BoundIsHeld, Zenon DEF HeldInv, MaterialVerifies

\* Every step keeps the invariant.
LEMMA HeldStep == HeldInv /\ [INext]_ivars => HeldInv'
<1> SUFFICES ASSUME HeldInv, [INext]_ivars PROVE HeldInv'
  BY Zenon
<1>1. ASSUME NEW failed \in SUBSET DOMAIN bindings, NEW rotates \in BOOLEAN, Tick(failed, rotates) PROVE HeldInv'
  <2>1. Ticked(clock, failed, rotates) /\ clock' = clock /\ handed' = handed
    BY <1>1, Zenon DEF Tick
  <2> QED
    BY <2>1, TickedIsHeld, Zenon DEF HeldInv, MaterialVerifies, Held, BindingVerifies, StatusVerifies
<1>2. ASSUME NEW failed \in SUBSET DOMAIN bindings, NEW rotates \in BOOLEAN, ConnectMaterial(failed, rotates) PROVE HeldInv'
  <2> DEFINE b == bindings'[current']
             m == [binding |-> current', from |-> b.boundAt, to |-> b.notAfter,
                   issuedAt |-> dialStatement(b, clock), at |-> clock]
  <2>1. clock' = clock /\ handed' = IF inForce(b, clock) THEN {m} ELSE {}
    BY <1>2, Zenon DEF ConnectMaterial
  <2>2. Ticked(clock, failed, rotates) \/ UNCHANGED <<bindings, current, subscription>>
    BY <1>2, Zenon DEF ConnectMaterial
  <2>3. current' \in DOMAIN bindings' /\ \A n \in DOMAIN bindings' : Held(bindings'[n])
    BY <2>2, TickedIsHeld, Zenon DEF HeldInv
  <2>4. Held(b) /\ clock \in Nat
    BY <2>3, Zenon DEF HeldInv
  <2>5. inForce(b, clock) => BindingVerifies(m.from, m.to, m.at) /\ StatusVerifies(m.issuedAt, m.at)
    BY <2>4, InForceVerifies, Zenon
  <2> HIDE DEF b, m
  <2>6. \A k \in handed' : BindingVerifies(k.from, k.to, k.at) /\ StatusVerifies(k.issuedAt, k.at)
    BY <2>1, <2>5, Zenon
  <2> QED
    BY <2>1, <2>3, <2>6, Zenon DEF HeldInv, MaterialVerifies, Held, BindingVerifies, StatusVerifies
<1>3. CASE Subscribe \/ SendStatement \/ Unsubscribe
  <2>1. UNCHANGED <<clock, bindings, current, handed>>
    BY <1>3, Zenon DEF Subscribe, SendStatement, Unsubscribe
  <2> QED
    BY <2>1, Zenon DEF HeldInv, MaterialVerifies, Held, BindingVerifies, StatusVerifies
<1>4. ASSUME NEW t \in Time, ClockMoves(t) PROVE HeldInv'
  <2>1. clock' \in Nat /\ handed' = {} /\ UNCHANGED <<bindings, current>>
    BY <1>4, IssuerTimes DEF ClockMoves, Time
  <2> QED
    BY <2>1, Zenon DEF HeldInv, MaterialVerifies, Held
<1>5. CASE UNCHANGED ivars
  BY <1>5, Zenon DEF ivars, HeldInv, MaterialVerifies, Held, BindingVerifies, StatusVerifies
<1> QED
  BY <1>1, <1>2, <1>3, <1>4, <1>5, Zenon DEF INext

\* ConnectMaterial: what it hands a dial verifies at a verifier whose clock reads
\* the same, whatever failed and however the clock was stepped.
THEOREM MaterialAlwaysVerifies == ISpec => []MaterialVerifies
<1>1. HeldInv => MaterialVerifies
  BY Zenon DEF HeldInv
<1> QED
  BY <1>1, HeldInit, HeldStep, PTL DEF ISpec
=============================================================================
