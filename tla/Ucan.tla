--------------------------------- MODULE Ucan ---------------------------------
(***************************************************************************)
(* Capability tokens (ucan/ucan.go) and how a served procedure judges a    *)
(* request by them (stationlink/authorize.go).                             *)
(*                                                                         *)
(* Nodes create tokens, each with an issuer, an audience, a sequence of    *)
(* capabilities, a window and the proof it delegates from; a caller sends  *)
(* one with a set of proofs; a provider authorizes it against its policy.  *)
(* A token is its record, its proof id its position in tokens.  What may be*)
(* wrong with a token's form, signature or window is its fault.            *)
(***************************************************************************)
EXTENDS Checks, Integers

CONSTANT
    Made    \* the tokens that may be made first, second and so on: iss, aud, cap, and
            \* what is wrong with each, its fault, "none" when it is sound

VARIABLES
    tokens,    \* the tokens made, in order
    policy,    \* the procedure's: "open", "ucan" (its issuer is root) or "member" (root, and a can)
    sent,      \* the request: the token it carries, and its proofs
    verdict    \* "none" to serve it, the code it is refused with, or "undecided"

uvars == <<tokens, policy, sent, verdict>>

\* What may be wrong with a token.
TokenFault == {"none", "form", "alg", "claims", "signature", "expired", "lifetime", "early",
               "not_identity_key", "beyond_lifetime", "never_opens"}

ASSUME MadeAssumption ==
    /\ Len(Made) \in Nat /\ DOMAIN Made = 1..Len(Made)
    /\ \A i \in DOMAIN Made : \A made \in Made[i] : made.fault \in TokenFault /\ DOMAIN made.cap \subseteq Nat

Root == "root"
Caller == "caller"
Can == "call"
NotSent == [token |-> 0, proofs |-> {}]

\* The request is for procedure p1 of org o1 in realm r1, or for one of no org.
Requested == [kind |-> "proc", realm |-> "r1", org |-> "o1", proc |-> "p1"]

UInit == tokens = <<>> /\ policy = "open" /\ sent = NotSent /\ verdict = "undecided"

Sound(t) == tokens[t].fault = "none"
-----------------------------------------------------------------------------
\* grant: what a resource names, or why it names none.
grant(with) ==
    FirstFault(<<
        <<with.kind = "none", "malformed">>,
        <<with.realm = "R1", "realm_name_not_canonical">>,
        <<with.kind = "proc" /\ with.org = "", "procedure_without_org">> >>)

\* Covers: a realm covers all in it, an org its procedures, a procedure itself.
Covers(parent, child) ==
    /\ grant(parent) = "none" /\ grant(child) = "none"
    /\ parent.realm = child.realm
    /\ CASE parent.kind = "realm" -> TRUE
         [] parent.kind = "org" -> child.kind \in {"org", "proc"} /\ child.org = parent.org
         [] OTHER -> child = parent

\* What Create refuses: a key that is no identity key, and by windowOpens an exp
\* beyond the longest lifetime or an nbf not before it.
Creatable(fault) == fault \notin {"not_identity_key", "beyond_lifetime", "never_opens"}

\* Create: a token signed by its issuer; a faulty one is made elsewhere, or
\* spoilt on its way.
Create(made, prf) ==
    /\ sent = NotSent
    /\ Creatable(made.fault)
    /\ made.fault = "none" \/ \A t \in DOMAIN tokens : Sound(t)
    /\ tokens' = Append(tokens, [iss |-> made.iss, aud |-> made.aud, cap |-> made.cap, fault |-> made.fault, prf |-> prf])
    /\ UNCHANGED <<policy, sent, verdict>>

\* parsed, algorithmIs, signedByIss, validAt: the checks of one token by itself.
\* aud names the caller a request's own token must be for.
tokenFault(t, audience) == FirstFault(<<
    <<tokens[t].fault = "form", "malformed">>,
    <<tokens[t].fault = "alg", "wrong_algorithm">>,
    <<tokens[t].fault = "claims", "malformed">>,
    <<tokens[t].fault = "signature", "signature_invalid">>,
    <<audience # {} /\ tokens[t].aud \notin audience, "not_the_audience">>,
    <<tokens[t].fault = "expired", "expired">>,
    <<tokens[t].fault = "lifetime", "exp_beyond_max_lifetime">>,
    <<tokens[t].fault = "early", "not_yet_valid">> >>)

\* The first of some positions of a sequence, 0 when there is none.
First(positions) == IF positions = {} THEN 0 ELSE Min(positions)

\* whyNotGranted: by the first capability with a textual resource.
whyNotGranted(caps) ==
    LET i == First({k \in DOMAIN caps : caps[k].with.kind # "untext"})
    IN  IF i = 0 THEN "missing_capability"
        ELSE FirstFault(<<
                 <<grant(caps[i].with) = "malformed", "missing_capability">>,
                 <<grant(caps[i].with) # "none", grant(caps[i].with)>>,
                 <<caps[i].with.realm = Requested.realm, "missing_capability">>,
                 <<TRUE, "wrong_realm">> >>)

\* requested: the first capability that covers the request, by its position;
\* 0 when none does.
requested(gate, caps) ==
    First({k \in DOMAIN caps : /\ gate = "member" => caps[k].can = Can
                               /\ Covers(caps[k].with, Requested)})

\* whyNotNarrowed: why no capability of the proof covers the child's.
whyNotNarrowed(caps, child) ==
    IF caps = <<>> THEN "grants_more_than_proof"
    ELSE FirstFault(<<
        <<grant(caps[1].with) # "none" \/ grant(child.with) # "none" \/ caps[1].with.realm # child.with.realm, "wrong_realm">>,
        <<Covers(caps[1].with, child.with), "can_changed">>,
        <<TRUE, "grants_more_than_proof">> >>)

\* covering: the first capability of the proof with the child's can and a
\* resource that covers the child's; 0 when none does.
covering(caps, child) == First({k \in DOMAIN caps : caps[k].can = child.can /\ Covers(caps[k].with, child.with)})

\* issuedBy: a token without a proof is the policy's issuer's own.
issuedBy(t) == IF tokens[t].iss = Root THEN "none" ELSE "not_the_issuer"

\* Mutant: every proof up the chain is held to the capability the request used,
\* not to what the proof below it grants.
NarrowedAny(parent, cap) == cap

\* narrowsTo: the capability of the proof that covers the child's is what its
\* own proof must cover.
Narrowed(parent, cap) == tokens[parent].cap[covering(tokens[parent].cap, cap)]

\* One call of walk, at a token: it has no proof and ends the chain, or its proof
\* is taken out of those left and checked, and is what the next call is at.
climb(c) ==
    LET prf == tokens[c.at].prf
        parent == prf[1]
        error == FirstFault(<<
            <<parent \notin c.left, "missing_proof">>,
            <<tokenFault(parent, {}) # "none", tokenFault(parent, {})>>,
            <<tokens[parent].aud # tokens[c.at].iss, "not_the_delegate">>,
            <<covering(tokens[parent].cap, c.cap) = 0, whyNotNarrowed(tokens[parent].cap, c.cap)>> >>)
    IN  IF prf = <<>> THEN [c EXCEPT !.error = issuedBy(c.at)]
        ELSE IF Len(prf) > 1 THEN [c EXCEPT !.error = "chain_not_linear"]
        ELSE IF error # "none" THEN [c EXCEPT !.error = error]
        ELSE [at |-> parent, cap |-> Narrowed(parent, c.cap), left |-> c.left \ {parent}, error |-> "climbing"]

\* walk: from a token to its proof until one has none.  Each proof is used once, so
\* there are no more calls than tokens.
walk(t, cap, proofs) ==
    LET call[n \in 0..Len(tokens)] ==
            IF n = 0 THEN [at |-> t, cap |-> cap, left |-> proofs, error |-> "climbing"]
            ELSE IF call[n - 1].error = "climbing" THEN climb(call[n - 1]) ELSE call[n - 1]
    IN  call[Len(tokens)]

\* Authorize: the token, its audience, what it grants (nothing of a procedure
\* without an org), then its chain, which must use every proof sent.
Authorize(gate, t, proofs, hasOrg) ==
    LET own   == tokenFault(t, {Caller})
        i     == requested(gate, tokens[t].cap)
        chain == walk(t, tokens[t].cap[i], proofs)
    IN  IF own # "none" THEN own
        ELSE IF ~hasOrg THEN "procedure_without_org"
        ELSE IF i = 0 THEN whyNotGranted(tokens[t].cap)
        ELSE FirstFault(<< <<chain.error # "none", chain.error>>, <<chain.left # {}, "unreferenced_proof">> >>)

\* authorize: the code a request is refused with.
authorize(gate, t, proofs, hasOrg) ==
    LET error == Authorize(gate, t, proofs, hasOrg)
    IN  IF gate = "open" \/ error = "none" THEN "none"
        ELSE IF error = "unreferenced_proof" THEN "malformed_frame" ELSE "unauthorized"

\* A request arrives with a token and proofs, and is judged.
Request(gate, t, proofs, hasOrg) ==
    /\ sent = NotSent
    /\ policy' = gate
    /\ sent' = [token |-> t, proofs |-> proofs]
    /\ verdict' = authorize(gate, t, proofs, hasOrg)
    /\ UNCHANGED tokens

UNext ==
    \/ /\ Len(tokens) < Len(Made)
       /\ \E made \in Made[Len(tokens) + 1], prf \in {<<>>, <<Len(tokens)>>, <<2, 1>>} :
             (\A i \in DOMAIN prf : prf[i] \in DOMAIN tokens) /\ Create(made, prf)
    \/ \E gate \in {"open", "ucan", "member"}, proofs \in SUBSET (1..(Len(tokens) - 1)), hasOrg \in BOOLEAN :
          tokens # <<>> /\ Request(gate, Len(tokens), proofs, hasOrg)
-----------------------------------------------------------------------------
USpec == UInit /\ [][UNext]_uvars

\* A gated request that is served was granted.  There is a path from its token, made
\* out to the caller, through the proofs that were sent, each used and nothing else
\* sent, to a token of the policy's issuer.  Every token on it is sound, and was
\* issued by the audience of its proof.  And of each there is a capability that
\* grants the procedure, with the can of the policy, and covers the one below it.
ServedIsGranted ==
    (verdict = "none" /\ policy # "open") =>
        \E n \in 1..Len(tokens) :
        \E path \in [1..n -> DOMAIN tokens], used \in [1..n -> UNION {DOMAIN tokens[t].cap : t \in DOMAIN tokens}] :
            LET cap(i) == tokens[path[i]].cap[used[i]]
            IN  /\ path[1] = sent.token /\ tokens[path[1]].aud = Caller
                /\ {path[i] : i \in 2..n} = sent.proofs
                /\ tokens[path[n]].prf = <<>> /\ tokens[path[n]].iss = Root
                /\ \A i \in 1..n :
                     /\ Sound(path[i])
                     /\ used[i] \in DOMAIN tokens[path[i]].cap
                     /\ Covers(cap(i).with, Requested)
                     /\ policy = "member" => cap(i).can = Can
                /\ \A i \in 2..n :
                     /\ tokens[path[i - 1]].prf = <<path[i]>>
                     /\ tokens[path[i]].aud = tokens[path[i - 1]].iss
                     /\ Covers(cap(i).with, cap(i - 1).with)
=============================================================================
