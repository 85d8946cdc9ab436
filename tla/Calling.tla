------------------------------- MODULE Calling -------------------------------
(***************************************************************************)
(* A Call of the pool (pool/call.go) over a link's Call                    *)
(* (stationlink/call.go), with its confidentiality on both sides           *)
(* (stationlink/confidential.go and the reply of stationlink/serve.go).    *)
(*                                                                         *)
(* A Call resolves candidates, reaches one, sends, and by the provider's   *)
(* refusal may seal to the key it named and send again: at most three      *)
(* sends, each under a request id of its own.  The providers' keys change  *)
(* under it, and what the Calls of one pool learn they share.              *)
(***************************************************************************)
EXTENDS Naturals, Sequences, FiniteSets

CONSTANTS
    Caller,      \* goroutines calling the procedure
    Node,        \* the providers that may serve it
    AnyNode,         \* what a Call names that takes any of them
    Named,       \* what the Calls name: of Node and AnyNode
    MaxKey,      \* bound of the model on the keys a provider makes; 0 is no key
    MaxCallsMade \* bound of the model on the Calls

\* A key of another profile than the callers', which they cannot seal to.
OtherProfile == MaxKey + 1

KeyOf == 0..OtherProfile

VARIABLES
    \* the providers: the key each holds (0: it has no keyring), the retired ones
    \* it still opens, the keys its advertisements in the DHT name (0: a keyless one), and what it does
    \* with a clear request: "serves" it, "refuses" it, or "names" its key too
    held, kept, adverts, clearly,
    \* the pool: p.remember, by the provider a Call names, and p.learnt
    remember, learnt,
    callAt,      \* each caller: "idle", "reach", "sent", "reseal"
    names,       \* the provider its Call names, or AnyNode
    cands,       \* the candidates left, the first being tried
    required,    \* ConfidentialRequired
    sealTo,      \* what call.SealTo is: the key the CALL last sent was sealed to
    resealed,    \* whether sealed_refused was answered by a reseal
    request,     \* the CALL last sent, as the provider has it: "none", "wire", or its answer
    made,        \* Calls made
    entered,     \* history: handler entries of each caller's Call
    sealedOnce,  \* history: a CALL of it went out sealed
    leaked       \* history: a CALL went out clear after a sealed one, or under Required

provider == <<held, kept, adverts, clearly>>
memory == <<remember, learnt>>
callState == <<callAt, names, cands, required, sealTo, resealed, request>>
history == <<entered, sealedOnce, leaked>>
cvars == <<provider, memory, callState, made, history>>

NoCand == [node |-> AnyNode, key |-> 0]
NoReply == [kind |-> "none", key |-> 0]

CInit ==
    /\ held \in [Node -> {1, OtherProfile}] /\ kept = [n \in Node |-> {}]
    /\ adverts \in [Node -> {{0}, {1}, {OtherProfile}}] /\ \A n \in Node : adverts[n] \subseteq {0, held[n]}
    /\ clearly \in [Node -> {"serves", "refuses", "names"}]
    /\ remember = [x \in Node \union {AnyNode} |-> NoCand] /\ learnt = [n \in Node |-> 0]
    /\ callAt = [c \in Caller |-> "idle"] /\ names = [c \in Caller |-> AnyNode] /\ cands = [c \in Caller |-> <<>>]
    /\ required = [c \in Caller |-> FALSE] /\ sealTo = [c \in Caller |-> 0]
    /\ resealed = [c \in Caller |-> FALSE] /\ request = [c \in Caller |-> NoReply]
    /\ made = 0 /\ entered = [c \in Caller |-> 0] /\ sealedOnce = [c \in Caller |-> FALSE]
    /\ leaked = FALSE
-----------------------------------------------------------------------------
\* rotate: a key that has lived its time is replaced and kept for a while,
Rotates(n) ==
    /\ held[n] \in 1..(MaxKey - 1)
    /\ held' = [held EXCEPT ![n] = @ + 1]
    /\ kept' = [kept EXCEPT ![n] = @ \union {held[n]}]
    /\ UNCHANGED <<adverts, clearly, memory, callState, made, history>>

\* after which it opens nothing more, the oldest first.
Retires(n) ==
    /\ \E k \in kept[n] : (\A j \in kept[n] : k <= j) /\ kept' = [kept EXCEPT ![n] = @ \ {k}]
    /\ UNCHANGED <<held, adverts, clearly, memory, callState, made, history>>

\* A provider's process restarts and has lost every key: it makes a new one, or
\* is given no keyring this time.  The DHT still serves what it advertised.
Restarts(n) ==
    /\ held' \in {[held EXCEPT ![n] = k] : k \in {0} \union {j \in {held[n] + 1} : held[n] \in 1..(MaxKey - 1)}}
    /\ held[n] # 0
    /\ kept' = [kept EXCEPT ![n] = {}]
    /\ UNCHANGED <<adverts, clearly, memory, callState, made, history>>

\* A provider renews its advertisement, naming the key it holds now.
Renewed(n) ==
    /\ held[n] \notin adverts[n]
    /\ adverts' = [adverts EXCEPT ![n] = @ \union {held[n]}]
    /\ UNCHANGED <<held, kept, clearly, memory, callState, made, history>>
-----------------------------------------------------------------------------
\* withLearnt: the key a refusal taught the pool stands in for a keyless
\* advertisement.
withLearnt(cand) == IF cand.key = 0 THEN [cand EXCEPT !.key = learnt[cand.node]] ELSE cand

\* candidates: the remembered one, while it lives and its station is linked,
\* or the advertisements a lookup finds, in any order of freshness, of the
\* provider named when there is one.  The DHT may serve the one before a
\* rotation, and none of a provider.
Found(who) == {<<>>} \union
    {f \in UNION {[1..k -> [node : Node, key : KeyOf]] : k \in 1..Cardinality(Node)} :
        /\ \A i \in DOMAIN f : f[i].key \in adverts[f[i].node] /\ who \in {AnyNode, f[i].node}
        /\ \A i, j \in DOMAIN f : i # j => f[i].node # f[j].node}

Begins(c, who, conf) ==
    /\ callAt[c] = "idle" /\ made < MaxCallsMade
    /\ made' = made + 1
    /\ \E found \in Found(who) \union ({<<remember[who]>>} \ {<<NoCand>>}) :
           cands' = [cands EXCEPT ![c] = [i \in DOMAIN found |-> withLearnt(found[i])]]
    /\ callAt' = [callAt EXCEPT ![c] = "reach"]
    /\ names' = [names EXCEPT ![c] = who]
    /\ required' = [required EXCEPT ![c] = conf]
    /\ UNCHANGED <<provider, memory, sealTo, resealed, request, history>>

\* p.forget and p.rememberCandidate, under the key the Call was resolved by.
Forgets(who) == remember' = [remember EXCEPT ![who] = NoCand]
Remembers(c) == remember' = [remember EXCEPT ![names[c]] = Head(cands[c])]

\* What a caller's state is once its Call returned.
Returned(c) ==
    /\ callAt' = [callAt EXCEPT ![c] = "idle"]
    /\ cands' = [cands EXCEPT ![c] = <<>>]
    /\ sealTo' = [sealTo EXCEPT ![c] = 0]
    /\ request' = [request EXCEPT ![c] = NoReply]
    /\ names' = [names EXCEPT ![c] = AnyNode]
    /\ required' = [required EXCEPT ![c] = FALSE] /\ resealed' = [resealed EXCEPT ![c] = FALSE]
    /\ entered' = [entered EXCEPT ![c] = 0] /\ sealedOnce' = [sealedOnce EXCEPT ![c] = FALSE]

\* A CALL goes out, sealed to key, or clear when it is 0.
Goes(c, key) ==
    /\ sealTo' = [sealTo EXCEPT ![c] = key]
    /\ request' = [request EXCEPT ![c] = [kind |-> "wire", key |-> key]]
    /\ callAt' = [callAt EXCEPT ![c] = "sent"]
    /\ leaked' = (leaked \/ (key = 0 /\ (sealedOnce[c] \/ required[c])))
    /\ sealedOnce' = [sealedOnce EXCEPT ![c] = @ \/ key # 0]

\* sealTo: a keyless candidate ends a Required call, one with a key of another
\* profile any call.
NoKEMKey(c) ==
    /\ cands[c] # <<>>
    /\ \/ required[c] /\ Head(cands[c]).key = 0
       \/ Head(cands[c]).key = OtherProfile

\* reach: a station that is not reached within its share moves the call to the
\* next candidate; with none left, or without a key to seal to, it ends.
Reaches(c) ==
    /\ callAt[c] = "reach" /\ cands[c] # <<>> /\ ~NoKEMKey(c)
    /\ Goes(c, Head(cands[c]).key)
    /\ UNCHANGED <<provider, memory, names, cands, required, resealed, made, entered>>

Unreached(c) ==
    /\ callAt[c] = "reach" /\ cands[c] # <<>> /\ ~NoKEMKey(c)
    /\ cands' = [cands EXCEPT ![c] = Tail(@)]
    /\ Forgets(names[c])
    /\ UNCHANGED <<provider, learnt, callAt, names, required, sealTo, resealed, request, made, history>>

NoProvider(c) ==
    /\ callAt[c] = "reach" /\ (cands[c] = <<>> \/ NoKEMKey(c))
    /\ Returned(c)
    /\ UNCHANGED <<provider, memory, made, leaked>>

\* openRequest: the keys a provider opens a sealed request with; and
\* clearAllowed: one without a keyring names no key, and takes every clear one.
Opens(n, key) == key # 0 /\ key \in {held[n]} \union kept[n]
TakesClear(n) == clearly[n] = "serves" \/ held[n] = 0

\* reply: a sealed request that does not open is refused naming the key held
\* now, or none, a clear one past its window naming it or not; else the handler
\* runs.
Answers(c, n) ==
    /\ callAt[c] = "sent" /\ request[c].kind = "wire" /\ Head(cands[c]).node = n
    /\ LET key == request[c].key
       IN  \/ /\ key # 0 /\ ~Opens(n, key)
              /\ request' = [request EXCEPT ![c] = [kind |-> "sealedRefused", key |-> held[n]]]
              /\ UNCHANGED entered
           \/ /\ key = 0 /\ ~TakesClear(n)
              /\ request' = [request EXCEPT ![c] = [kind |-> "sealedRequired", key |-> IF clearly[n] = "names" THEN held[n] ELSE 0]]
              /\ UNCHANGED entered
           \/ /\ Opens(n, key) \/ (key = 0 /\ TakesClear(n))
              /\ request' = [request EXCEPT ![c] = [kind |-> IF key = 0 THEN "clearResult" ELSE "result", key |-> key]]
              /\ entered' = [entered EXCEPT ![c] = @ + 1]
    /\ UNCHANGED <<provider, memory, callAt, names, cands, required, sealTo, resealed, made, sealedOnce, leaked>>
-----------------------------------------------------------------------------
\* A reply that answers: the result is reported with the key of the call that
\* produced it, and the candidate is remembered.
Replied(c) ==
    /\ callAt[c] = "sent" /\ request[c].kind \in {"result", "clearResult"}
    /\ Remembers(c)
    /\ Returned(c)
    /\ UNCHANGED <<provider, learnt, made, leaked>>

\* Mutant: a call that timed out is tried at the next candidate.
TimesOutOver(c) ==
    /\ callAt[c] = "sent"
    /\ Forgets(names[c])
    /\ cands' = [cands EXCEPT ![c] = Tail(@)]
    /\ callAt' = [callAt EXCEPT ![c] = "reach"]
    /\ request' = [request EXCEPT ![c] = NoReply]
    /\ UNCHANGED <<provider, learnt, names, required, sealTo, resealed, made, history>>

\* The deadline, the link's end or a relay error: final, whatever was under
\* way, and the candidate is forgotten.
TimesOut(c) ==
    /\ callAt[c] \in {"sent", "reseal"}
    /\ Forgets(names[c])
    /\ Returned(c)
    /\ UNCHANGED <<provider, learnt, made, leaked>>

\* adoptedKey: the key of a sealed_required, when it carries one of this profile.
adoptedKey(c) == {request[c].key} \ {0, OtherProfile}

\* sealed_required to a clear call: with a key, the link seals to it and sends
\* once more, and the pool learns it;
Adopts(c) ==
    /\ callAt[c] = "sent" /\ request[c].kind = "sealedRequired" /\ adoptedKey(c) # {}
    /\ learnt' = [learnt EXCEPT ![Head(cands[c]).node] = request[c].key]
    /\ Goes(c, request[c].key)
    /\ UNCHANGED <<provider, remember, names, cands, required, resealed, made, entered>>

\* without, the provider's answer is the outcome.
Required(c) ==
    /\ callAt[c] = "sent" /\ request[c].kind = "sealedRequired" /\ adoptedKey(c) = {}
    /\ Remembers(c)
    /\ Returned(c)
    /\ UNCHANGED <<provider, learnt, made, leaked>>

\* A refusal that is this Call's first, of a key.
Refusal(c) ==
    /\ callAt[c] = "sent" /\ request[c].kind = "sealedRefused" /\ ~resealed[c]
    /\ callAt' = [callAt EXCEPT ![c] = "reseal"]
    /\ UNCHANGED <<provider, names, cands, required, sealTo, resealed, request, made, entered, sealedOnce, leaked>>

\* sealed_refused: what the pool remembers for a Call that names this provider
\* is forgotten, and the key it learnt, and the advertisement looked up again;
ResealBegins(c) ==
    /\ Refusal(c)
    /\ Forgets(Head(cands[c]).node)
    /\ learnt' = [learnt EXCEPT ![Head(cands[c]).node] = 0]

\* Mutant: a provider that names no key is called in the clear.
resealKeyOrClear(named, fresh) ==
    CASE named # 0 /\ named \in fresh -> {named}
      [] named # 0 -> {}
      [] OTHER -> {0}

\* resealKey: of the advertisements just looked up, the one the refusal named,
\* and no other (key_mismatch); when it named none, the first one's, whichever
\* that is; and nothing when none has a key (no_kem_key).
resealKey(named, fresh) ==
    CASE named # 0 /\ named \in fresh -> {named}
      [] named # 0 -> {}
      [] OTHER -> fresh \ {0}

\* then the call is sent once more, to the key of a lookup that found these
\* advertisements, or none; or it fails closed, as it does when the key is none
\* the link can seal to (sealRequest).
Reseals(c) ==
    /\ callAt[c] = "reseal"
    /\ \E fresh \in SUBSET adverts[Head(cands[c]).node] : LET keys == resealKey(request[c].key, fresh)
       IN  \/ \E key \in keys \ {OtherProfile} :
              /\ resealed' = [resealed EXCEPT ![c] = TRUE]
              /\ Goes(c, key)
              /\ UNCHANGED <<names, cands, required, entered>>
           \/ /\ keys \subseteq {OtherProfile}
              /\ Returned(c)
              /\ UNCHANGED leaked
    /\ UNCHANGED <<provider, memory, made>>

\* A second sealed_refused is the outcome: a confidentiality answer leaves the
\* memory as it is.
RefusedAgain(c) ==
    /\ callAt[c] = "sent" /\ request[c].kind = "sealedRefused" /\ resealed[c]
    /\ Returned(c)
    /\ UNCHANGED <<provider, memory, made, leaked>>

CNext ==
    \/ \E n \in Node : Rotates(n) \/ Retires(n) \/ Restarts(n) \/ Renewed(n)
    \/ \E c \in Caller :
        \/ \E who \in Named, conf \in BOOLEAN : Begins(c, who, conf)
        \/ \E n \in Node : Answers(c, n)
        \/ Reaches(c) \/ Unreached(c) \/ NoProvider(c) \/ Replied(c) \/ TimesOut(c)
        \/ Adopts(c) \/ Required(c) \/ ResealBegins(c) \/ Reseals(c) \/ RefusedAgain(c)

CSpec == CInit /\ [][CNext]_cvars
-----------------------------------------------------------------------------
\* "One Call enters a provider's handler at most once", whatever it resealed,
\* adopted or timed out on.
HandlerOnce == \A c \in Caller : entered[c] <= 1

\* A call sealed once, or required to be, is never sent in the clear, whatever
\* the provider's keys and advertisements became meanwhile.
NeverClearAgain == ~leaked

\* "Keeping it would seal every later call to a key the provider no longer
\* opens, with no way back to the clear that learns the new one": a Call that
\* ends because its provider refused a key no advertisement of it names, one the
\* pool learnt from a refusal, leaves no candidate with that key remembered.
RefusedKeyForgotten ==
    [][\A c \in Caller : callAt[c] = "reseal" /\ callAt'[c] = "idle" /\ sealTo[c] \notin adverts[Head(cands[c]).node]
          => \A x \in DOMAIN remember : remember'[x] # [node |-> Head(cands[c]).node, key |-> sealTo[c]]]_cvars
=============================================================================
