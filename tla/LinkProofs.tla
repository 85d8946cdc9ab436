----------------------------- MODULE LinkProofs -----------------------------
(***************************************************************************)
(* Proofs about a station link.  Its frames, for any number of requests:   *)
(* what is taken as a request's answer or stream is its own.  Its liveness:*)
(* a link is lost only when its last two probes are excused by no answer,  *)
(* for any number of probes.  Its subscriptions, for any number of clients:*)
(* what a client holds is routed at the station, and what nobody holds does*)
(* not linger.  And a caller's stream on it, for any bound on its copy and *)
(* any number of frames: each session of it is whole, whichever of the     *)
(* owner's sends, the provider's refusal and the adoption or the reseal it *)
(* leads to is first.                                                      *)
(***************************************************************************)
EXTENDS LinkLife, LinkPubSub, Frames, CallerStream, TLAPS

\* The objects signed, as the builders make them.
Signer == {Sender(r, side) : r \in DOMAIN Requests, side \in Side} \union UNION {Requests[r].via : r \in DOMAIN Requests}

SignedObject ==
    [label : {"reply", "relay_error", "stream", "caller_stream"}, request : DOMAIN Requests,
     frame : {"result", "error", "stream_data", "stream_end", "stream_error", "stream_reply"},
     key : Signer, says : Signer, seq : Nat, carries : BOOLEAN,
     fields : SUBSET (replyTable \union relayErrorTable \union streamTable),
     bad : {{}}, sealing : {{}, {"nonce"}}, odd : {"none"}]

SideOf(label) == IF label = "caller_stream" THEN "caller" ELSE "provider"

FramesType ==
    /\ objects \subseteq SignedObject
    /\ count \in [DOMAIN Requests -> [Side -> Nat]]
    /\ taken \in [DOMAIN Requests -> [Side -> Seq(SignedObject)]]
    /\ DOMAIN answers = DOMAIN Requests
    /\ answers = [r \in DOMAIN Requests |-> answers[r]]

\* What AnswersItsRequest says of one frame taken, and of one answer.
RightFrame(f, r, side, i, n) ==
    /\ f.label = (IF side = "caller" THEN "caller_stream" ELSE "stream") /\ f.request = r
    /\ f.key = Sender(r, side) /\ f.seq = i - 1 /\ i <= n
RightAnswer(a, r) == a.request = r /\ a.key = (IF a.label = "reply" THEN Requests[r].target ELSE HomeStation)
Right ==
    \A r \in DOMAIN Requests :
        /\ \A side \in Side : \A i \in DOMAIN taken[r][side] : RightFrame(taken[r][side][i], r, side, i, count[r][side])
        /\ \A a \in answers[r] : RightAnswer(a, r)

\* The inductive invariant adds to what a side takes that a stream frame signed
\* is among the first count of its side.
FramesInv ==
    /\ FramesType
    /\ \A o \in objects : o.label \in {"stream", "caller_stream"} => o.seq < count[o.request][SideOf(o.label)]
    /\ Right

\* The invariant's last part is the property.
LEMMA RightIs == AnswersItsRequest <=> Right
  BY DEF AnswersItsRequest, Right, RightFrame, RightAnswer

\* What arrives is what was signed, but for what another build does differently:
\* its label, request and number are under the signature.
LEMMA BuiltIs ==
  ASSUME NEW o \in SignedObject, NEW odd
  PROVE  /\ Built(o, odd).label = o.label /\ Built(o, odd).request = o.request
         /\ Built(o, odd).seq = o.seq
<1> DEFINE Same(b) == b.label = o.label /\ b.request = o.request /\ b.seq = o.seq
<1>1. /\ Same([o EXCEPT !.fields = @ \ {"request_id"}])
      /\ Same([o EXCEPT !.fields = @ \union {"payload", "code", "mode"}])
  BY Zenon DEF SignedObject
<1>2. /\ Same([o EXCEPT !.bad = {"request_id"}])
      /\ Same([o EXCEPT !.sealing = {"kem_ct", "nonce"}])
      /\ Same([o EXCEPT !.sealing = {"unknown_scheme"}])
  BY Zenon DEF SignedObject
<1>3. /\ Same([o EXCEPT !.says = "another"])
      /\ Same([o EXCEPT !.says = "another", !.key = "another"])
      /\ Same([o EXCEPT !.odd = odd])
  BY Zenon DEF SignedObject
<1> HIDE DEF Same
<1>4. Same(Built(o, odd))
  BY <1>1, <1>2, <1>3, Zenon DEF Built
<1> QED
  BY <1>4, Zenon DEF Same

\* An object presented as another signer's.
LEMMA KeyedIs ==
  ASSUME NEW o \in SignedObject, NEW k
  PROVE  LET p == [o EXCEPT !.key = k]
         IN  /\ p.label = o.label /\ p.request = o.request /\ p.seq = o.seq /\ p.key = k /\ p.frame = o.frame
             /\ k \in Signer => p \in SignedObject
  BY Zenon DEF SignedObject

\* An object that names a request carries its identity.
LEMMA NamesIs ==
  ASSUME NEW o, NEW r, namesRequest(o, r)
  PROVE  o.request = r
  BY Zenon DEF namesRequest

\* What the verifiers of a stream make sure of.
LEMMA CallerTakes ==
  ASSUME NEW b, NEW r \in DOMAIN Requests, VerifyCallerStream(b, r)
  PROVE  /\ b.label = "caller_stream" /\ b.request = r /\ b.key = Sender(r, "caller")
         /\ b.seq = Len(taken[r]["caller"])
  BY Zenon DEF VerifyCallerStream, Signed, Labelled, namesRequest, Sender

\* What a caller's stream takes from its provider.
LEMMA ProviderTakes ==
  ASSUME FramesInv, NEW b, NEW r \in DOMAIN Requests, VerifyProviderStream(b, r)
  PROVE  /\ b.label = "stream" /\ b.request = r /\ b.key = Sender(r, "provider")
         /\ b.seq = Len(taken[r]["provider"])
<1>s. Sender(r, "provider") = Requests[r].target /\ "provider" \in Side
  BY Zenon DEF Sender, Side
<1>t. taken[r]["provider"] \in Seq(SignedObject)
  BY <1>s, Zenon DEF FramesInv, FramesType
<1>1. CASE taken[r]["provider"] = <<>>
  <2>1. providerFirst(b, r)
    BY <1>1, Zenon DEF VerifyProviderStream
  <2>2. b.label = "stream" /\ b.request = r /\ b.key = Requests[r].target /\ b.seq = 0
    BY <2>1, Zenon DEF providerFirst, Signed, Labelled, namesRequest
  <2>3. Len(taken[r]["provider"]) = 0
    BY <1>1
  <2> QED
    BY <2>2, <2>3, <1>s, Zenon
<1>2. CASE taken[r]["provider"] # <<>>
  <2>1. providerLater(b, r)
    BY <1>2, Zenon DEF VerifyProviderStream
  <2>2. /\ b.label = "stream" /\ b.request = r /\ b.key = taken[r]["provider"][1].key
        /\ b.seq = Len(taken[r]["provider"])
    BY <2>1, Zenon DEF providerLater, Signed, Labelled, namesRequest
  <2>3. 1 \in DOMAIN taken[r]["provider"]
    BY <1>2, <1>t
  <2>4. taken[r]["provider"][1].key = Sender(r, "provider")
    <3>1. RightFrame(taken[r]["provider"][1], r, "provider", 1, count[r]["provider"])
      BY <2>3, <1>s, Zenon DEF FramesInv, Right
    <3> QED
      BY <3>1, Zenon DEF RightFrame
  <2> QED
    BY <2>2, <2>4, Zenon
<1> QED
  BY <1>1, <1>2, Zenon

\* The initial states satisfy the invariant.
LEMMA FramesInit == FInit => FramesInv
<1> SUFFICES ASSUME FInit PROVE FramesInv
  BY Zenon
<1>1. /\ objects = {}
      /\ count = [r \in DOMAIN Requests |-> [side \in Side |-> 0]]
      /\ taken = [r \in DOMAIN Requests |-> [side \in Side |-> <<>>]]
      /\ answers = [r \in DOMAIN Requests |-> {}]
  BY Zenon DEF FInit
<1>2. FramesType
  <2>1. <<>> \in Seq(SignedObject)
    OBVIOUS
  <2> QED
    BY <1>1, <2>1, Zenon DEF FramesType
<1>3. \A r \in DOMAIN Requests : answers[r] = {} /\ \A side \in Side : DOMAIN taken[r][side] = {}
  BY <1>1
<1>4. Right
  BY <1>3, Zenon DEF Right
<1> QED
  BY <1>1, <1>2, <1>4, Zenon DEF FramesInv

\* A step that signs an object, and counts it if it is a stream frame.
LEMMA SignsKeeps ==
  ASSUME FramesInv, NEW o \in SignedObject, SignsObject(o),
         count' \in [DOMAIN Requests -> [Side -> Nat]],
         \A r \in DOMAIN Requests, side \in Side : count[r][side] <= count'[r][side],
         o.label \in {"stream", "caller_stream"} => o.seq < count'[o.request][SideOf(o.label)]
  PROVE  FramesInv'
<1>1. objects' = objects \union {o} /\ UNCHANGED <<taken, answers>>
  BY Zenon DEF SignsObject
<1>2. FramesType'
  BY <1>1, Zenon DEF FramesInv, FramesType
<1>t. /\ count \in [DOMAIN Requests -> [Side -> Nat]] /\ objects \subseteq SignedObject
  BY Zenon DEF FramesInv, FramesType
<1>3. ASSUME NEW p \in objects, p.label \in {"stream", "caller_stream"} PROVE p.seq < count'[p.request][SideOf(p.label)]
  <2>1. p.seq \in Nat /\ p.request \in DOMAIN Requests /\ SideOf(p.label) \in Side
    BY <1>t, Zenon DEF SignedObject, SideOf, Side
  <2>2. p.seq < count[p.request][SideOf(p.label)]
    BY <1>3, Zenon DEF FramesInv
  <2>3. count[p.request][SideOf(p.label)] <= count'[p.request][SideOf(p.label)]
    BY <2>1, Zenon
  <2>4. count[p.request][SideOf(p.label)] \in Nat /\ count'[p.request][SideOf(p.label)] \in Nat
    BY <2>1, <1>t, Zenon
  <2> QED
    BY <2>1, <2>2, <2>3, <2>4
<1>4. Right'
  <2>1. ASSUME NEW r \in DOMAIN Requests, NEW side \in Side, NEW i \in DOMAIN taken[r][side]
        PROVE  RightFrame(taken[r][side][i], r, side, i, count'[r][side])
    <3>1. i <= count[r][side] /\ count[r][side] <= count'[r][side]
      BY <2>1, Zenon DEF FramesInv, Right, RightFrame
    <3>2. i \in Nat /\ count[r][side] \in Nat /\ count'[r][side] \in Nat
      <4>1. taken[r][side] \in Seq(SignedObject)
        BY <2>1 DEF FramesInv, FramesType
      <4> QED
        BY <4>1, <2>1, <1>t
    <3>3. i <= count'[r][side]
      BY <3>1, <3>2
    <3>4. RightFrame(taken[r][side][i], r, side, i, count[r][side])
      BY <2>1, Zenon DEF FramesInv, Right
    <3> QED
      BY <3>3, <3>4, Zenon DEF RightFrame
  <2> QED
    BY <1>1, <2>1, Zenon DEF FramesInv, Right
<1> QED
  BY <1>1, <1>2, <1>3, <1>4, Zenon DEF FramesInv

\* The objects the nodes sign.
LEMMA ObjectIs ==
  ASSUME NEW label \in {"reply", "relay_error", "stream", "caller_stream"}, NEW r \in DOMAIN Requests,
         NEW frame \in {"result", "error", "stream_data", "stream_end", "stream_error", "stream_reply"},
         NEW k \in Signer, NEW n \in Nat, NEW carries \in BOOLEAN,
         NEW fields \in SUBSET (replyTable \union relayErrorTable \union streamTable)
  PROVE  LET o == Object(label, frame, r, k, n, carries, fields)
         IN  o \in SignedObject /\ o.label = label /\ o.request = r /\ o.seq = n
<1>1. shaped(label) \in {{}, {"nonce"}}
  BY Zenon DEF shaped
<1>2. Object(label, frame, r, k, n, carries, fields) =
        [label |-> label, frame |-> frame, request |-> r, key |-> k, says |-> k, seq |-> n, carries |-> carries,
         fields |-> fields, bad |-> {}, sealing |-> shaped(label), odd |-> "none"]
  BY Zenon DEF Object
<1> QED
  BY <1>1, <1>2 DEF SignedObject

\* A caller takes an answer.
LEMMA AnswerKeeps ==
  ASSUME FramesInv, NEW r \in DOMAIN Requests, TakeAnswer(r)
  PROVE  FramesInv'
<1>1. PICK o \in objects, odd \in Odd :
        /\ o.label \in {"reply", "relay_error"}
        /\ VerifyReply(Built(o, odd), r) \/ VerifyRelayError(Built(o, odd), r)
        /\ answers' = [answers EXCEPT ![r] = @ \union {[o EXCEPT !.key = Built(o, odd).key]}]
        /\ UNCHANGED <<objects, opened, count, taken, closed>>
  BY Zenon DEF TakeAnswer
<1> DEFINE b == Built(o, odd)
           p == [o EXCEPT !.key = b.key]
<1>t. o \in SignedObject
  BY <1>1, Zenon DEF FramesInv, FramesType
<1>2. b.label = o.label /\ b.request = o.request
  BY <1>t, BuiltIs, Zenon
<1>3. p.label = o.label /\ p.request = o.request /\ p.key = b.key
  BY <1>t, KeyedIs, Zenon
<1>a. answers' = [answers EXCEPT ![r] = @ \union {p}]
  BY <1>1, Zenon
<1> HIDE DEF b, p
<1>4. RightAnswer(p, r)
  <2>1. CASE VerifyReply(b, r)
    <3>1. b.label = "reply" /\ b.request = r /\ b.key = Requests[r].target
      BY <2>1, Zenon DEF VerifyReply, Signed, Labelled, namesRequest
    <3> QED
      BY <3>1, <1>2, <1>3, Zenon DEF RightAnswer
  <2>2. CASE VerifyRelayError(b, r)
    <3>1. b.label = "relay_error" /\ b.request = r /\ b.key = HomeStation
      BY <2>2, Zenon DEF VerifyRelayError, Signed, Labelled, namesRequest
    <3>2. "relay_error" # "reply"
      BY Zenon
    <3> QED
      BY <3>1, <3>2, <1>2, <1>3, Zenon DEF RightAnswer
  <2> QED
    BY <1>1, <2>1, <2>2, Zenon DEF b
<1>5. DOMAIN answers = DOMAIN Requests
  BY Zenon DEF FramesInv, FramesType
<1>6. \A q \in DOMAIN Requests : answers'[q] = (IF q = r THEN answers[q] \union {p} ELSE answers[q])
  BY <1>a, <1>5, Zenon
<1>7. DOMAIN answers' = DOMAIN Requests /\ answers' = [q \in DOMAIN Requests |-> answers'[q]]
  BY <1>a, <1>5, Zenon
<1>8. FramesType'
  BY <1>1, <1>7, Zenon DEF FramesInv, FramesType
<1>9. Right'
  <2>1. ASSUME NEW q \in DOMAIN Requests, NEW a \in answers'[q]
        PROVE  RightAnswer(a, q)
    <3>1. a \in answers[q] \/ (q = r /\ a = p)
      BY <2>1, <1>6, Zenon
    <3>2. CASE a \in answers[q]
      BY <3>2, Zenon DEF FramesInv, Right
    <3> QED
      BY <3>1, <3>2, <1>4, Zenon
  <2> QED
    BY <1>1, <2>1, Zenon DEF FramesInv, Right
<1> QED
  BY <1>1, <1>8, <1>9, Zenon DEF FramesInv

\* A side takes a stream frame.
LEMMA StreamKeeps ==
  ASSUME FramesInv, NEW r \in DOMAIN Requests, NEW side \in Side, TakeStream(r, side)
  PROVE  FramesInv'
<1>1. PICK o \in objects, odd \in Odd :
        /\ o.label \in {"stream", "caller_stream"}
        /\ IF side = "caller" THEN VerifyCallerStream(Built(o, odd), r) ELSE VerifyProviderStream(Built(o, odd), r)
        /\ taken' = [taken EXCEPT ![r][side] = Append(@, [o EXCEPT !.key = Built(o, odd).key])]
        /\ UNCHANGED <<objects, opened, count, answers>>
  BY Zenon DEF TakeStream
<1> DEFINE b == Built(o, odd)
           p == [o EXCEPT !.key = b.key]
<1>t. o \in SignedObject /\ taken \in [DOMAIN Requests -> [Side -> Seq(SignedObject)]]
      /\ count \in [DOMAIN Requests -> [Side -> Nat]]
  BY <1>1, Zenon DEF FramesInv, FramesType
<1>2. b.label = o.label /\ b.request = o.request /\ b.seq = o.seq
  BY <1>t, BuiltIs, Zenon
<1>k. Sender(r, side) \in Signer
  BY DEF Signer
<1> HIDE DEF b
<1>3. /\ p.label = o.label /\ p.request = o.request /\ p.key = b.key /\ p.seq = o.seq
      /\ b.key \in Signer => p \in SignedObject
  BY <1>t, KeyedIs, ZenonT(40)
<1> USE DEF b
<1>a. taken' = [taken EXCEPT ![r][side] = Append(@, p)]
  BY <1>1, Zenon
<1> HIDE DEF b, p
<1> DEFINE held == taken[r][side]
<1>4. /\ b.label = (IF side = "caller" THEN "caller_stream" ELSE "stream") /\ b.request = r
      /\ b.key = Sender(r, side) /\ b.seq = Len(held)
  <2>1. CASE side = "caller"
    <3>1. VerifyCallerStream(b, r)
      BY <1>1, <2>1, Zenon DEF b
    <3> QED
      BY <3>1, <2>1, CallerTakes, Zenon
  <2>2. CASE side # "caller"
    <3>1. side = "provider"
      BY <2>2, Zenon DEF Side
    <3>2. VerifyProviderStream(b, r)
      BY <1>1, <2>2, Zenon DEF b
    <3> QED
      BY <3>1, <3>2, <2>2, ProviderTakes, Zenon
  <2> QED
    BY <2>1, <2>2, Zenon
<1>5. SideOf(o.label) = side
  BY <1>2, <1>4, Zenon DEF SideOf, Side
<1>6. o.seq < count[r][side] /\ o.seq \in Nat
  <2>1. o.seq < count[o.request][SideOf(o.label)]
    BY <1>1, Zenon DEF FramesInv
  <2>2. o.seq \in Nat
    BY <1>t, Zenon DEF SignedObject
  <2> QED
    BY <2>1, <2>2, <1>2, <1>4, <1>5, Zenon
<1>7. /\ p.label = (IF side = "caller" THEN "caller_stream" ELSE "stream") /\ p.request = r
      /\ p.key = Sender(r, side) /\ p.seq = Len(held) /\ p \in SignedObject
  BY <1>2, <1>3, <1>4, <1>k, Zenon
<1>8. held \in Seq(SignedObject) /\ Len(held) \in Nat /\ Len(held) + 1 <= count[r][side]
  <2>1. held \in Seq(SignedObject) /\ count[r][side] \in Nat
    BY <1>t, Zenon
  <2>2. Len(held) \in Nat
    BY <2>1
  <2>3. Len(held) < count[r][side]
    BY <1>3, <1>6, <1>7, Zenon
  <2> QED
    BY <2>1, <2>2, <2>3
<1>9. /\ Append(held, p) \in Seq(SignedObject) /\ DOMAIN Append(held, p) = 1..(Len(held) + 1)
      /\ \A i \in 1..Len(held) : Append(held, p)[i] = held[i]
      /\ Append(held, p)[Len(held) + 1] = p
      /\ DOMAIN held = 1..Len(held)
  BY <1>7, <1>8
<1>10. \A q \in DOMAIN Requests, s \in Side : taken'[q][s] = (IF q = r /\ s = side THEN Append(held, p) ELSE taken[q][s])
  BY <1>a, <1>t, Zenon
<1>11. taken' \in [DOMAIN Requests -> [Side -> Seq(SignedObject)]]
  BY <1>a, <1>t, <1>9, Zenon
<1> HIDE DEF held
<1>12. FramesType'
  BY <1>1, <1>11, Zenon DEF FramesInv, FramesType
<1>13. Right'
  <2>1. ASSUME NEW q \in DOMAIN Requests, NEW s \in Side, NEW i \in DOMAIN taken'[q][s]
        PROVE  RightFrame(taken'[q][s][i], q, s, i, count[q][s])
    <3>1. CASE ~(q = r /\ s = side)
      <4>1. taken'[q][s] = taken[q][s]
        BY <3>1, <1>10, Zenon
      <4> QED
        BY <4>1, Zenon DEF FramesInv, Right
    <3>2. CASE q = r /\ s = side /\ i \in 1..Len(held)
      <4>1. taken'[q][s][i] = taken[q][s][i] /\ i \in DOMAIN taken[q][s]
        BY <3>2, <1>9, <1>10, Zenon DEF held
      <4> QED
        BY <4>1, Zenon DEF FramesInv, Right
    <3>3. CASE q = r /\ s = side /\ i = Len(held) + 1
      <4>1. taken'[q][s][i] = p
        BY <3>3, <1>9, <1>10, Zenon
      <4>2. Len(held) = i - 1 /\ i <= count[q][s]
        BY <3>3, <1>8
      <4> QED
        BY <4>1, <4>2, <3>3, <1>7, Zenon DEF RightFrame
    <3>4. (q = r /\ s = side) => i \in 1..(Len(held) + 1)
      BY <1>9, <1>10, Zenon
    <3>5. (q = r /\ s = side) => (i \in 1..Len(held) \/ i = Len(held) + 1)
      BY <3>4, <1>8
    <3> QED
      BY <3>1, <3>2, <3>3, <3>5, Zenon
  <2> QED
    BY <1>1, <2>1, Zenon DEF FramesInv, Right
<1> QED
  BY <1>1, <1>12, <1>13, Zenon DEF FramesInv

\* Every step keeps the invariant.
LEMMA FramesStep == FramesInv /\ [FNext]_fvars => FramesInv'
<1> SUFFICES ASSUME FramesInv, [FNext]_fvars PROVE FramesInv'
  BY Zenon
<1>t. count \in [DOMAIN Requests -> [Side -> Nat]]
  BY Zenon DEF FramesInv, FramesType
<1>m. \A r \in DOMAIN Requests, side \in Side : count[r][side] <= count[r][side]
  BY <1>t
<1>f. /\ ReplyNeeds \union {"sealed"} \subseteq replyTable \union relayErrorTable \union streamTable
      /\ RelayErrorNeeds \subseteq replyTable \union relayErrorTable \union streamTable
      /\ {"payload", "code"} \subseteq replyTable
  BY Zenon DEF ReplyNeeds, RelayErrorNeeds, replyTable, relayErrorTable, streamTable, Common
<1>s. \A r \in DOMAIN Requests : /\ Requests[r].target \in Signer
                                 /\ \A s \in Requests[r].via : s \in Signer
                                 /\ \A side \in Side : Sender(r, side) \in Signer
  <2>1. \A r \in DOMAIN Requests : Requests[r].target = Sender(r, "provider") /\ "provider" \in Side
    BY Zenon DEF Sender, Side
  <2>2. \A r \in DOMAIN Requests, side \in Side : Sender(r, side) \in Signer
    BY DEF Signer
  <2>3. \A r \in DOMAIN Requests : \A s \in Requests[r].via : s \in Signer
    BY DEF Signer
  <2> QED
    BY <2>1, <2>2, <2>3, Zenon
<1>1. ASSUME NEW r \in DOMAIN Requests, TakeRequest(r) PROVE FramesInv'
  <2>1. UNCHANGED <<objects, count, taken, answers>>
    BY <1>1, Zenon DEF TakeRequest
  <2> QED
    BY <2>1, Zenon DEF FramesInv, FramesType, Right
<1>2. ASSUME NEW r \in DOMAIN Requests, SignReply(r) PROVE FramesInv'
  <2>1. PICK frame \in {"result", "error"} :
          SignsObject(Object("reply", frame, r, Requests[r].target, 0, TRUE,
                      ReplyNeeds \union Body(r, IF frame = "result" THEN {"payload"} ELSE {"code"})))
    BY <1>2, Zenon DEF SignReply
  <2> DEFINE fields == ReplyNeeds \union Body(r, IF frame = "result" THEN {"payload"} ELSE {"code"})
             label == "reply"
             carries == TRUE
             o == Object(label, frame, r, Requests[r].target, 0, carries, fields)
  <2>2. fields \in SUBSET (replyTable \union relayErrorTable \union streamTable)
    BY <1>f, Zenon DEF Body
  <2>3. /\ label \in {"reply", "relay_error", "stream", "caller_stream"} /\ label \notin {"stream", "caller_stream"}
        /\ frame \in {"result", "error", "stream_data", "stream_end", "stream_error", "stream_reply"}
        /\ carries \in BOOLEAN
    BY <2>1, Zenon
  <2>4. count' = count /\ SignsObject(o)
    BY <1>2, <2>1, Zenon DEF SignReply
  <2> HIDE DEF fields, label, carries
  <2>5. o \in SignedObject /\ o.label = label
    BY <2>2, <2>3, <1>s, ObjectIs
  <2> HIDE DEF o
  <2> QED
    BY <2>3, <2>4, <2>5, <1>t, <1>m, SignsKeeps, Zenon
<1>3. ASSUME NEW r \in DOMAIN Requests, NEW s \in Requests[r].via, SignRelayError(r, s) PROVE FramesInv'
  <2> DEFINE frame == IF Requests[r].mode = "none" THEN "error" ELSE "stream_error"
             label == "relay_error"
             carries == TRUE
             fields == RelayErrorNeeds
             o == Object(label, frame, r, s, 0, carries, fields)
  <2>1. count' = count /\ SignsObject(o)
    BY <1>3, Zenon DEF SignRelayError
  <2>2. /\ label \in {"reply", "relay_error", "stream", "caller_stream"} /\ label \notin {"stream", "caller_stream"}
        /\ frame \in {"result", "error", "stream_data", "stream_end", "stream_error", "stream_reply"}
        /\ carries \in BOOLEAN /\ fields \in SUBSET (replyTable \union relayErrorTable \union streamTable)
    BY <1>f, Zenon
  <2> HIDE DEF frame, label, carries, fields
  <2>3. o \in SignedObject /\ o.label = label
    BY <2>2, <1>s, ObjectIs
  <2> HIDE DEF o
  <2> QED
    BY <2>1, <2>2, <2>3, <1>t, <1>m, SignsKeeps, Zenon
<1>4. ASSUME NEW r \in DOMAIN Requests, NEW side \in Side,
             NEW frame \in {"stream_data", "stream_end", "stream_error", "stream_reply"}, SignStream(r, side, frame)
      PROVE  FramesInv'
  <2> DEFINE label == IF side = "caller" THEN "caller_stream" ELSE "stream"
             fields == StreamNeeds \union streamTypeFieldNames(frame, Requests[r].sealed /\ frame # "stream_end")
             carries == side = "provider" /\ count[r][side] = 0
             o == Object(label, frame, r, Sender(r, side), count[r][side], carries, fields)
  <2>1. SignsObject(o) /\ count' = [count EXCEPT ![r][side] = @ + 1]
    BY <1>4, Zenon DEF SignStream
  <2>2. label \in {"reply", "relay_error", "stream", "caller_stream"} /\ carries \in BOOLEAN /\ count[r][side] \in Nat
    BY <1>t, Zenon
  <2>l. SideOf(label) = side
    BY Zenon DEF SideOf, Side
  <2>3. fields \in SUBSET (replyTable \union relayErrorTable \union streamTable)
    BY Zenon DEF streamTypeFieldNames, StreamNeeds, streamTable, Common
  <2> HIDE DEF label, fields, carries
  <2>4. o \in SignedObject /\ o.label = label /\ o.request = r /\ o.seq = count[r][side]
    BY <2>2, <2>3, <1>s, ObjectIs
  <2> HIDE DEF o
  <2>5. /\ count' \in [DOMAIN Requests -> [Side -> Nat]]
        /\ \A q \in DOMAIN Requests, s \in Side : count[q][s] <= count'[q][s]
        /\ count'[r][side] = count[r][side] + 1
    BY <2>1, <1>t
  <2>6. o.seq < count'[o.request][SideOf(o.label)]
    <3>1. count[r][side] < count'[r][side]
      BY <2>2, <2>5
    <3> QED
      BY <3>1, <2>4, <2>l, Zenon
  <2> QED
    BY <2>1, <2>4, <2>5, <2>6, SignsKeeps, Zenon
<1>5. CASE UNCHANGED fvars
  <2>1. UNCHANGED <<objects, count, taken, answers>>
    BY <1>5, Zenon DEF fvars
  <2> QED
    BY <2>1, Zenon DEF FramesInv, FramesType, Right
<1> QED
  BY <1>1, <1>2, <1>3, <1>4, <1>5, AnswerKeeps, StreamKeeps, Zenon DEF FNext

\* Whatever the stations between do with the frames, for any requests and any
\* number of frames: what is taken as a request's answer or stream is its own.
THEOREM AnswersAreOwn == FSpec => []AnswersItsRequest
<1>1. FramesInv => AnswersItsRequest
  BY RightIs, Zenon DEF FramesInv
<1> QED
  BY <1>1, FramesInit, FramesStep, PTL DEF FSpec
-----------------------------------------------------------------------------
\* Where the client that subscribes for the others may be.
Subscribing == {"send", "write", "verdict", "withdraw", "settle"}
Places == Subscribing \union {"idle", "wait", "held", "unsub"}
Frame == {"subscribe", "unsubscribe"}
Acks == {"accepted", "refused"}

LPType ==
    /\ subs \subseteq Client
    /\ subscribing \in Client \union {None} /\ awaiting \in Client \union {None}
    /\ answer \in [Client -> Acks \union {None}]
    /\ at \in [Client -> Places]
    /\ verdict \in [Client -> Verdict]
    /\ waitsOn \in [Client -> Client \union {None}]
    /\ toStation \in Seq(Frame) /\ toLink \in Seq(Acks)
    /\ registered \in BOOLEAN /\ balked \in BOOLEAN

\* While the link is up, the subscriptions it routes to are those of the clients
\* that hold one, or subscribe, or wait on the one that does; none is held while
\* one subscribes.
Shared ==
    /\ subs = {c \in Client : at[c] \notin {"idle", "unsub"}}
    /\ \A c \in Client : at[c] \in Subscribing <=> subscribing = c
    /\ \A c \in Client : at[c] = "wait" => subscribing # None /\ waitsOn[c] = subscribing
    /\ \A c \in Client : at[c] = "held" => subscribing = None

\* What the station will hold once it read what is on its way, if it answers all.
WillHold == IF toStation = <<>> THEN registered ELSE toStation[Len(toStation)] = "subscribe"

\* A client that will withdraw the registration, or still wants it.
Minds(c) == at[c] \in {"verdict", "withdraw", "held", "unsub"} \/ (at[c] = "settle" /\ verdict[c] = "nil")

\* Until the station refuses or ignores one, no refusal is on its way, and a
\* registration it holds, or will, is minded by some client.
Minded ==
    /\ \A i \in 1..Len(toLink) : toLink[i] # "refused"
    /\ \A c \in Client : answer[c] # "refused"
    /\ WillHold => \E c \in Client : Minds(c)

TopicInv == LPType /\ (linkAt = "up" => Shared /\ (~balked => Minded))

\* The types, initially and after every step.
LEMMA TypeInit == LInit => LPType
<1> SUFFICES ASSUME LInit PROVE LPType
  BY Zenon
<1>1. registered \in BOOLEAN /\ balked \in BOOLEAN
  BY Zenon DEF LInit
<1> QED
  BY <1>1 DEF LInit, LPType, Places, Subscribing, Verdict

\* sendControl appends a frame, or the connection is closed.
LEMMA SendType ==
  ASSUME LPType, NEW f \in Frame, sendControl(f)
  PROVE  toStation' \in Seq(Frame)
BY DEF LPType, sendControl

\* A client's place stays one of the places.
LEMMA GotoType ==
  ASSUME LPType, NEW c \in Client, NEW place \in Places, Goto(c, place)
  PROVE  at' \in [Client -> Places]
BY Zenon DEF LPType, Goto

\* Every step keeps the types.
LEMMA TypeStep == LPType /\ [LNext]_lvars => LPType'
<1> SUFFICES ASSUME LPType, [LNext]_lvars PROVE LPType'
  BY Zenon
<1>p. {"idle", "wait", "held", "unsub", "send", "write", "verdict", "withdraw", "settle"} \subseteq Places
  BY Zenon DEF Places, Subscribing
<1>t. /\ subs \subseteq Client /\ subscribing \in Client \union {None} /\ awaiting \in Client \union {None}
      /\ answer \in [Client -> Acks \union {None}] /\ at \in [Client -> Places] /\ verdict \in [Client -> Verdict]
      /\ waitsOn \in [Client -> Client \union {None}]
      /\ toStation \in Seq(Frame) /\ toLink \in Seq(Acks) /\ registered \in BOOLEAN /\ balked \in BOOLEAN
  BY Zenon DEF LPType
<1>1. ASSUME NEW c \in Client, Subscribe(c) PROVE LPType'
  <2>1. subs' \subseteq Client /\ subscribing' \in Client \union {None}
    BY <1>1, <1>t, Zenon DEF Subscribe
  <2>2. at' \in [Client -> Places]
    BY <1>1, <1>p, GotoType, Zenon DEF Subscribe
  <2>3. waitsOn' \in [Client -> Client \union {None}]
    BY <1>1, <1>t, Zenon DEF Subscribe
  <2>4. UNCHANGED <<awaiting, answer, verdict, toStation, toLink, registered, balked>>
    BY <1>1, Zenon DEF Subscribe, wire
  <2> QED
    BY <1>t, <2>1, <2>2, <2>3, <2>4, Zenon DEF LPType
<1>e. ASSUME NEW c \in Client, Expects(c) PROVE LPType'
  <2>2. at' \in [Client -> Places] /\ awaiting' \in Client \union {None}
    BY <1>e, <1>p, GotoType, Zenon DEF Expects
  <2>4. UNCHANGED <<subs, subscribing, answer, verdict, waitsOn, toStation, toLink, registered, balked>>
    BY <1>e, Zenon DEF Expects, wire
  <2> QED
    BY <1>t, <2>2, <2>4, Zenon DEF LPType
<1>2. ASSUME NEW c \in Client, SubscribeSends(c) PROVE LPType'
  <2>1. toStation' \in Seq(Frame)
    BY <1>2, SendType, Zenon DEF SubscribeSends, Frame
  <2>2. at' \in [Client -> Places]
    BY <1>2, <1>p, GotoType, Zenon DEF SubscribeSends
  <2>3. verdict' \in [Client -> Verdict] /\ awaiting' \in Client \union {None} /\ answer' \in [Client -> Acks \union {None}]
    BY <1>2, <1>t, Zenon DEF SubscribeSends, Verdict
  <2>4. UNCHANGED <<subs, subscribing, waitsOn, toLink, registered, balked>>
    BY <1>2, Zenon DEF SubscribeSends
  <2> QED
    BY <1>t, <2>1, <2>2, <2>3, <2>4, Zenon DEF LPType
<1>3. ASSUME NEW c \in Client, NEW v \in Verdict, ReturnsVerdict(c, v) PROVE LPType'
  <2>2. at' \in [Client -> Places]
    BY <1>3, <1>p, GotoType, Zenon DEF ReturnsVerdict
  <2>3. verdict' \in [Client -> Verdict] /\ awaiting' \in Client \union {None} /\ answer' \in [Client -> Acks \union {None}]
    BY <1>3, <1>t, Zenon DEF ReturnsVerdict
  <2>4. UNCHANGED <<subs, subscribing, waitsOn, toStation, toLink, registered, balked>>
    BY <1>3, Zenon DEF ReturnsVerdict, wire
  <2> QED
    BY <1>t, <2>2, <2>3, <2>4, Zenon DEF LPType
<1>4. ASSUME NEW c \in Client, Withdraws(c) \/ UnsubscribeSends(c) PROVE LPType'
  <2>1. toStation' \in Seq(Frame)
    BY <1>4, SendType, Zenon DEF Withdraws, UnsubscribeSends, Frame
  <2>2. at' \in [Client -> Places]
    BY <1>4, <1>p, GotoType, Zenon DEF Withdraws, UnsubscribeSends
  <2>4. UNCHANGED <<subs, subscribing, awaiting, answer, verdict, waitsOn, toLink, registered, balked>>
    BY <1>4, Zenon DEF Withdraws, UnsubscribeSends
  <2> QED
    BY <1>t, <2>1, <2>2, <2>4, Zenon DEF LPType
<1>5. ASSUME NEW c \in Client, SubscribeAnswered(c) PROVE LPType'
  <2>1. subs' \subseteq Client /\ subscribing' = None /\ waitsOn' \in [Client -> Client \union {None}]
    BY <1>5, <1>t, Zenon DEF SubscribeAnswered
  <2>2. at' \in [Client -> Places]
    BY <1>5, <1>p, <1>t, Zenon DEF SubscribeAnswered
  <2>3. verdict' \in [Client -> Verdict]
    BY <1>5, <1>t, Zenon DEF SubscribeAnswered, Verdict
  <2>4. UNCHANGED <<awaiting, answer, toStation, toLink, registered, balked>>
    BY <1>5, Zenon DEF SubscribeAnswered, wire
  <2> QED
    BY <1>t, <2>1, <2>2, <2>3, <2>4, Zenon DEF LPType
<1>6. ASSUME NEW c \in Client, UnsubscribeDrops(c) PROVE LPType'
  <2>1. subs' \subseteq Client
    BY <1>6, <1>t, Zenon DEF UnsubscribeDrops
  <2>2. at' \in [Client -> Places]
    BY <1>6, <1>p, GotoType, Zenon DEF UnsubscribeDrops
  <2>4. UNCHANGED <<subscribing, awaiting, answer, verdict, waitsOn, toStation, toLink, registered, balked>>
    BY <1>6, Zenon DEF UnsubscribeDrops, wire
  <2> QED
    BY <1>t, <2>1, <2>2, <2>4, Zenon DEF LPType
<1>7. CASE Acknowledged
  <2>1. toLink' \in Seq(Acks) /\ awaiting' = None /\ answer' \in [Client -> Acks \union {None}]
    BY <1>7, <1>t DEF Acknowledged
  <2>4. UNCHANGED <<subs, subscribing, at, verdict, waitsOn, toStation, registered, balked>>
    BY <1>7, Zenon DEF Acknowledged, client
  <2> QED
    BY <1>t, <2>1, <2>4, Zenon DEF LPType
<1>8. CASE LinkFails
  BY <1>8, Zenon DEF LinkFails, LPType, client, wire
<1>9. CASE closeSubscriptions
  <2>1. subs' = {} /\ at' \in [Client -> Places]
    BY <1>9, <1>p, <1>t, Zenon DEF closeSubscriptions
  <2>3. subs' \subseteq Client
    BY <2>1, Zenon
  <2>4. UNCHANGED <<subscribing, awaiting, answer, verdict, waitsOn, toStation, toLink, registered, balked>>
    BY <1>9, Zenon DEF closeSubscriptions, wire
  <2> QED
    BY <1>t, <2>1, <2>3, <2>4, Zenon DEF LPType
<1>10. CASE ConnectionDone
  <2>1. toStation' = <<>> /\ toLink' = <<>> /\ registered' = FALSE
    BY <1>10, Zenon DEF ConnectionDone
  <2>2. toStation' \in Seq(Frame) /\ toLink' \in Seq(Acks)
    BY <2>1
  <2>3. registered' \in BOOLEAN
    BY <2>1, Zenon
  <2>4. UNCHANGED <<subs, subscribing, awaiting, answer, at, verdict, waitsOn, balked>>
    BY <1>10, Zenon DEF ConnectionDone, client
  <2> QED
    BY <1>t, <2>2, <2>3, <2>4, Zenon DEF LPType
<1>11. ASSUME NEW judged \in {"accepted", "refused", "silent"}, StationSubscribed(judged) PROVE LPType'
  <2>1. toStation' \in Seq(Frame)
    BY <1>11, <1>t DEF StationSubscribed
  <2>2. toLink' \in Seq(Acks)
    <3>1. toLink' = toLink \/ (judged # "silent" /\ toLink' = Append(toLink, judged))
      BY <1>11, Zenon DEF StationSubscribed
    <3> QED
      <4>1. judged # "silent" => judged \in Acks
        BY <1>11, Zenon DEF Acks
      <4>2. toLink \in Seq(Acks)
        BY <1>t, Zenon
      <4> QED
        BY <3>1, <4>1, <4>2
  <2>3. registered' \in BOOLEAN /\ balked' \in BOOLEAN
    BY <1>11, Zenon DEF StationSubscribed
  <2>4. UNCHANGED <<subs, subscribing, awaiting, answer, at, verdict, waitsOn>>
    BY <1>11, Zenon DEF StationSubscribed, client
  <2> QED
    BY <1>t, <2>1, <2>2, <2>3, <2>4, Zenon DEF LPType
<1>12. CASE UNCHANGED lvars
  BY <1>12, Zenon DEF lvars, client, wire, LPType
<1> QED
  BY <1>1, <1>e, <1>2, <1>3, <1>4, <1>5, <1>6, <1>7, <1>8, <1>9, <1>10, <1>11, <1>12, Zenon DEF LNext, ClientStep

-----------------------------------------------------------------------------
\* A step that leaves the clients and the subscriptions as they are.
LEMMA SharedQuiet ==
  ASSUME Shared, UNCHANGED <<at, subs, subscribing, waitsOn>>
  PROVE  Shared'
BY Zenon DEF Shared

\* A step of one client, from one place to another, of which neither or both
\* hold a subscription and neither or both subscribe.
LEMMA SharedGoto ==
  ASSUME LPType, Shared, NEW c \in Client, NEW place \in Places, Goto(c, place),
         UNCHANGED <<subs, subscribing, waitsOn>>,
         \/ at[c] \in Subscribing /\ place \in Subscribing
         \/ at[c] = "unsub" /\ place = "idle"
  PROVE  Shared'
BY Zenon DEF Shared, LPType, Goto, Subscribing, Places

\* While the link is up, no step parts the subscribers from their topic's entry.
LEMMA SharedStep ==
  ASSUME LPType, Shared, [LNext]_lvars, linkAt = "up", linkAt' = "up"
  PROVE  Shared'
<1>t. /\ at \in [Client -> Places] /\ subs \subseteq Client /\ waitsOn \in [Client -> Client \union {None}]
      /\ subscribing \in Client \union {None}
  BY Zenon DEF LPType
<1>1. ASSUME NEW c \in Client, Subscribe(c) PROVE Shared'
  <2>1. at[c] = "idle" /\ subs' = subs \union {c}
    BY <1>1, Zenon DEF Subscribe
  <2>2. CASE subs = {} /\ subscribing' = c /\ Goto(c, "send") /\ UNCHANGED waitsOn
    <3>1. \A d \in Client : at[d] \in {"idle", "unsub"}
      BY <2>2, Zenon DEF Shared
    <3> QED
      BY <1>t, <2>1, <2>2, <3>1, Zenon DEF Shared, Goto, Subscribing
  <2>3. CASE /\ subscribing # None /\ Goto(c, "wait") /\ UNCHANGED subscribing
             /\ waitsOn' = [waitsOn EXCEPT ![c] = subscribing]
    BY <1>t, <2>1, <2>3, Zenon DEF Shared, Goto, Subscribing
  <2>4. CASE subscribing = None /\ Goto(c, "held") /\ UNCHANGED <<subscribing, waitsOn>>
    BY <1>t, <2>1, <2>4, Zenon DEF Shared, Goto, Subscribing
  <2> QED
    BY <1>1, <2>2, <2>3, <2>4, Zenon DEF Subscribe
<1>e. ASSUME NEW c \in Client, Expects(c) PROVE Shared'
  <2>1. at[c] = "send" /\ UNCHANGED <<subs, subscribing, waitsOn>> /\ Goto(c, "write")
    BY <1>e, Zenon DEF Expects
  <2> QED
    BY <2>1, SharedGoto, Zenon DEF Subscribing, Places
<1>2. ASSUME NEW c \in Client, SubscribeSends(c) PROVE Shared'
  <2>1. /\ at[c] = "write" /\ UNCHANGED <<subs, subscribing, waitsOn>>
        /\ Goto(c, "settle") \/ Goto(c, "verdict")
    BY <1>2, Zenon DEF SubscribeSends
  <2> QED
    BY <2>1, SharedGoto, Zenon DEF Subscribing, Places
<1>3. ASSUME NEW c \in Client, NEW v \in Verdict, ReturnsVerdict(c, v) PROVE Shared'
  <2>1. /\ at[c] = "verdict" /\ UNCHANGED <<subs, subscribing, waitsOn>>
        /\ Goto(c, "settle") \/ Goto(c, "withdraw")
    BY <1>3, Zenon DEF ReturnsVerdict
  <2> QED
    BY <2>1, SharedGoto, Zenon DEF Subscribing, Places
<1>4. ASSUME NEW c \in Client, Withdraws(c) \/ UnsubscribeSends(c) PROVE Shared'
  <2>1. /\ UNCHANGED <<subs, subscribing, waitsOn>>
        /\ (at[c] = "withdraw" /\ Goto(c, "settle")) \/ (at[c] = "unsub" /\ Goto(c, "idle"))
    BY <1>4, Zenon DEF Withdraws, UnsubscribeSends
  <2> QED
    BY <2>1, SharedGoto, Zenon DEF Subscribing, Places
<1>5. ASSUME NEW c \in Client, SubscribeAnswered(c) PROVE Shared'
  <2> DEFINE returned == IF verdict[c] = "nil" THEN "held" ELSE "idle"
  <2>1. /\ at[c] = "settle" /\ subscribing' = None
        /\ subs' = IF verdict[c] = "nil" THEN subs ELSE {}
        /\ at' = [d \in Client |-> IF d = c \/ (at[d] = "wait" /\ waitsOn[d] = c) THEN returned ELSE at[d]]
    BY <1>5, Zenon DEF SubscribeAnswered
  <2>2. subscribing = c /\ \A d \in Client : at[d] \in Subscribing => d = c
    BY <2>1, Zenon DEF Shared, Subscribing
  <2>3. c # None
    BY ClientsNamed, Zenon
  <2>4. \A d \in Client : at[d] = "wait" => waitsOn[d] = c
    BY <2>2, Zenon DEF Shared
  <2>5. \A d \in Client : at[d] # "held"
    BY <2>2, <2>3, Zenon DEF Shared
  <2>6. \A d \in Client : at'[d] = IF at[d] \in {"idle", "unsub"} THEN at[d] ELSE returned
    BY <2>1, <2>2, <2>4, <2>5, <1>t, Zenon DEF Places
  <2>7. \A d \in Client : d \in subs' <=> at'[d] \notin {"idle", "unsub"}
    BY <2>1, <2>6, Zenon DEF Shared
  <2>8. \A d \in Client : at'[d] \in {"idle", "unsub", "held"}
    BY <2>6, Zenon
  <2>9. subs' \subseteq Client
    BY <2>1, <1>t, Zenon
  <2> QED
    BY <2>1, <2>3, <2>7, <2>8, <2>9, ClientsNamed, Zenon DEF Shared, Subscribing
<1>6. ASSUME NEW c \in Client, UnsubscribeDrops(c) PROVE Shared'
  <2>1. /\ at[c] = "held" /\ subs' = subs \ {c} /\ UNCHANGED <<subscribing, waitsOn>>
        /\ Goto(c, "unsub") \/ Goto(c, "idle")
    BY <1>6, Zenon DEF UnsubscribeDrops
  <2> QED
    BY <1>t, <2>1, ClientsNamed, Zenon DEF Shared, Goto, Subscribing
<1>7. CASE Acknowledged
  BY <1>7, SharedQuiet, Zenon DEF Acknowledged, client
<1>8. CASE LinkFails \/ closeSubscriptions \/ ConnectionDone
  BY <1>8, Zenon DEF LinkFails, closeSubscriptions, ConnectionDone
<1>9. ASSUME NEW judged, StationSubscribed(judged) PROVE Shared'
  BY <1>9, SharedQuiet, Zenon DEF StationSubscribed, client
<1>10. CASE UNCHANGED lvars
  BY <1>10, SharedQuiet, Zenon DEF lvars, client
<1> QED
  BY <1>1, <1>e, <1>2, <1>3, <1>4, <1>5, <1>6, <1>7, <1>8, <1>9, <1>10, Zenon DEF LNext, ClientStep

-----------------------------------------------------------------------------
\* A step that leaves the wire alone and lets no client forget the registration.
LEMMA MindedQuiet ==
  ASSUME Minded, UNCHANGED <<toStation, registered, toLink>>,
         \A c \in Client : answer'[c] # "refused",
         \A c \in Client : Minds(c) => Minds(c)'
  PROVE  Minded'
<1>1. WillHold' <=> WillHold
  BY Zenon DEF WillHold
<1>2. WillHold' => \E c \in Client : Minds(c)'
  BY <1>1, Zenon DEF Minded
<1>3. \A i \in 1..Len(toLink') : toLink'[i] # "refused"
  BY Zenon DEF Minded
<1> QED
  BY <1>2, <1>3, Zenon DEF Minded

\* An UNSUBSCRIBE that is sent is the last of what the station will read.
LEMMA MindedWithdrawn ==
  ASSUME LPType, Minded, linkAt = "up", sendControl("unsubscribe"), UNCHANGED <<toLink, answer>>
  PROVE  Minded'
<1>1. toStation \in Seq(Frame) /\ toStation' = Append(toStation, "unsubscribe")
  BY Zenon DEF LPType, sendControl
<1>2. toStation' # <<>> /\ toStation'[Len(toStation')] = "unsubscribe"
  BY <1>1 DEF Frame
<1>3. ~WillHold'
  BY <1>2, Zenon DEF WillHold
<1> QED
  BY <1>3, Zenon DEF Minded

\* While the link is up and took all its control frames, no step leaves an entry unminded.
LEMMA MindedStep ==
  ASSUME LPType, Shared, Minded, [LNext]_lvars, linkAt = "up", linkAt' = "up", ~balked'
  PROVE  Minded'
<1>t. /\ at \in [Client -> Places] /\ verdict \in [Client -> Verdict] /\ answer \in [Client -> Acks \union {None}]
      /\ awaiting \in Client \union {None} /\ toStation \in Seq(Frame) /\ toLink \in Seq(Acks)
  BY Zenon DEF LPType
<1>a. \A c \in Client : answer[c] # "refused"
  BY Zenon DEF Minded
<1>1. ASSUME NEW c \in Client, Subscribe(c) PROVE Minded'
  <2>1. at[c] = "idle" /\ \A d \in Client : d # c => at'[d] = at[d]
    BY <1>1, <1>t, Zenon DEF Subscribe, Goto
  <2>2. UNCHANGED <<verdict, answer, toStation, registered, toLink>>
    BY <1>1, Zenon DEF Subscribe, wire
  <2>3. \A d \in Client : Minds(d) => Minds(d)'
    BY <2>1, <2>2, Zenon DEF Minds
  <2> QED
    BY <1>a, <2>2, <2>3, MindedQuiet, Zenon
<1>e. ASSUME NEW c \in Client, Expects(c) PROVE Minded'
  <2>1. at[c] = "send" /\ Goto(c, "write") /\ UNCHANGED <<verdict, answer, toStation, registered, toLink>>
    BY <1>e, Zenon DEF Expects, wire
  <2>2. \A d \in Client : Minds(d) => Minds(d)'
    BY <1>t, <2>1, Zenon DEF Minds, Goto
  <2> QED
    BY <1>a, <2>1, <2>2, MindedQuiet, Zenon
<1>2. ASSUME NEW c \in Client, SubscribeSends(c) PROVE Minded'
  <2>1. Goto(c, "verdict") /\ UNCHANGED <<answer, toLink>>
    BY <1>2, Zenon DEF SubscribeSends
  <2>2. Minds(c)'
    BY <1>t, <2>1, Zenon DEF Goto, Minds
  <2> QED
    BY <2>1, <2>2, Zenon DEF Minded
<1>3. ASSUME NEW c \in Client, NEW v \in Verdict, ReturnsVerdict(c, v) PROVE Minded'
  <2>1. /\ at[c] = "verdict" /\ verdict' = [verdict EXCEPT ![c] = v]
        /\ answer' = [answer EXCEPT ![c] = None]
        /\ Goto(c, IF v = "silent" THEN "withdraw" ELSE "settle")
        /\ UNCHANGED <<toStation, registered, toLink>>
    BY <1>3, Zenon DEF ReturnsVerdict, wire
  <2>2. v \in {"nil", "silent"}
    BY <1>3, <1>a, Zenon DEF ReturnsVerdict, Verdict
  <2>3. \A d \in Client : Minds(d) => Minds(d)'
    BY <1>t, <2>1, <2>2, Zenon DEF Minds, Goto
  <2>4. \A d \in Client : answer'[d] # "refused"
    BY <1>t, <1>a, <2>1, Zenon DEF None
  <2> QED
    BY <2>1, <2>3, <2>4, MindedQuiet, Zenon
<1>4. ASSUME NEW c \in Client, Withdraws(c) \/ UnsubscribeSends(c) PROVE Minded'
  BY <1>4, MindedWithdrawn, Zenon DEF Withdraws, UnsubscribeSends
<1>5. ASSUME NEW c \in Client, SubscribeAnswered(c) PROVE Minded'
  <2>1. /\ at[c] = "settle" /\ verdict' = [verdict EXCEPT ![c] = "nil"]
        /\ at' = [d \in Client |-> IF d = c \/ (at[d] = "wait" /\ waitsOn[d] = c)
                                   THEN IF verdict[c] = "nil" THEN "held" ELSE "idle" ELSE at[d]]
        /\ UNCHANGED <<answer, toStation, registered, toLink>>
    BY <1>5, Zenon DEF SubscribeAnswered, wire
  <2>2. \A d \in Client : Minds(d) => Minds(d)'
    BY <1>t, <2>1, Zenon DEF Minds
  <2> QED
    BY <1>a, <2>1, <2>2, MindedQuiet, Zenon
<1>6. ASSUME NEW c \in Client, UnsubscribeDrops(c) PROVE Minded'
  <2>1. /\ at[c] = "held" /\ Goto(c, IF subs \ {c} = {} THEN "unsub" ELSE "idle")
        /\ UNCHANGED <<subscribing, verdict, answer, toStation, registered, toLink>>
    BY <1>6, Zenon DEF UnsubscribeDrops, wire
  <2>2. CASE subs \ {c} = {}
    <3>1. \A d \in Client : Minds(d) => Minds(d)'
      BY <1>t, <2>1, <2>2, Zenon DEF Minds, Goto
    <3> QED
      BY <1>a, <2>1, <3>1, MindedQuiet, Zenon
  <2>3. CASE subs \ {c} # {}
    <3>1. PICK d \in subs : d # c
      BY <2>3, Zenon
    <3>2. subscribing = None
      BY <2>1, Zenon DEF Shared
    <3>3. d \in Client /\ at[d] = "held"
      BY <3>1, <3>2, <1>t, ClientsNamed, Zenon DEF Shared, Places
    <3>4. at'[d] = "held"
      BY <1>t, <2>1, <3>1, <3>3, Zenon DEF Goto
    <3>5. \E e \in Client : Minds(e)'
      BY <3>3, <3>4, Zenon DEF Minds
    <3> QED
      BY <2>1, <3>5, Zenon DEF Minded
  <2> QED
    BY <2>2, <2>3, Zenon
<1>7. CASE Acknowledged
  <2>1. /\ toLink # <<>> /\ toLink' = Tail(toLink) /\ UNCHANGED <<at, verdict, toStation, registered>>
        /\ answer' = IF awaiting = None THEN answer ELSE [answer EXCEPT ![awaiting] = Head(toLink)]
    BY <1>7, Zenon DEF Acknowledged, client
  <2>2. \A i \in 1..Len(toLink) : toLink[i] # "refused"
    BY Zenon DEF Minded
  <2>3. Head(toLink) # "refused" /\ \A i \in 1..Len(toLink') : toLink'[i] # "refused"
    BY <1>t, <2>1, <2>2
  <2>4. \A c \in Client : answer'[c] # "refused"
    BY <1>t, <1>a, <2>1, <2>3, Zenon
  <2>5. WillHold' => \E c \in Client : Minds(c)'
    BY <2>1, Zenon DEF WillHold, Minded, Minds
  <2> QED
    BY <2>3, <2>4, <2>5, Zenon DEF Minded
<1>8. CASE LinkFails \/ closeSubscriptions \/ ConnectionDone
  BY <1>8, Zenon DEF LinkFails, closeSubscriptions, ConnectionDone
<1>9. ASSUME NEW judged \in {"accepted", "refused", "silent"}, StationSubscribed(judged) PROVE Minded'
  <2>1. /\ toStation # <<>> /\ toStation' = Tail(toStation) /\ UNCHANGED <<at, verdict, answer>>
    BY <1>9, Zenon DEF StationSubscribed, client
  <2>2. \/ /\ Head(toStation) = "subscribe" /\ judged # "refused"
           /\ toLink' = toLink \/ toLink' = Append(toLink, "accepted")
        \/ Head(toStation) = "unsubscribe" /\ ~registered' /\ toLink' = toLink
    BY <1>9, Zenon DEF StationSubscribed
  <2>3. \A i \in 1..Len(toLink') : toLink'[i] # "refused"
    <3>1. \A i \in 1..Len(toLink) : toLink[i] # "refused"
      BY Zenon DEF Minded
    <3>2. CASE toLink' = toLink
      BY <3>1, <3>2, Zenon
    <3>3. CASE toLink' = Append(toLink, "accepted")
      BY <1>t, <3>1, <3>3
    <3> QED
      BY <2>2, <3>2, <3>3, Zenon
  <2>4. WillHold' => WillHold
    <3>1. CASE toStation' = <<>>
      <4>1. Len(toStation) = 1 /\ toStation[Len(toStation)] = Head(toStation)
        <5>1. Len(toStation') = 0
          BY <3>1, Zenon
        <5>2. Len(toStation) \in Nat /\ Len(toStation) # 0 /\ Len(toStation') = Len(toStation) - 1
          BY <1>t, <2>1
        <5>3. Len(toStation) = 1
          BY <5>1, <5>2
        <5>4. toStation[1] = Head(toStation)
          BY <1>t, <2>1
        <5> QED
          BY <5>3, <5>4, Zenon
      <4>a. Head(toStation) = "unsubscribe" => ~registered'
        BY <2>2, Zenon
      <4>2. Head(toStation) = "unsubscribe" => ~WillHold'
        BY <4>a, <3>1, Zenon DEF WillHold
      <4>3. Head(toStation) = "subscribe" => WillHold
        BY <2>1, <4>1, Zenon DEF WillHold
      <4> QED
        BY <2>2, <4>2, <4>3, Zenon
    <3>2. CASE toStation' # <<>>
      <4>1. toStation'[Len(toStation')] = toStation[Len(toStation)]
        BY <1>t, <2>1, <3>2
      <4> QED
        BY <2>1, <3>2, <4>1, Zenon DEF WillHold
    <3> QED
      BY <3>1, <3>2, Zenon
  <2>5. WillHold' => \E c \in Client : Minds(c)'
    BY <2>1, <2>4, Zenon DEF Minded, Minds
  <2> QED
    BY <1>a, <2>1, <2>3, <2>5, Zenon DEF Minded
<1>10. CASE UNCHANGED lvars
  <2>1. UNCHANGED <<at, verdict, answer, toStation, registered, toLink>>
    BY <1>10, Zenon DEF lvars, client, wire
  <2>2. \A d \in Client : Minds(d) => Minds(d)'
    BY <2>1, Zenon DEF Minds
  <2> QED
    BY <1>a, <2>1, <2>2, MindedQuiet, Zenon
<1> QED
  BY <1>1, <1>e, <1>2, <1>3, <1>4, <1>5, <1>6, <1>7, <1>8, <1>9, <1>10, Zenon DEF LNext, ClientStep

-----------------------------------------------------------------------------
\* The initial states satisfy the invariant.
LEMMA TopicInit == LInit => TopicInv
<1> SUFFICES ASSUME LInit PROVE TopicInv
  BY Zenon
<1>1. /\ at = [c \in Client |-> "idle"] /\ subs = {} /\ subscribing = None /\ answer = [c \in Client |-> None]
      /\ toStation = <<>> /\ toLink = <<>> /\ ~registered
  BY Zenon DEF LInit
<1>2. Shared
  BY <1>1, ClientsNamed, Zenon DEF Shared, Subscribing
<1>3. ~WillHold
  BY <1>1, Zenon DEF WillHold
<1>4. Minded
  BY <1>1, <1>3 DEF Minded, None
<1> QED
  BY <1>2, <1>4, TypeInit, Zenon DEF TopicInv

\* Every step keeps the invariant.
LEMMA TopicStep == TopicInv /\ [LNext]_lvars => TopicInv'
<1> SUFFICES ASSUME TopicInv, [LNext]_lvars PROVE TopicInv'
  BY Zenon
<1>1. LPType'
  BY TypeStep, Zenon DEF TopicInv
<1>2. linkAt' = "up" => linkAt = "up"
  BY Zenon DEF LNext, ClientStep, lvars, client, wire, Subscribe, Expects, SubscribeSends, ReturnsVerdict, Withdraws, SubscribeAnswered,
         UnsubscribeDrops, UnsubscribeSends, Acknowledged, LinkFails, closeSubscriptions, ConnectionDone, StationSubscribed
<1>3. balked => balked'
  BY Zenon
     DEF LNext, ClientStep, lvars, client, wire, Subscribe, Expects, SubscribeSends, ReturnsVerdict, Withdraws, SubscribeAnswered,
         UnsubscribeDrops, UnsubscribeSends, Acknowledged, LinkFails, closeSubscriptions, ConnectionDone, StationSubscribed
<1>4. linkAt' = "up" => Shared'
  BY <1>2, SharedStep, Zenon DEF TopicInv
<1>5. linkAt' = "up" /\ ~balked' => Minded'
  BY <1>2, <1>3, MindedStep, Zenon DEF TopicInv
<1> QED
  BY <1>1, <1>4, <1>5, Zenon DEF TopicInv

\* A subscription Subscribe returned on a link that is up is one the link routes
\* to, for any number of clients and calls: refused and unanswered SUBSCRIBEs take
\* only the subscriptions that waited on them.
THEOREM SubscriptionsStay == LSpec => []HeldIsRouted
<1>1. TopicInv => HeldIsRouted
  BY Zenon DEF TopicInv, Shared, HeldIsRouted
<1> QED
  BY TopicInit, TopicStep, <1>1, PTL DEF LSpec

\* A registration is not left at the station, for any number of clients and calls,
\* until the station refuses a SUBSCRIBE or does not apply an UNSUBSCRIBE.
THEOREM RegistrationsGo == LSpec => []NoLingering
<1>1. TopicInv => NoLingering
  <2> SUFFICES ASSUME TopicInv, Quiet, subs = {}, ~balked, registered PROVE FALSE
    BY Zenon DEF NoLingering
  <2>1. WillHold /\ Shared /\ Minded
    BY Zenon DEF Quiet, TopicInv, WillHold
  <2>2. PICK c \in Client : Minds(c)
    BY <2>1, Zenon DEF Minded
  <2>3. at[c] = "held"
    BY <2>2, Zenon DEF Quiet, Minds
  <2> QED
    BY <2>1, <2>3, Zenon DEF Shared
<1> QED
  BY TopicInit, TopicStep, <1>1, PTL DEF LSpec
-----------------------------------------------------------------------------
LLType ==
    /\ nonce \in Nat /\ misses \in Nat
    /\ flying \in SUBSET Nat
    /\ onTime \in SUBSET Nat /\ spoilt \in SUBSET Nat
    /\ pongs \in Nat
    /\ probe \in {"idle", "drain", "wait", "due", "stopped"}

\* Probe k was left unanswered in time, or its answer was spoilt.
Excused(k) == k \notin onTime \ spoilt

\* The inductive invariant.  From when a probe emptied the channel, what is in it
\* came after that, and spoils the probe if it is another's.  So the answer of
\* one that is not spoilt found room, and lies there until its probe reads it.
MissInv ==
    /\ LLType
    /\ \A k \in Nat : k \in flying \union onTime => 1 <= k /\ k <= nonce
    /\ probe = "drain" /\ pongs # 0 => nonce + 1 \in spoilt
    /\ probe \in {"wait", "due"} => nonce >= 1
    /\ probe = "wait" /\ nonce \notin spoilt => pongs = IF nonce \in onTime THEN nonce ELSE 0
    /\ probe = "due" => Excused(nonce)
    /\ probe \in {"idle", "drain"} => misses <= 1
    /\ probe \in {"idle", "drain"} /\ misses = 1 => nonce >= 1 /\ Excused(nonce)
    /\ probe \in {"wait", "due"} => misses <= 1
    /\ probe \in {"wait", "due"} /\ misses = 1 => nonce >= 2 /\ Excused(nonce - 1)
    /\ endReason = "liveness_lost" =>
           probe = "stopped" /\ nonce >= 2 /\ Excused(nonce) /\ Excused(nonce - 1)

\* The initial states satisfy the invariant.
LEMMA MissInit == LLInit => MissInv
<1> SUFFICES ASSUME LLInit PROVE MissInv
  BY Zenon
<1>1. /\ endReason = "none" /\ probe = "idle" /\ nonce = 0 /\ pongs = 0 /\ flying = {} /\ misses = 0
      /\ onTime = {} /\ spoilt = {}
  BY Zenon DEF LLInit
<1> QED
  BY <1>1 DEF MissInv, LLType, Excused

\* Every step keeps the invariant.
LEMMA MissStep == MissInv /\ [LLNext]_llvars => MissInv'
<1> SUFFICES ASSUME MissInv, [LLNext]_llvars PROVE MissInv'
  BY Zenon
<1> USE DEF MissInv, LLType, Excused
<1>1. CASE ProbeTick
  BY <1>1, Zenon DEF ProbeTick
<1>2. CASE ProbePings
  <2>1. /\ nonce' = nonce + 1 /\ flying' = flying \union {nonce'} /\ probe = "drain" /\ probe' = "wait"
        /\ UNCHANGED <<endReason, pongs, misses, onTime, spoilt>>
    BY <1>2, Zenon DEF ProbePings
  <2>2. LLType'
    BY <2>1
  <2>3. nonce' \notin onTime'
    BY <2>1
  <2> QED
    BY <2>1, <2>2, <2>3
<1>3. CASE ProbeUnsent
  BY <1>3 DEF ProbeUnsent
<1>4. ASSUME NEW n \in flying, PongArrives(n) PROVE MissInv'
  <2>1. /\ endReason = "none" /\ flying' = {k \in flying : k > n} /\ n \in 1 .. nonce
        /\ pongs' = IF pongs = 0 THEN n ELSE pongs
        /\ onTime' = IF probe = "wait" /\ n = nonce THEN onTime \union {n} ELSE onTime
        /\ spoilt' = CASE probe = "drain" -> spoilt \union {nonce + 1}
                       [] probe = "wait" /\ n # nonce -> spoilt \union {nonce}
                       [] OTHER -> spoilt
        /\ UNCHANGED <<endReason, probe, nonce, misses>>
    BY <1>4 DEF PongArrives
  <2>2. CASE probe = "wait" /\ n = nonce
    <3>1. onTime' = onTime \union {nonce} /\ spoilt' = spoilt
      BY <2>1, <2>2
    <3>2. LLType'
      BY <2>1, <3>1
    <3>3. nonce \notin spoilt => pongs' = nonce
      BY <2>1, <2>2
    <3>4. misses = 1 => nonce >= 2 /\ Excused(nonce - 1)'
      BY <2>1, <2>2, <3>1
    <3> QED
      BY <2>1, <2>2, <3>1, <3>2, <3>3, <3>4
  <2>3. CASE probe = "wait" /\ n # nonce
    <3>1. onTime' = onTime /\ spoilt' = spoilt \union {nonce}
      BY <2>1, <2>3
    <3>2. LLType'
      BY <2>1, <3>1
    <3> QED
      BY <2>1, <2>3, <3>1, <3>2
  <2>4. CASE probe = "drain"
    <3>1. onTime' = onTime /\ spoilt' = spoilt \union {nonce + 1}
      BY <2>1, <2>4
    <3>2. LLType'
      BY <2>1, <3>1
    <3> QED
      BY <2>1, <2>4, <3>1, <3>2
  <2>5. CASE probe \notin {"wait", "drain"}
    <3>1. onTime' = onTime /\ spoilt' = spoilt
      BY <2>1, <2>5
    <3>2. LLType'
      BY <2>1, <3>1
    <3> QED
      BY <2>1, <2>5, <3>1, <3>2
  <2> QED
    BY <2>2, <2>3, <2>4, <2>5, Zenon
<1>5. CASE ProbeReads
  <2>1. CASE pongs = nonce
    BY <1>5, <2>1 DEF ProbeReads, Outcome, missesAfter, end
  <2>2. CASE pongs # nonce
    <3>1. /\ probe \in {"wait", "due"} /\ pongs # 0 /\ pongs' = 0
          /\ UNCHANGED <<endReason, probe, misses, nonce, flying, onTime, spoilt>>
      BY <1>5, <2>2, Zenon DEF ProbeReads
    <3>2. probe = "wait" => nonce \in spoilt
      BY <2>2, <3>1, Zenon
    <3> QED
      BY <3>1, <3>2
  <2> QED
    BY <2>1, <2>2, Zenon
<1>6. CASE DeadlineFires
  <2>1. /\ probe = "wait" /\ probe' = "due"
        /\ spoilt' = IF pongs = nonce THEN spoilt \union {nonce} ELSE spoilt
        /\ UNCHANGED <<endReason, nonce, pongs, flying, misses, onTime>>
    BY <1>6, Zenon DEF DeadlineFires
  <2>2. spoilt \subseteq spoilt' /\ spoilt' \in SUBSET Nat
    BY <2>1
  <2>3. Excused(nonce)'
    BY <2>1, Zenon
  <2> QED
    BY <2>1, <2>2, <2>3
<1>7. CASE ProbeTimesOut
  <2>1. /\ probe = "due" /\ misses' = misses + 1
        /\ UNCHANGED <<nonce, pongs, flying, onTime, spoilt>>
        /\ IF misses' >= 2 THEN end("liveness_lost") /\ probe' = "stopped" ELSE UNCHANGED endReason /\ probe' = "idle"
    BY <1>7, Zenon DEF ProbeTimesOut, Outcome, missesAfter
  <2> QED
    BY <2>1 DEF end
<1>8. CASE ProbeStops
  BY <1>8, Zenon DEF ProbeStops
<1>9. ASSUME NEW why \in {"malformed_frame", "goodbye", "status_expired", "binding_expired", "connection_lost",
                          "closed_by_station", "idle_timeout", "closed"},
             endReason = "none", endReason' = why, UNCHANGED <<probe, nonce, pongs, flying, misses, onTime, spoilt>>
      PROVE  MissInv'
  BY <1>9, Zenon
<1>10. ASSUME NEW frame \in {"malformed", "bad_status", "bad_ack", "bad_goodbye", "goodbye"}, Read(frame)
      PROVE  MissInv'
  BY <1>9, <1>10, Zenon DEF Read, end, received
<1>11. ASSUME NEW why \in {"status_expired", "binding_expired", "connection_lost", "closed_by_station", "idle_timeout"},
              EndsItself(why)
       PROVE  MissInv'
  BY <1>9, <1>11, Zenon DEF EndsItself, end
<1>12. CASE CloseBegins
  BY <1>12, Zenon DEF CloseBegins
<1>13. CASE CloseEnds
  BY <1>9, <1>13, Zenon DEF CloseEnds, end
<1>14. CASE UNCHANGED llvars
  BY <1>14, Zenon DEF llvars
<1> QED
  BY <1>1, <1>2, <1>3, <1>4, <1>5, <1>6, <1>7, <1>8, <1>10, <1>11, <1>12, <1>13, <1>14, Zenon DEF LLNext

\* The invariant says why a link was lost.
LEMMA MissExcused == MissInv => LostOnlyUnanswered
  BY Zenon DEF MissInv, LLType, Excused, LostOnlyUnanswered

\* A link is lost to liveness only after two probes in a row that were each not
\* answered in time, or answered behind an older pong or together with the deadline,
\* however many probes it sent (probe, probeOnce and liveness of stationlink).
THEOREM LossesAreExcused == LLSpec => []LostOnlyUnanswered
<1>1. LLInit => MissInv
  BY MissInit, Zenon
<1>2. MissInv /\ [LLNext]_llvars => MissInv'
  BY MissStep, Zenon
<1>3. MissInv => LostOnlyUnanswered
  BY MissExcused, Zenon
<1> QED
  BY <1>1, <1>2, <1>3, PTL DEF LLSpec

-----------------------------------------------------------------------------
(* A caller's stream *)

\* Sequences of one length with the same elements are the same.
LEMMA SameFrames ==
    ASSUME NEW S, NEW a \in Seq(S), NEW b \in Seq(S), Len(a) = Len(b), \A i \in 1..Len(a) : a[i] = b[i]
    PROVE  a = b
<1>1. a = [i \in 1..Len(a) |-> a[i]] /\ b = [i \in 1..Len(b) |-> b[i]]
  OBVIOUS
<1> DEFINE f == [i \in 1..Len(a) |-> a[i]]
           g == [i \in 1..Len(a) |-> b[i]]
<1>2. f = g
  BY Zenon
<1> QED
  BY <1>1, <1>2, Zenon

Sent == {"data", "end", "error"}
WireFrame == [what : Sent, seq : Nat, keys : 0..3]

StreamType ==
    /\ session \in Session /\ keys \in {0, session} /\ adopted \in {0, 2}
    /\ sendSeq \in Nat /\ wires \in [Session -> Seq(WireFrame)]
    /\ asked \in Seq(Sent) /\ retained \in Seq(Sent) /\ replay \in Seq(Sent)
    /\ sending \in [what : Sent \union {"none"}, seq : Nat, keys : 0..3]
    /\ sendMu \in {"none", "owner", "adoption", "reseal"}

\* How the sessions follow each other: a clear stream is on its first and keeps
\* its copy only there, an adoption opens the second, a reseal is the last.
SessionInv ==
    /\ keys = 0 => session = 1 /\ adopted = 0
    /\ retains => keys = 0
    /\ adopted # 0 => session # 1
    /\ session = 3 => call = "none"
    /\ (session = 2 /\ adopted = 0) => call = "none"
    /\ reading = "opening" => sendMu \in {"adoption", "reseal"}
    /\ sendMu = "reseal" => reading = "opening" /\ session # 3 /\ call = "none" /\ sendSeq = 0 /\ keys # 0
    /\ (sendMu = "adoption" /\ reading = "opening") => keys = 0
    /\ (sendMu = "adoption" /\ reading # "opening") => adopted = session
    /\ sendMu = "adoption" => ~retains

\* The frames on the wires, and the one about to be.
WireInv ==
    /\ sendSeq = Len(wires[session])
    /\ \A s \in Session : s > session => wires[s] = <<>>
    /\ sendMu = "owner" => sending.seq = sendSeq /\ sending.keys = keys /\ sending.what # "none"
    /\ \A s \in Session : \A i \in DOMAIN wires[s] :
          wires[s][i].seq = i - 1 /\ wires[s][i].keys = SealedUnder(wires[s][i].what, SealedOn(s))

\* What the owner asked for: in the copy of a clear stream, then on the wire of
\* the session adopted or in what is left to replay on it.
Carries(w) ==
    /\ Len(w) <= Len(asked) /\ \A i \in 1..Len(w) : w[i].what = asked[i]
    /\ sendMu = "adoption" => Len(asked) = Len(w) + Len(replay) /\ \A i \in 1..Len(replay) : replay[i] = asked[Len(w) + i]
    /\ sendMu = "owner" => Len(asked) = Len(w) + 1
    /\ (sendMu = "none" /\ ~ended) => Len(asked) = Len(w)

AskedInv ==
    /\ ended => sentEnd
    /\ sendMu = "owner" => Len(asked) > 0 /\ asked[Len(asked)] = sending.what
    /\ (retains /\ reading \in {"reads", "adopts"}) => retained = asked
    /\ (sendMu = "adoption" /\ reading = "opening") => replay = asked
    /\ session = adopted => Carries(wires[session])

StreamInv == StreamType /\ SessionInv /\ WireInv /\ AskedInv

\* A step that neither writes, nor asks, nor opens: it may end the stream, drop
\* the copy, drop the call and move the reader on.
LEMMA CalmKeeps ==
  ASSUME StreamInv,
         UNCHANGED <<session, keys, adopted, sendSeq, wires, asked, sending, sendMu, replay>>,
         call' = call \/ call' = "none",
         retains' => retains, retained' = retained \/ (~retains' /\ retained' = <<>>),
         (reading = "opening") <=> (reading' = "opening"),
         (retains' /\ reading' \in {"reads", "adopts"}) => reading \in {"reads", "adopts"},
         ended => ended', ended' => sentEnd'
  PROVE  StreamInv'
<1>1. StreamType'
  <2>1. <<>> \in Seq(Sent)
    OBVIOUS
  <2> QED
    BY <2>1, Zenon DEF StreamInv, StreamType
<1>2. SessionInv'
  BY Zenon DEF StreamInv, SessionInv
<1>3. WireInv'
  BY Zenon DEF StreamInv, WireInv, SealedOn
<1>4. AskedInv'
  <2>1. session = adopted => Carries(wires[session])'
    BY Zenon DEF StreamInv, AskedInv, Carries
  <2> QED
    BY <2>1, Zenon DEF StreamInv, AskedInv
<1> QED
  BY <1>1, <1>2, <1>3, <1>4, Zenon DEF StreamInv

\* The initial states satisfy the invariant.
LEMMA StreamInit == CSInit => StreamInv
<1> SUFFICES ASSUME CSInit PROVE StreamInv
  OBVIOUS
<1>1. /\ session = 1 /\ keys \in {0, 1} /\ retained = <<>> /\ sendSeq = 0 /\ sendMu = "none"
      /\ sending = [what |-> "none", seq |-> 0, keys |-> 0]
      /\ reading = "reads" /\ replay = <<>>
      /\ wires = [s \in Session |-> <<>>] /\ asked = <<>> /\ adopted = 0
  BY Zenon DEF CSInit
<1>2. (retains => keys = 0) /\ ended = FALSE
  BY Zenon DEF CSInit
<1>3. 1 \in Session /\ \A s \in Session : wires[s] = <<>>
  BY <1>1 DEF Session
<1>4. StreamType
  <2>1. <<>> \in Seq(Sent) /\ <<>> \in Seq(WireFrame)
    OBVIOUS
  <2>2. wires \in [Session -> Seq(WireFrame)]
    BY <1>1, <2>1
  <2>3. sending \in [what : Sent \union {"none"}, seq : Nat, keys : 0..3]
    BY <1>1
  <2> QED
    BY <1>1, <1>3, <2>1, <2>2, <2>3 DEF StreamType
<1>5. SessionInv
  BY <1>1, <1>2 DEF SessionInv
<1>6. WireInv
  BY <1>1, <1>3 DEF WireInv
<1>7. AskedInv
  BY <1>1, <1>2 DEF AskedInv
<1> QED
  BY <1>4, <1>5, <1>6, <1>7 DEF StreamInv

\* A frame written under the numbers and keys of now.
LEMMA WrittenKeeps ==
  ASSUME StreamInv, NEW what \in Sent, Written(what, sendSeq, keys), UNCHANGED <<session, keys, adopted>>
  PROVE  /\ sendSeq' \in Nat /\ wires' \in [Session -> Seq(WireFrame)]
         /\ sendSeq' = Len(wires'[session])
         /\ Len(wires'[session]) = Len(wires[session]) + 1
         /\ wires'[session][Len(wires[session]) + 1].what = what
         /\ \A i \in 1..Len(wires[session]) : wires'[session][i] = wires[session][i]
         /\ \A s \in Session : s > session => wires'[s] = <<>>
         /\ \A s \in Session : \A i \in DOMAIN wires'[s] :
              wires'[s][i].seq = i - 1 /\ wires'[s][i].keys = SealedUnder(wires'[s][i].what, SealedOn(s)')
<1> DEFINE f == [what |-> what, seq |-> sendSeq, keys |-> SealedUnder(what, keys)]
           w == wires[session]
<1>t. /\ session \in Session /\ keys \in {0, session} /\ sendSeq \in Nat
      /\ wires \in [Session -> Seq(WireFrame)] /\ w \in Seq(WireFrame) /\ Len(w) \in Nat /\ DOMAIN w = 1..Len(w)
  BY DEF StreamInv, StreamType
<1>1. wires' = [wires EXCEPT ![session] = Append(w, f)] /\ sendSeq' = sendSeq + 1
  BY Zenon DEF Written
<1>2. SealedUnder(what, keys) \in 0..3
  BY <1>t DEF SealedUnder, Session
<1>3. f \in WireFrame /\ f.what = what /\ f.seq = sendSeq /\ f.keys = SealedUnder(what, keys)
  BY <1>t, <1>2 DEF WireFrame
<1> HIDE DEF f
<1>4. /\ Append(w, f) \in Seq(WireFrame) /\ Len(Append(w, f)) = Len(w) + 1
      /\ DOMAIN Append(w, f) = 1..(Len(w) + 1)
      /\ Append(w, f)[Len(w) + 1] = f /\ \A i \in 1..Len(w) : Append(w, f)[i] = w[i]
  BY <1>t, <1>3
<1>5. wires'[session] = Append(w, f) /\ \A s \in Session : s # session => wires'[s] = wires[s]
  BY <1>1, <1>t
<1>6. wires' \in [Session -> Seq(WireFrame)]
  BY <1>1, <1>t, <1>4
<1>7. SealedOn(session) = keys /\ \A s \in Session : SealedOn(s)' = SealedOn(s)
  <2>1. /\ keys = 0 => session = 1 /\ adopted = 0
        /\ adopted # 0 => session # 1
    BY Zenon DEF StreamInv, SessionInv
  <2> QED
    BY <2>1, <1>t DEF SealedOn, Session
<1>8. sendSeq = Len(w) /\ \A s \in Session : s > session => wires[s] = <<>>
  BY Zenon DEF StreamInv, WireInv
<1>9. ASSUME NEW s \in Session, NEW i \in DOMAIN wires'[s]
      PROVE  wires'[s][i].seq = i - 1 /\ wires'[s][i].keys = SealedUnder(wires'[s][i].what, SealedOn(s)')
  <2>1. CASE s # session \/ i \in 1..Len(w)
    <3>1. i \in DOMAIN wires[s] /\ wires'[s][i] = wires[s][i]
      BY <2>1, <1>9, <1>t, <1>4, <1>5, Zenon
    <3>2. wires[s][i].seq = i - 1 /\ wires[s][i].keys = SealedUnder(wires[s][i].what, SealedOn(s))
      BY <3>1, Zenon DEF StreamInv, WireInv
    <3> QED
      BY <3>1, <3>2, <1>7, Zenon
  <2>2. CASE s = session /\ i = Len(w) + 1
    <3>1. wires'[s][i] = f
      BY <2>2, <1>4, <1>5, Zenon
    <3>2. sendSeq = i - 1
      BY <2>2, <1>8, <1>t
    <3> QED
      BY <3>1, <3>2, <2>2, <1>3, <1>7, Zenon
  <2>3. s = session => i \in 1..(Len(w) + 1)
    BY <1>4, <1>5, <1>9, Zenon
  <2>4. s = session => (i \in 1..Len(w) \/ i = Len(w) + 1)
    BY <2>3, <1>t
  <2> QED
    BY <2>1, <2>2, <2>4, Zenon
<1>10. sendSeq' \in Nat /\ sendSeq' = Len(wires'[session]) /\ Len(wires'[session]) = Len(w) + 1
  BY <1>1, <1>4, <1>5, <1>8, <1>t
<1>11. wires'[session][Len(w) + 1].what = what /\ \A i \in 1..Len(w) : wires'[session][i] = w[i]
  BY <1>3, <1>4, <1>5, Zenon
<1>12. \A s \in Session : s > session => wires'[s] = <<>>
  BY <1>5, <1>8, <1>t DEF Session
<1> QED
  BY <1>6, <1>9, <1>10, <1>11, <1>12, Zenon

\* A new session: the next, empty, the ones before as they were.
LEMMA InstallsKeeps ==
  ASSUME StreamInv, Installs, session # 3, sendSeq' = 0, wires' = wires,
         (keys = 0 /\ adopted' = session' /\ session = 1) \/ (keys # 0 /\ adopted' = adopted)
  PROVE  /\ session' = session + 1 /\ session' \in Session /\ keys' = session'
         /\ wires'[session'] = <<>>
         /\ sendSeq' = Len(wires'[session'])
         /\ \A s \in Session : s > session' => wires'[s] = <<>>
         /\ \A s \in Session : \A i \in DOMAIN wires'[s] :
              wires'[s][i].seq = i - 1 /\ wires'[s][i].keys = SealedUnder(wires'[s][i].what, SealedOn(s)')
<1>t. /\ session \in Session /\ keys \in {0, session} /\ adopted \in {0, 2}
  BY Zenon DEF StreamInv, StreamType
<1>1. session' = session + 1 /\ keys' = session'
  BY Zenon DEF Installs
<1>2. session' \in Session /\ session' # 0 /\ \A s \in Session : s > session' => s > session
  BY <1>1, <1>t DEF Session
<1>3. session' > session
  BY <1>1, <1>t DEF Session
<1>4. \A s \in Session : s > session => wires[s] = <<>>
  BY Zenon DEF StreamInv, WireInv
<1>5. wires'[session'] = <<>> /\ \A s \in Session : s > session' => wires'[s] = <<>>
  BY <1>2, <1>3, <1>4, Zenon
<1>6. sendSeq' = Len(wires'[session'])
  BY <1>5
<1>7. \A s \in Session : SealedOn(s)' = SealedOn(s)
  <2>1. keys = 0 => adopted = 0
    BY Zenon DEF StreamInv, SessionInv
  <2> QED
    BY <2>1, <1>1, <1>2, <1>t DEF SealedOn, Session
<1>8. ASSUME NEW s \in Session, NEW i \in DOMAIN wires'[s]
      PROVE  wires'[s][i].seq = i - 1 /\ wires'[s][i].keys = SealedUnder(wires'[s][i].what, SealedOn(s)')
  <2>1. wires[s][i].seq = i - 1 /\ wires[s][i].keys = SealedUnder(wires[s][i].what, SealedOn(s))
    BY <1>8, Zenon DEF StreamInv, WireInv
  <2> QED
    BY <2>1, <1>7, Zenon
<1> QED
  BY <1>1, <1>2, <1>5, <1>6, <1>8, Zenon

\* The owner's write begins: what it asks for is the last asked, and in the copy.
LEMMA SendBeginsKeeps ==
  ASSUME StreamInv, NEW what \in {"data", "end", "error"}, SendBegins(what)
  PROVE  StreamInv'
<1>1. /\ sendMu = "none" /\ ~sentEnd /\ sendMu' = "owner"
      /\ sending' = [what |-> what, seq |-> sendSeq, keys |-> keys]
      /\ asked' = Append(asked, what)
      /\ (retains' => retains) /\ retained' = (IF retains' THEN Append(retained, what) ELSE <<>>)
  BY Zenon DEF SendBegins, retain
<1>2. UNCHANGED <<session, keys, call, sendSeq, wires, sentEnd, ended, reading, replay, adopted>>
  BY Zenon DEF SendBegins, sends
<1>t. /\ session \in Session /\ keys \in {0, session} /\ sendSeq \in Nat /\ wires \in [Session -> Seq(WireFrame)]
      /\ asked \in Seq(Sent) /\ retained \in Seq(Sent) /\ replay \in Seq(Sent) /\ adopted \in {0, 2}
  BY Zenon DEF StreamInv, StreamType
<1>w. what \in Sent /\ what # "none"
  BY DEF Sent
<1>3. /\ asked' \in Seq(Sent) /\ Len(asked) \in Nat /\ Len(asked') = Len(asked) + 1
      /\ asked'[Len(asked')] = what /\ \A i \in 1..Len(asked) : asked'[i] = asked[i]
  BY <1>1, <1>t, <1>w
<1>4. retained' \in Seq(Sent)
  BY <1>1, <1>t, <1>w
<1>5. /\ sending' \in [what : Sent \union {"none"}, seq : Nat, keys : 0..3]
      /\ sending'.what = what /\ sending'.seq = sendSeq /\ sending'.keys = keys
  <2>1. keys \in 0..3
    BY <1>t DEF Session
  <2> QED
    BY <2>1, <1>1, <1>t, <1>w
<1>6. StreamType'
  BY <1>1, <1>2, <1>3, <1>4, <1>5, <1>t DEF StreamType
<1>7. SessionInv'
  <2>1. sendMu' # "reseal" /\ sendMu' # "adoption"
    BY <1>1
  <2>2. reading # "opening"
    BY <1>1 DEF StreamInv, SessionInv
  <2> QED
    BY <1>1, <1>2, <2>1, <2>2, Zenon DEF StreamInv, SessionInv
<1>8. WireInv'
  BY <1>1, <1>2, <1>5, <1>w, Zenon DEF StreamInv, WireInv, SealedOn
<1>9. AskedInv'
  <2>1. ended => sentEnd
    BY Zenon DEF StreamInv, AskedInv
  <2>2. sendMu' # "adoption" /\ sendMu' # "none"
    BY <1>1
  <2>3. Len(asked') > 0 /\ asked'[Len(asked')] = sending'.what
    BY <1>3, <1>5
  <2>4. (retains' /\ reading' \in {"reads", "adopts"}) => retained' = asked'
    BY <1>1, <1>2, Zenon DEF StreamInv, AskedInv
  <2>5. session' = adopted' => Carries(wires[session])'
    <3>1. SUFFICES ASSUME session = adopted PROVE Carries(wires[session])'
      BY <1>2, Zenon
    <3> DEFINE w == wires[session]
    <3>2. /\ Len(asked) = Len(w) /\ \A i \in 1..Len(w) : w[i].what = asked[i]
      BY <3>1, <1>1, <2>1, Zenon DEF StreamInv, AskedInv, Carries
    <3>3. Len(w) \in Nat /\ Len(w) <= Len(asked') /\ Len(asked') = Len(w) + 1
      BY <3>2, <1>3, <1>t
    <3>4. \A i \in 1..Len(w) : w[i].what = asked'[i]
      BY <3>2, <1>3, Zenon
    <3>5. w' = w
      BY <1>2, Zenon
    <3> QED
      BY <3>3, <3>4, <3>5, <2>2, Zenon DEF Carries
  <2> QED
    BY <1>2, <2>1, <2>2, <2>3, <2>4, <2>5, Zenon DEF AskedInv
<1> QED
  BY <1>6, <1>7, <1>8, <1>9, Zenon DEF StreamInv

\* The frame is out.
LEMMA SendReturnsKeeps ==
  ASSUME StreamInv, SendReturns
  PROVE  StreamInv'
<1>1. /\ sendMu = "owner" /\ ~ended /\ Written(sending.what, sending.seq, sending.keys)
      /\ sentEnd' = (sentEnd \/ ClosesSide(sending.what))
      /\ ended' = (ClosesSide(sending.what) /\ peerEnded)
      /\ sendMu' = "none" /\ sending' = [sending EXCEPT !.what = "none"]
      /\ UNCHANGED <<session, keys, call, retained, retains, reading, replay, asked, adopted>>
  BY Zenon DEF SendReturns, copies
<1>t. /\ session \in Session /\ sendSeq \in Nat /\ wires \in [Session -> Seq(WireFrame)]
      /\ sending \in [what : Sent \union {"none"}, seq : Nat, keys : 0..3] /\ asked \in Seq(Sent)
  BY Zenon DEF StreamInv, StreamType
<1>2. sending.seq = sendSeq /\ sending.keys = keys /\ sending.what # "none" /\ sending.what \in Sent
  <2>1. sending.seq = sendSeq /\ sending.keys = keys /\ sending.what # "none"
    BY <1>1, Zenon DEF StreamInv, WireInv
  <2> QED
    BY <2>1, <1>t
<1> DEFINE what == sending.what
<1>3. Written(what, sendSeq, keys)
  BY <1>1, <1>2, Zenon
<1> HIDE DEF what
<1>4. /\ sendSeq' \in Nat /\ wires' \in [Session -> Seq(WireFrame)]
      /\ sendSeq' = Len(wires'[session])
      /\ Len(wires'[session]) = Len(wires[session]) + 1
      /\ wires'[session][Len(wires[session]) + 1].what = what
      /\ \A i \in 1..Len(wires[session]) : wires'[session][i] = wires[session][i]
      /\ \A s \in Session : s > session => wires'[s] = <<>>
      /\ \A s \in Session : \A i \in DOMAIN wires'[s] :
           wires'[s][i].seq = i - 1 /\ wires'[s][i].keys = SealedUnder(wires'[s][i].what, SealedOn(s)')
  <2>1. what \in Sent
    BY <1>2, Zenon DEF what
  <2> QED
    BY <2>1, <1>1, <1>3, WrittenKeeps, Zenon
<1>5. StreamType'
  <2>1. sending' \in [what : Sent \union {"none"}, seq : Nat, keys : 0..3]
    BY <1>1, <1>t
  <2>2. sendMu' \in {"none", "owner", "adoption", "reseal"}
    BY <1>1
  <2> QED
    BY <2>1, <2>2, <1>1, <1>4, Zenon DEF StreamInv, StreamType
<1>m. sendMu' # "owner" /\ sendMu' # "adoption" /\ sendMu' # "reseal" /\ sendMu # "reseal" /\ sendMu # "adoption"
  BY <1>1
<1>6. SessionInv'
  <2>1. reading # "opening"
    BY <1>m DEF StreamInv, SessionInv
  <2> QED
    BY <2>1, <1>1, <1>m, Zenon DEF StreamInv, SessionInv
<1>7. WireInv'
  BY <1>1, <1>4, <1>m, Zenon DEF WireInv
<1>8. AskedInv'
  <2>1. ended' => sentEnd'
    BY <1>1, Zenon
  <2>2. (retains' /\ reading' \in {"reads", "adopts"}) => retained' = asked'
    BY <1>1, Zenon DEF StreamInv, AskedInv
  <2>3. session' = adopted' => Carries(wires[session])'
    <3>1. SUFFICES ASSUME session = adopted PROVE Carries(wires[session])'
      BY <1>1, Zenon
    <3> DEFINE w == wires[session]
    <3>2. /\ Len(asked) = Len(w) + 1 /\ \A i \in 1..Len(w) : w[i].what = asked[i]
      BY <3>1, <1>1, Zenon DEF StreamInv, AskedInv, Carries
    <3>3. asked[Len(asked)] = what
      BY <1>1, Zenon DEF StreamInv, AskedInv, what
    <3>4. w' = wires'[session] /\ Len(w) \in Nat
      BY <1>1, <1>t
    <3>5. Len(w') = Len(asked) /\ Len(w') <= Len(asked) /\ asked' = asked
      BY <3>2, <3>4, <1>1, <1>4
    <3>6. ASSUME NEW i \in 1..Len(w') PROVE w'[i].what = asked[i]
      <4>1. i \in 1..Len(w) \/ i = Len(w) + 1
        BY <3>4, <1>4
      <4> QED
        BY <4>1, <3>2, <3>3, <3>4, <1>4, Zenon
    <3> HIDE DEF w
    <3>7. Carries(w)'
      BY <3>5, <3>6, <1>m, Zenon DEF Carries
    <3> QED
      BY <3>7, Zenon DEF w
  <2> QED
    BY <1>m, <2>1, <2>2, <2>3, Zenon DEF AskedInv
<1> QED
  BY <1>5, <1>6, <1>7, <1>8, Zenon DEF StreamInv

\* A sequence without its last element.
Front(s) == SubSeq(s, 1, Len(s) - 1)

\* Its length and its elements.
LEMMA FrontIs ==
  ASSUME NEW S, NEW s \in Seq(S), s # <<>>
  PROVE  /\ Front(s) \in Seq(S) /\ Len(Front(s)) = Len(s) - 1
         /\ \A i \in 1..(Len(s) - 1) : Front(s)[i] = s[i]
<1>1. Len(s) \in Nat /\ Len(s) # 0
  OBVIOUS
<1>2. /\ 1 \in 1..(Len(s)+1) /\ Len(s) - 1 \in 0..Len(s) /\ Len(s) - 1 \in Int
  BY <1>1
<1>3. 1 .. (Len(s) - 1) \subseteq 1..Len(s)
  BY <1>1
<1> DEFINE n == Len(s) - 1
<1>4. Front(s) = SubSeq(s, 1, n)
  BY DEF Front
<1>5. SubSeq(s, 1, n) = [i \in 1..n |-> s[i]]
  BY <1>1
<1>6. n \in Nat /\ \A i \in 1..n : s[i] \in S
  BY <1>1, <1>3
<1> HIDE DEF n
<1>7. [i \in 1..n |-> s[i]] \in Seq(S) /\ Len([i \in 1..n |-> s[i]]) = n
  BY <1>6
<1> QED
  BY <1>4, <1>5, <1>7 DEF n

\* The write failed.
LEMMA SendFailsKeeps ==
  ASSUME StreamInv, SendFails
  PROVE  StreamInv'
<1>1. /\ sendMu = "owner"
      /\ sentEnd' = (sentEnd \/ ~retains)
      /\ asked' = (IF retains THEN asked ELSE Front(asked))
      /\ sendMu' = "none" /\ sending' = [sending EXCEPT !.what = "none"]
      /\ UNCHANGED <<session, keys, call, retained, retains, sendSeq, wires, ended, reading, replay, adopted>>
  BY Zenon DEF SendFails, copies, Front
<1>t. /\ session \in Session /\ wires \in [Session -> Seq(WireFrame)]
      /\ sending \in [what : Sent \union {"none"}, seq : Nat, keys : 0..3] /\ asked \in Seq(Sent)
      /\ adopted \in {0, 2}
  BY Zenon DEF StreamInv, StreamType
<1>m. sendMu' # "owner" /\ sendMu' # "adoption" /\ sendMu' # "reseal" /\ sendMu # "reseal" /\ sendMu # "adoption"
  BY <1>1
<1>2. Len(asked) \in Nat /\ Len(asked) > 0
  <2>1. Len(asked) > 0
    BY <1>1, Zenon DEF StreamInv, AskedInv
  <2> QED
    BY <2>1, <1>t
<1>3. /\ Front(asked) \in Seq(Sent) /\ Len(Front(asked)) = Len(asked) - 1
      /\ \A i \in 1..(Len(asked) - 1) : Front(asked)[i] = asked[i]
  <2>1. asked # <<>>
    BY <1>2, <1>t
  <2> QED
    BY <2>1, <1>t, FrontIs, Zenon
<1>4. StreamType'
  <2>1. sending' \in [what : Sent \union {"none"}, seq : Nat, keys : 0..3]
    BY <1>1, <1>t
  <2>2. sendMu' \in {"none", "owner", "adoption", "reseal"}
    BY <1>1
  <2>3. asked' \in Seq(Sent)
    BY <1>1, <1>t, <1>3, Zenon
  <2> QED
    BY <2>1, <2>2, <2>3, <1>1, Zenon DEF StreamInv, StreamType
<1>5. SessionInv'
  <2>1. reading # "opening"
    BY <1>m DEF StreamInv, SessionInv
  <2> QED
    BY <2>1, <1>1, <1>m, Zenon DEF StreamInv, SessionInv
<1>6. WireInv'
  BY <1>1, <1>m, Zenon DEF StreamInv, WireInv, SealedOn
<1>7. AskedInv'
  <2>1. ended' => sentEnd'
    BY <1>1, Zenon DEF StreamInv, AskedInv
  <2>2. (retains' /\ reading' \in {"reads", "adopts"}) => retained' = asked'
    BY <1>1, Zenon DEF StreamInv, AskedInv
  <2>3. session' = adopted' => Carries(wires[session])'
    <3>1. SUFFICES ASSUME session = adopted PROVE Carries(wires[session])'
      BY <1>1, Zenon
    <3> DEFINE w == wires[session]
    <3>2. /\ Len(asked) = Len(w) + 1 /\ \A i \in 1..Len(w) : w[i].what = asked[i]
      BY <3>1, <1>1, Zenon DEF StreamInv, AskedInv, Carries
    <3>3. ~retains
      <4>1. retains => session = 1
        BY Zenon DEF StreamInv, SessionInv
      <4> QED
        BY <4>1, <3>1, <1>t
    <3>4. w' = w /\ Len(w) \in Nat
      BY <1>1, <1>t
    <3>5. asked' = Front(asked) /\ Len(asked') = Len(w) /\ Len(w) <= Len(asked') /\ Len(asked) - 1 = Len(w)
      BY <3>2, <3>3, <3>4, <1>1, <1>3
    <3>6. \A i \in 1..Len(w) : w[i].what = asked'[i]
      BY <3>2, <3>5, <1>3, Zenon
    <3> HIDE DEF w
    <3>7. Carries(w)'
      BY <3>4, <3>5, <3>6, <1>m, Zenon DEF Carries
    <3> QED
      BY <3>7, Zenon DEF w
  <2> QED
    BY <1>m, <2>1, <2>2, <2>3, Zenon DEF AskedInv
<1> QED
  BY <1>4, <1>5, <1>6, <1>7, Zenon DEF StreamInv

\* The reader's own STREAM_ERROR, asked for and written at once.
LEMMA ErrorKeeps ==
  ASSUME StreamInv, sendMu = "none", ~sentEnd, Written("error", sendSeq, keys), asked' = Append(asked, "error"),
         End, reading' = "stopped", reading # "opening", ~ended, retains' => retains,
         retained' = retained \/ retained' = <<>>,
         UNCHANGED <<session, keys, call, sendMu, sending, replay, adopted>>
  PROVE  StreamInv'
<1> DEFINE what == "error"
<1>t. /\ session \in Session /\ wires \in [Session -> Seq(WireFrame)] /\ asked \in Seq(Sent) /\ retained \in Seq(Sent)
  BY Zenon DEF StreamInv, StreamType
<1>w. what \in Sent /\ Written(what, sendSeq, keys)
  BY DEF Sent
<1>3. /\ asked' \in Seq(Sent) /\ Len(asked) \in Nat /\ Len(asked') = Len(asked) + 1
      /\ asked'[Len(asked) + 1] = what /\ \A i \in 1..Len(asked) : asked'[i] = asked[i]
  BY <1>t, <1>w
<1> HIDE DEF what
<1>4. /\ sendSeq' \in Nat /\ wires' \in [Session -> Seq(WireFrame)]
      /\ sendSeq' = Len(wires'[session])
      /\ Len(wires'[session]) = Len(wires[session]) + 1
      /\ wires'[session][Len(wires[session]) + 1].what = what
      /\ \A i \in 1..Len(wires[session]) : wires'[session][i] = wires[session][i]
      /\ \A s \in Session : s > session => wires'[s] = <<>>
      /\ \A s \in Session : \A i \in DOMAIN wires'[s] :
           wires'[s][i].seq = i - 1 /\ wires'[s][i].keys = SealedUnder(wires'[s][i].what, SealedOn(s)')
  BY <1>w, WrittenKeeps, Zenon
<1>m. sendMu' # "owner" /\ sendMu' # "adoption" /\ sendMu' # "reseal" /\ reading' # "opening" /\ reading' \notin {"reads", "adopts"}
  OBVIOUS
<1>5. StreamType'
  <2>1. retained' \in Seq(Sent)
    <3>1. <<>> \in Seq(Sent)
      OBVIOUS
    <3> QED
      BY <3>1, <1>t, Zenon
  <2> QED
    BY <2>1, <1>3, <1>4, Zenon DEF StreamInv, StreamType
<1>6. SessionInv'
  BY <1>m, Zenon DEF StreamInv, SessionInv
<1>7. WireInv'
  BY <1>4, <1>m, Zenon DEF WireInv
<1>8. AskedInv'
  <2>1. sentEnd'
    BY Zenon DEF End
  <2>2. ended'
    BY Zenon DEF End
  <2>3. session' = adopted' => Carries(wires[session])'
    <3>1. SUFFICES ASSUME session = adopted PROVE Carries(wires[session])'
      BY Zenon
    <3> DEFINE w == wires[session]
    <3>2. /\ Len(asked) = Len(w) /\ \A i \in 1..Len(w) : w[i].what = asked[i]
      BY <3>1, Zenon DEF StreamInv, AskedInv, Carries
    <3>3. w' = wires'[session] /\ Len(w) \in Nat
      BY <1>t
    <3>4. Len(w') = Len(w) + 1 /\ Len(w') = Len(asked') /\ Len(w') <= Len(asked')
      BY <3>2, <3>3, <1>3, <1>4
    <3>5. ASSUME NEW i \in 1..Len(w') PROVE w'[i].what = asked'[i]
      <4>1. i \in 1..Len(w) \/ i = Len(w) + 1
        BY <3>3, <3>4
      <4> QED
        BY <4>1, <3>2, <3>3, <1>3, <1>4, Zenon
    <3> HIDE DEF w
    <3>6. Carries(w)'
      BY <3>4, <3>5, <1>m, Zenon DEF Carries
    <3> QED
      BY <3>6, Zenon DEF w
  <2> QED
    BY <1>m, <2>1, <2>3, Zenon DEF AskedInv
<1> QED
  BY <1>5, <1>6, <1>7, <1>8, Zenon DEF StreamInv

\* fail, whether it can still send or not.
LEMMA FailsKeeps ==
  ASSUME StreamInv, Fails, reading = "reads", retains' => retains, retained' = retained \/ (~retains' /\ retained' = <<>>)
  PROVE  StreamInv'
<1>1. /\ sendMu = "none" /\ End /\ reading' = "stopped"
      /\ UNCHANGED <<session, keys, call, sendMu, sending, replay, adopted>>
      /\ \/ UNCHANGED <<sendSeq, wires, asked>>
         \/ ~sentEnd /\ Written("error", sendSeq, keys) /\ asked' = Append(asked, "error")
  BY Zenon DEF Fails
<1>2. reading # "opening" /\ reading' # "opening" /\ reading' \notin {"reads", "adopts"}
  BY <1>1
<1>3. ended' /\ sentEnd'
  BY <1>1, Zenon DEF End
<1>4. CASE UNCHANGED <<sendSeq, wires, asked>>
  BY <1>1, <1>2, <1>3, <1>4, CalmKeeps, Zenon
<1>5. CASE ~sentEnd /\ Written("error", sendSeq, keys) /\ asked' = Append(asked, "error")
  <2>1. ~ended
    BY <1>5, Zenon DEF StreamInv, AskedInv
  <2> QED
    BY <1>1, <1>2, <1>5, <2>1, ErrorKeeps, Zenon
<1> QED
  BY <1>1, <1>4, <1>5, Zenon

\* A frame of the provider, or the end of what it sends.
LEMMA ReceiveKeeps ==
  ASSUME StreamInv, Receive \/ ReadEnds
  PROVE  StreamInv'
<1>1. reading = "reads" /\ reading # "opening"
  BY Zenon DEF Receive, ReadEnds
<1>e. ended => sentEnd
  BY Zenon DEF StreamInv, AskedInv
<1>2. CASE ReadEnds
  <2>1. /\ ended' /\ sentEnd' /\ reading' = "stopped"
        /\ UNCHANGED <<session, keys, call, retained, retains, sendSeq, wires, sendMu, sending, replay, asked, adopted>>
    BY <1>2, Zenon DEF ReadEnds, End, copies
  <2> QED
    BY <1>1, <2>1, CalmKeeps
<1>3. CASE StreamRefused
  <2>1. /\ ended' /\ sentEnd' /\ reading' = "stopped"
        /\ UNCHANGED <<session, keys, call, retained, retains, sendSeq, wires, sendMu, sending, replay, asked, adopted>>
    BY <1>3, Zenon DEF StreamRefused, End, copies
  <2> QED
    BY <1>1, <2>1, CalmKeeps
<1>4. ASSUME NEW f, FrameRefused(f) \/ InboxOverflows(f) PROVE StreamInv'
  <2>1. Fails /\ (UNCHANGED <<retained, retains>> \/ (retains' = FALSE /\ retained' = <<>>))
    BY <1>4, Zenon DEF FrameRefused, InboxOverflows, copies
  <2>2. (retains' => retains) /\ (retained' = retained \/ (~retains' /\ retained' = <<>>))
    <3>1. CASE UNCHANGED <<retained, retains>>
      BY <3>1, Zenon
    <3>2. CASE retains' = FALSE /\ retained' = <<>>
      BY <3>2, Zenon
    <3> QED
      BY <2>1, <3>1, <3>2, Zenon
  <2> QED
    BY <1>1, <1>4, <2>1, <2>2, FailsKeeps, Zenon
<1>5. ASSUME NEW f, RefusalRead(f) PROVE StreamInv'
  <2>1. /\ reading' \in {"reseals", "adopts"}
        /\ UNCHANGED <<session, keys, call, retained, retains, sendSeq, sentEnd, wires, ended, sendMu, sending, replay, asked, adopted>>
    BY <1>5, Zenon DEF RefusalRead, copies, sends
  <2>2. reading' # "opening" /\ reading \in {"reads", "adopts"}
    BY <2>1, <1>1
  <2> QED
    BY <1>1, <1>e, <2>1, <2>2, CalmKeeps, Zenon
<1>6. ASSUME NEW f, FrameApplied(f) PROVE StreamInv'
  <2>1. /\ retains' = FALSE /\ retained' = <<>>
        /\ reading' = (IF f.kind = "data" THEN "reads" ELSE "stopped")
        /\ UNCHANGED <<sentEnd, ended>> \/ End
        /\ UNCHANGED <<session, keys, call, sendSeq, wires, sendMu, sending, replay, asked, adopted>>
    BY <1>6, Zenon DEF FrameApplied
  <2>2. reading' # "opening" /\ ~retains'
    BY <2>1
  <2>3. (ended => ended') /\ (ended' => sentEnd')
    <3>1. CASE ended' = ended /\ sentEnd' = sentEnd
      BY <3>1, <1>e, Zenon
    <3>2. CASE End
      BY <3>2, Zenon DEF End
    <3> QED
      BY <2>1, <3>1, <3>2, Zenon
  <2> QED
    BY <1>1, <2>1, <2>2, <2>3, CalmKeeps, Zenon
<1> QED
  BY <1>2, <1>3, <1>4, <1>5, <1>6, Zenon DEF Receive

\* An adoption takes the copy, or finds it dropped.
LEMMA AdoptionTakesKeeps ==
  ASSUME StreamInv, AdoptionTakes
  PROVE  StreamInv'
<1>1. reading = "adopts" /\ reading # "opening" /\ sendMu = "none" /\ UNCHANGED <<call, sending, asked, session, keys, sendSeq, wires, adopted>>
  <2>1. /\ reading = "adopts" /\ sendMu = "none" /\ UNCHANGED <<call, sending, asked, session, keys, sendSeq, wires, adopted>>
    BY Zenon DEF AdoptionTakes, sends
  <2> QED
    BY <2>1
<1>2. CASE RefusalEnds /\ UNCHANGED <<sendMu, replay>>
  <2>1. ended' /\ sentEnd' /\ reading' = "stopped" /\ UNCHANGED <<retained, retains>>
    BY <1>2, Zenon DEF RefusalEnds, End, copies
  <2>2. reading' # "opening" /\ reading' \notin {"reads", "adopts"}
    BY <2>1
  <2> QED
    BY <1>1, <1>2, <2>1, <2>2, CalmKeeps, Zenon
<1>3. CASE /\ retains /\ sendMu' = "adoption" /\ replay' = retained
           /\ retains' = FALSE /\ retained' = <<>> /\ reading' = "opening" /\ UNCHANGED <<sends, ended>>
  <2>1. replay' = asked /\ asked' = asked /\ UNCHANGED <<sentEnd, ended>>
    BY <1>1, <1>3, Zenon DEF StreamInv, AskedInv, sends
  <2>t. asked \in Seq(Sent) /\ session \in Session /\ adopted \in {0, 2}
    BY Zenon DEF StreamInv, StreamType
  <2>2. keys = 0 /\ session = 1 /\ adopted = 0
    BY <1>3, Zenon DEF StreamInv, SessionInv
  <2>m. sendMu' \in {"none", "owner", "adoption", "reseal"} /\ sendMu' # "owner" /\ sendMu' # "reseal" /\ session # adopted
    BY <1>3, <2>2
  <2>3. StreamType'
    <3>1. <<>> \in Seq(Sent)
      OBVIOUS
    <3> QED
      BY <1>1, <1>3, <2>1, <2>m, <2>t, <3>1, Zenon DEF StreamInv, StreamType
  <2>4. SessionInv'
    BY <1>1, <1>3, <2>2, <2>m DEF StreamInv, SessionInv
  <2>5. WireInv'
    BY <1>1, <2>m, Zenon DEF StreamInv, WireInv, SealedOn
  <2>6. AskedInv'
    <3>1. ended => sentEnd
      BY Zenon DEF StreamInv, AskedInv
    <3>2. (ended' => sentEnd') /\ ~retains' /\ session' # adopted' /\ replay' = asked'
      <4>1. ended' => sentEnd'
        BY <3>1, <2>1, Zenon
      <4>2. ~retains'
        BY <1>3, Zenon
      <4>3. session' # adopted' /\ replay' = asked'
        BY <1>1, <2>1, <2>m, Zenon
      <4> QED
        BY <4>1, <4>2, <4>3, Zenon
    <3> QED
      BY <3>2, <2>m, Zenon DEF AskedInv
  <2> QED
    BY <2>3, <2>4, <2>5, <2>6, Zenon DEF StreamInv
<1> QED
  BY <1>2, <1>3, Zenon DEF AdoptionTakes

\* The session adopted is installed, with all that was asked left to replay.
LEMMA AdoptionOpensKeeps ==
  ASSUME StreamInv, AdoptionOpens
  PROVE  StreamInv'
<1>1. /\ reading = "opening" /\ sendMu = "adoption" /\ ~ended /\ Installs /\ adopted' = session' /\ sendSeq' = 0
      /\ UNCHANGED <<call, retained, retains, ended, sendMu, sending, replay, wires, asked>> /\ reading' = "reads"
  BY Zenon DEF AdoptionOpens, Installs, copies
<1>t. asked \in Seq(Sent) /\ wires \in [Session -> Seq(WireFrame)]
  BY Zenon DEF StreamInv, StreamType
<1>2. keys = 0 /\ session = 1 /\ replay = asked /\ ~retains
  BY <1>1, Zenon DEF StreamInv, SessionInv, AskedInv
<1>3. session # 3
  BY <1>2
<1>4. /\ session' = session + 1 /\ session' \in Session /\ keys' = session'
      /\ wires'[session'] = <<>>
      /\ sendSeq' = Len(wires'[session'])
      /\ \A s \in Session : s > session' => wires'[s] = <<>>
      /\ \A s \in Session : \A i \in DOMAIN wires'[s] :
           wires'[s][i].seq = i - 1 /\ wires'[s][i].keys = SealedUnder(wires'[s][i].what, SealedOn(s)')
  BY <1>1, <1>2, <1>3, InstallsKeeps, Zenon
<1>5. session' = 2 /\ keys' = 2 /\ adopted' = 2
  BY <1>1, <1>2, <1>4
<1>m. reading' # "opening" /\ sendMu' # "reseal" /\ sendMu' # "owner" /\ sendMu' # "none" /\ session' # 1 /\ session' # 3 /\ keys' # 0 /\ adopted' # 0
  BY <1>1, <1>5
<1>6. StreamType'
  <2>1. adopted' \in {0, 2} /\ keys' \in {0, session'} /\ sendSeq' \in Nat
    BY <1>1, <1>5
  <2> QED
    BY <1>1, <1>4, <2>1, Zenon DEF StreamInv, StreamType
<1>7. SessionInv'
  BY <1>1, <1>2, <1>m, Zenon DEF SessionInv
<1>8. WireInv'
  BY <1>4, <1>m, Zenon DEF WireInv
<1>9. AskedInv'
  <2> DEFINE w == wires'[session']
  <2>1. /\ Len(asked') \in Nat /\ Len(w) = 0 /\ replay' = asked'
    BY <1>1, <1>2, <1>4, <1>t
  <2> HIDE DEF w
  <2>2. /\ Len(w) <= Len(asked') /\ Len(asked') = Len(w) + Len(replay')
        /\ \A i \in 1..Len(w) : w[i].what = asked'[i]
        /\ \A i \in 1..Len(replay') : replay'[i] = asked'[Len(w) + i]
    BY <2>1
  <2>3. Carries(wires[session])'
    BY <2>2, <1>m, Zenon DEF Carries, w
  <2> QED
    BY <1>1, <1>2, <1>m, <2>3, Zenon DEF AskedInv
<1> QED
  BY <1>6, <1>7, <1>8, <1>9, Zenon DEF StreamInv

\* An adoption that failed, and the end of a replay.
LEMMA AdoptionEndsKeeps ==
  ASSUME StreamInv, AdoptionFails \/ ReplayEnds
  PROVE  StreamInv'
<1>1. /\ sendMu = "adoption" /\ sendMu' = "none" /\ replay' = <<>>
      /\ UNCHANGED <<session, keys, call, retained, retains, sendSeq, wires, sending, asked, adopted>>
      /\ reading' # "opening"
  <2>1. CASE AdoptionFails
    <3>1. /\ sendMu = "adoption" /\ sendMu' = "none" /\ replay' = <<>>
          /\ UNCHANGED <<session, keys, call, retained, retains, sendSeq, wires, sending, asked, adopted>>
          /\ reading' = "stopped"
      BY <2>1, Zenon DEF AdoptionFails, copies
    <3> QED
      BY <3>1
  <2>2. CASE ReplayEnds
    BY <2>2, Zenon DEF ReplayEnds, Replaying, copies
  <2> QED
    BY <2>1, <2>2
<1>2. (ended => sentEnd) /\ ~retains
  BY <1>1, Zenon DEF StreamInv, AskedInv, SessionInv
<1>3. (ended' => sentEnd') /\ (session = adopted /\ ~ended' => replay = <<>>)
  <2>1. CASE End
    BY <2>1, Zenon DEF End
  <2>2. CASE replay = <<>> /\ UNCHANGED <<sentEnd, ended>>
    BY <2>2, <1>2, Zenon
  <2> QED
    BY <2>1, <2>2, Zenon DEF AdoptionFails, ReplayEnds
<1>m. sendMu' \in {"none", "owner", "adoption", "reseal"} /\ sendMu' # "reseal" /\ sendMu' # "owner" /\ sendMu' # "adoption"
  BY <1>1
<1>4. StreamType'
  <2>1. <<>> \in Seq(Sent)
    OBVIOUS
  <2> QED
    BY <2>1, <1>1, <1>m, Zenon DEF StreamInv, StreamType
<1>5. SessionInv'
  BY <1>1, <1>2, <1>m, Zenon DEF StreamInv, SessionInv
<1>6. WireInv'
  BY <1>1, <1>m, Zenon DEF StreamInv, WireInv, SealedOn
<1>7. AskedInv'
  <2>1. session' = adopted' => Carries(wires[session])'
    <3>1. SUFFICES ASSUME session = adopted PROVE Carries(wires[session])'
      BY <1>1, Zenon
    <3> DEFINE w == wires[session]
    <3>t. Len(w) \in Nat
      BY DEF StreamInv, StreamType
    <3>2. /\ Len(w) <= Len(asked) /\ \A i \in 1..Len(w) : w[i].what = asked[i]
          /\ Len(asked) = Len(w) + Len(replay)
      BY <3>1, <1>1, Zenon DEF StreamInv, AskedInv, Carries
    <3>3. replay = <<>> => Len(asked) = Len(w)
      BY <3>t, <3>2
    <3>4. w' = w /\ asked' = asked
      BY <1>1, Zenon
    <3> HIDE DEF w
    <3>5. Carries(w)'
      BY <3>1, <3>2, <3>3, <3>4, <1>3, <1>m, Zenon DEF Carries
    <3> QED
      BY <3>5, Zenon DEF w
  <2> QED
    BY <1>1, <1>2, <1>3, <1>m, <2>1, Zenon DEF AskedInv
<1> QED
  BY <1>4, <1>5, <1>6, <1>7, Zenon DEF StreamInv

\* The copy, in order, on the new session.
LEMMA ReplayWritesKeeps ==
  ASSUME StreamInv, ReplayWrites
  PROVE  StreamInv'
<1> DEFINE what == Head(replay)
<1>1. /\ sendMu = "adoption" /\ reading # "opening" /\ replay # <<>> /\ ~sentEnd /\ Written(what, sendSeq, keys)
      /\ sentEnd' = ClosesSide(what) /\ ended' = (ClosesSide(what) /\ peerEnded)
      /\ replay' = Tail(replay)
      /\ UNCHANGED <<session, keys, call, retained, retains, sendMu, sending, reading, asked, adopted>>
  BY Zenon DEF ReplayWrites, Replaying, copies
<1>t. /\ session \in Session /\ wires \in [Session -> Seq(WireFrame)] /\ asked \in Seq(Sent) /\ replay \in Seq(Sent)
  BY Zenon DEF StreamInv, StreamType
<1>2. /\ what \in Sent /\ what = replay[1] /\ Len(replay) \in Nat /\ Len(replay) # 0
      /\ replay' \in Seq(Sent) /\ Len(replay') = Len(replay) - 1
      /\ \A i \in 1..(Len(replay) - 1) : replay'[i] = replay[i + 1]
  BY <1>1, <1>t
<1> HIDE DEF what
<1>4. /\ sendSeq' \in Nat /\ wires' \in [Session -> Seq(WireFrame)]
      /\ sendSeq' = Len(wires'[session])
      /\ Len(wires'[session]) = Len(wires[session]) + 1
      /\ wires'[session][Len(wires[session]) + 1].what = what
      /\ \A i \in 1..Len(wires[session]) : wires'[session][i] = wires[session][i]
      /\ \A s \in Session : s > session => wires'[s] = <<>>
      /\ \A s \in Session : \A i \in DOMAIN wires'[s] :
           wires'[s][i].seq = i - 1 /\ wires'[s][i].keys = SealedUnder(wires'[s][i].what, SealedOn(s)')
  BY <1>1, <1>2, WrittenKeeps, Zenon
<1>m. sendMu' # "owner" /\ sendMu' # "none" /\ sendMu' # "reseal" /\ sendMu # "reseal" /\ ~retains /\ session = adopted
  <2>1. ~retains /\ adopted = session
    BY <1>1, Zenon DEF StreamInv, SessionInv
  <2> QED
    BY <1>1, <2>1
<1>5. StreamType'
  BY <1>1, <1>2, <1>4, Zenon DEF StreamInv, StreamType
<1>6. SessionInv'
  BY <1>1, <1>m, Zenon DEF StreamInv, SessionInv
<1>7. WireInv'
  BY <1>1, <1>4, <1>m, Zenon DEF WireInv
<1>8. AskedInv'
  <2>1. ended' => sentEnd'
    BY <1>1, Zenon
  <2>2. Carries(wires[session])'
    <3> DEFINE w == wires[session]
               n == Len(w)
    <3>2. /\ n <= Len(asked) /\ \A i \in 1..n : w[i].what = asked[i]
          /\ Len(asked) = n + Len(replay) /\ \A i \in 1..Len(replay) : replay[i] = asked[n + i]
      BY <1>1, <1>m, Zenon DEF StreamInv, AskedInv, Carries
    <3>3. w' = wires'[session] /\ n \in Nat
      BY <1>1, <1>t
    <3>4. Len(w') = n + 1
      BY <3>3, <1>4, Zenon
    <3>5. asked[n + 1] = what
      <4>1. 1 \in 1..Len(replay)
        BY <1>2
      <4> QED
        BY <4>1, <3>2, <1>2, Zenon
    <3>6. ASSUME NEW i \in 1..Len(w') PROVE w'[i].what = asked[i]
      <4>1. i \in 1..n \/ i = n + 1
        BY <3>3, <3>4
      <4> QED
        BY <4>1, <3>2, <3>3, <3>5, <1>4, Zenon
    <3>7. ASSUME NEW i \in 1..Len(replay') PROVE replay'[i] = asked[(n + 1) + i]
      <4>0. i \in 1..(Len(replay) - 1) /\ Len(replay) \in Nat /\ n \in Nat
        BY <3>3, <3>7, <1>2, Zenon
      <4>1. i + 1 \in 1..Len(replay) /\ n + (i + 1) = (n + 1) + i
        <5> DEFINE m == Len(replay)
        <5> HIDE DEF m, n
        <5>1. i \in 1..(m - 1) /\ m \in Nat /\ n \in Nat
          BY <4>0 DEF m
        <5>2. i + 1 \in 1..m /\ n + (i + 1) = (n + 1) + i
          BY <5>1
        <5> QED
          BY <5>2, Zenon DEF m
      <4> QED
        BY <4>0, <4>1, <3>2, <1>2, Zenon
    <3>8. Len(asked) = (n + 1) + Len(replay') /\ n + 1 <= Len(asked)
      BY <3>2, <3>3, <1>2
    <3> HIDE DEF w, n
    <3>9. Carries(w)'
      BY <3>4, <3>6, <3>7, <3>8, <1>1, <1>m, Zenon DEF Carries
    <3> QED
      BY <3>9, Zenon DEF w
  <2>3. (sendMu' = "adoption" /\ reading' = "opening") => replay' = asked'
    BY <1>1, Zenon
  <2> QED
    BY <1>1, <1>m, <2>1, <2>2, <2>3, Zenon DEF AskedInv
<1> QED
  BY <1>5, <1>6, <1>7, <1>8, Zenon DEF StreamInv

\* A reseal begins, once, of a stream that has sent nothing, or the stream ends.
LEMMA ResealTakesKeeps ==
  ASSUME StreamInv, NEW key \in BOOLEAN, ResealTakes(key)
  PROVE  StreamInv'
<1>1. /\ reading = "reseals" /\ (call = "reseals" => sendMu = "none") /\ call' = "none"
      /\ UNCHANGED <<session, keys, sendSeq, wires, sending, replay, asked, adopted>>
  BY Zenon DEF ResealTakes
<1>r. reading # "opening" /\ call' # "reseals"
  BY <1>1
<1>2. CASE RefusalEnds /\ UNCHANGED sendMu
  <2>1. ended' /\ sentEnd' /\ reading' = "stopped" /\ UNCHANGED <<retained, retains>>
    BY <1>2, Zenon DEF RefusalEnds, End, copies
  <2>2. reading' # "opening" /\ reading' \notin {"reads", "adopts"}
    BY <2>1
  <2> QED
    BY <1>1, <1>2, <1>r, <2>1, <2>2, CalmKeeps, Zenon
<1>3. CASE /\ call = "reseals" /\ sendSeq = 0 /\ keys # 0 /\ sendMu' = "reseal" /\ reading' = "opening"
           /\ UNCHANGED <<retained, retains, sentEnd, ended>>
  <2>1. sendMu = "none" /\ ~retains
    BY <1>1, <1>3, Zenon DEF StreamInv, SessionInv
  <2>2. session # 3
    <3>1. call # "none"
      BY <1>3
    <3> QED
      BY <3>1, Zenon DEF StreamInv, SessionInv
  <2>m. /\ sendMu' \in {"none", "owner", "adoption", "reseal"} /\ sendMu' # "owner" /\ sendMu' # "adoption" /\ sendMu' # "none"
        /\ sendMu' \in {"adoption", "reseal"}
    BY <1>3
  <2>3. StreamType'
    BY <1>1, <1>3, <2>m, Zenon DEF StreamInv, StreamType
  <2>4. SessionInv'
    BY <1>1, <1>3, <2>1, <2>2, <2>m, Zenon DEF StreamInv, SessionInv
  <2>5. WireInv'
    BY <1>1, <2>m, Zenon DEF StreamInv, WireInv, SealedOn
  <2>6. AskedInv'
    <3>1. ended => sentEnd
      BY Zenon DEF StreamInv, AskedInv
    <3>2. ended' => sentEnd'
      BY <3>1, <1>3, Zenon
    <3>3. ~retains'
      BY <1>3, <2>1, Zenon
    <3>4. session' = adopted' => Carries(wires[session])'
      BY <1>1, <1>3, <2>m, Zenon DEF StreamInv, AskedInv, Carries
    <3> QED
      BY <3>2, <3>3, <3>4, <2>m, Zenon DEF AskedInv
  <2> QED
    BY <2>3, <2>4, <2>5, <2>6, Zenon DEF StreamInv
<1> QED
  BY <1>2, <1>3, Zenon DEF ResealTakes, copies

\* The session resealed is installed, or its open failed.
LEMMA ResealOpensKeeps ==
  ASSUME StreamInv, ResealOpens
  PROVE  StreamInv'
<1>1. /\ reading = "opening" /\ sendMu = "reseal" /\ sendMu' = "none"
      /\ UNCHANGED <<call, retained, retains, sendSeq, wires, sending, replay, asked, adopted>>
  BY Zenon DEF ResealOpens, copies
<1>2. session # 3 /\ call = "none" /\ sendSeq = 0 /\ keys # 0 /\ ~retains /\ (ended => sentEnd)
  BY <1>1, Zenon DEF StreamInv, SessionInv, AskedInv
<1>m. /\ sendMu' \in {"none", "owner", "adoption", "reseal"} /\ sendMu' # "owner" /\ sendMu' # "adoption" /\ sendMu' # "reseal"
      /\ sendMu # "none" /\ sendMu # "owner" /\ sendMu # "adoption"
  BY <1>1
<1>t. session \in Session /\ adopted \in {0, 2}
  BY Zenon DEF StreamInv, StreamType
<1>r. ~retains'
  BY <1>1, <1>2, Zenon
<1>3. CASE Installs /\ UNCHANGED <<sentEnd, ended>>
  <2>1. reading' = "reads"
    BY <1>3, Zenon DEF Installs
  <2>2. sendSeq' = 0 /\ wires' = wires /\ adopted' = adopted
    BY <1>1, <1>2, Zenon
  <2>4. /\ session' = session + 1 /\ session' \in Session /\ keys' = session'
        /\ wires'[session'] = <<>>
        /\ sendSeq' = Len(wires'[session'])
        /\ \A s \in Session : s > session' => wires'[s] = <<>>
        /\ \A s \in Session : \A i \in DOMAIN wires'[s] :
             wires'[s][i].seq = i - 1 /\ wires'[s][i].keys = SealedUnder(wires'[s][i].what, SealedOn(s)')
    BY <1>2, <1>3, <2>2, InstallsKeeps, Zenon
  <2>5. reading' # "opening" /\ keys' # 0 /\ session' # 1 /\ session' # adopted'
    <3>1. adopted # 0 => session # 1
      BY Zenon DEF StreamInv, SessionInv
    <3> QED
      BY <3>1, <2>1, <2>2, <2>4, <1>t DEF Session
  <2>6. StreamType'
    <3>1. keys' \in {0, session'}
      BY <2>4
    <3> QED
      BY <3>1, <1>1, <1>m, <2>4, Zenon DEF StreamInv, StreamType
  <2>7. SessionInv'
    BY <1>1, <1>2, <1>m, <1>r, <2>5, Zenon DEF SessionInv
  <2>8. WireInv'
    BY <1>m, <2>4, Zenon DEF WireInv
  <2>9. AskedInv'
    <3>1. ended' => sentEnd'
      BY <1>2, <1>3, Zenon
    <3> QED
      BY <3>1, <1>m, <1>r, <2>5, Zenon DEF AskedInv
  <2> QED
    BY <2>6, <2>7, <2>8, <2>9, Zenon DEF StreamInv
<1>4. CASE End /\ reading' = "stopped" /\ UNCHANGED <<session, keys>>
  <2>1. ended' /\ sentEnd'
    BY <1>4, Zenon DEF End
  <2>2. reading' # "opening"
    BY <1>4
  <2>6. StreamType'
    BY <1>1, <1>4, <1>m, Zenon DEF StreamInv, StreamType
  <2>7. SessionInv'
    BY <1>1, <1>2, <1>4, <1>m, <1>r, <2>2, Zenon DEF StreamInv, SessionInv
  <2>8. WireInv'
    BY <1>1, <1>4, <1>m, Zenon DEF StreamInv, WireInv, SealedOn
  <2>9. AskedInv'
    <3>1. session' = adopted' => Carries(wires[session])'
      BY <1>1, <1>4, <1>m, <2>1, Zenon DEF StreamInv, AskedInv, Carries
    <3> QED
      BY <3>1, <1>m, <1>r, <2>1, Zenon DEF AskedInv
  <2> QED
    BY <2>6, <2>7, <2>8, <2>9, Zenon DEF StreamInv
<1> QED
  BY <1>3, <1>4, Zenon DEF ResealOpens

\* Every step keeps the invariant.
LEMMA StreamStep == StreamInv /\ [CSNext]_csvars => StreamInv'
<1> SUFFICES ASSUME StreamInv, [CSNext]_csvars PROVE StreamInv'
  OBVIOUS
<1>1. CASE LinkEnds
  <2>1. /\ ended' /\ sentEnd'
        /\ UNCHANGED <<session, keys, call, retained, retains, sendSeq, wires, sendMu, sending, reading, replay, asked, adopted>>
    BY <1>1, Zenon DEF LinkEnds, End, copies
  <2> QED
    BY <2>1, CalmKeeps, Zenon
<1>2. CASE UNCHANGED csvars
  <2>1. UNCHANGED <<session, keys, call, retained, retains, sendSeq, sentEnd, ended, wires, sendMu, sending, reading, replay, asked, adopted>>
    BY <1>2, Zenon DEF csvars
  <2>2. ended => sentEnd
    BY Zenon DEF StreamInv, AskedInv
  <2>3. (ended => ended') /\ (ended' => sentEnd')
    BY <2>1, <2>2, Zenon
  <2> QED
    BY <2>1, <2>3, CalmKeeps, Zenon
<1> QED
  BY <1>1, <1>2, SendBeginsKeeps, SendReturnsKeeps, SendFailsKeeps, ReceiveKeeps, AdoptionTakesKeeps, AdoptionOpensKeeps,
     AdoptionEndsKeeps, ReplayWritesKeeps, ResealTakesKeeps, ResealOpensKeeps, Zenon DEF CSNext

\* Every session is whole, whatever is sent and however it is adopted or
\* resealed meanwhile, for any number of sends and any size of the copy.
THEOREM SessionsAreWhole == CSSpec => []SessionsWhole
<1>1. StreamInv => SessionsWhole
  <2> SUFFICES ASSUME StreamInv PROVE SessionsWhole
    OBVIOUS
  <2>t. /\ asked \in Seq(Sent) /\ session \in Session /\ wires \in [Session -> Seq(WireFrame)]
    BY Zenon DEF StreamInv, StreamType
  <2>1. \A s \in Session, i \in 1..MaxSends + 1 : i \in DOMAIN wires[s] =>
          /\ wires[s][i].seq = i - 1
          /\ wires[s][i].keys = SealedUnder(wires[s][i].what, SealedOn(s))
    BY Zenon DEF StreamInv, WireInv
  <2>2. ASSUME adopted # 0, session = adopted
        PROVE  LET on == [i \in DOMAIN wires[adopted] |-> wires[adopted][i].what]
               IN  (\E n \in 0..Len(asked) : on = SubSeq(asked, 1, n)) /\ (sendMu = "none" /\ ~ended => on = asked)
    <3> DEFINE w == wires[adopted]
               on == [i \in DOMAIN w |-> w[i].what]
    <3>1. /\ Len(w) <= Len(asked) /\ \A i \in 1..Len(w) : w[i].what = asked[i]
          /\ (sendMu = "none" /\ ~ended) => Len(asked) = Len(w)
      BY <2>2, Zenon DEF StreamInv, AskedInv, Carries
    <3>2. w \in Seq(WireFrame) /\ Len(w) \in Nat /\ DOMAIN w = 1..Len(w)
      BY <2>2, <2>t
    <3>3. on = [i \in 1..Len(w) |-> asked[i]]
      BY <3>1, <3>2
    <3>4. Len(asked) \in Nat /\ \A i \in 1..Len(w) : asked[i] \in Sent
      BY <2>t, <3>1, <3>2
    <3> HIDE DEF w
    <3>5. on \in Seq(Sent) /\ Len(on) = Len(w) /\ \A i \in 1..Len(w) : on[i] = asked[i]
      BY <3>2, <3>3, <3>4
    <3>6. Len(w) \in 0..Len(asked)
      BY <3>1, <3>2, <3>4
    <3>7. SubSeq(asked, 1, Len(w)) = [i \in 1..Len(w) |-> asked[i]]
      BY <3>2, <3>6, <2>t
    <3>8. \E n \in 0..Len(asked) : on = SubSeq(asked, 1, n)
      BY <3>3, <3>6, <3>7, Zenon
    <3> HIDE DEF on
    <3>9. ASSUME sendMu = "none", ~ended PROVE on = asked
      <4>1. Len(on) = Len(asked) /\ \A i \in 1..Len(on) : on[i] = asked[i]
        BY <3>1, <3>5, <3>9, Zenon
      <4> QED
        BY <4>1, <3>5, <2>t, SameFrames, Zenon
    <3> QED
      BY <3>8, <3>9, Zenon DEF on, w
  <2> QED
    BY <2>1, <2>2, Zenon DEF SessionsWhole
<1> QED
  BY <1>1, StreamInit, StreamStep, PTL DEF CSSpec
=============================================================================
