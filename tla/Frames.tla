--------------------------------- MODULE Frames ---------------------------------
(***************************************************************************)
(* The signed frames of requests, replies, relay errors and streams        *)
(* (frame/request.go, reply.go, stream_frames.go, signed_frames.go,        *)
(* wire_envelope.go, sealed.go, wire_enums.go): what a node signs, and     *)
(* what the other side takes as the answer to its request.                 *)
(*                                                                         *)
(* A frame is carried by stations: it may come late, twice, out of order,  *)
(* on another request's stream, under another envelope or damaged; and     *)
(* its signer may be another build, whose frames differ (Odd).  An object  *)
(* is what was signed: its label, the fields of its tbs (bad, those whose  *)
(* rule refuses them), its signing key and whether it carries it.          *)
(***************************************************************************)
EXTENDS Integers, FiniteSets, Sequences

CONSTANTS
    Requests,      \* the requests made: name -> [frame, id, caller, target, mode, sealed, via]
    HomeStation,   \* the one the callers are connected to
    Odd,           \* how a frame may differ: another build's, another node's, or
                   \* changed on its way; "none" included
    MaxSigned      \* bound of the model on the objects signed

VARIABLES
    objects,   \* every object signed
    opened,    \* the requests their targets verified
    count,     \* per request and side, the stream frames signed
    taken,     \* per request and side, the stream frames the other side took
    closed,    \* per request and side, sideState.ended
    answers    \* per request, the replies and relay errors its caller took

fvars == <<objects, opened, count, taken, closed, answers>>

Side == {"caller", "provider"}
Sender(r, side) == IF side = "caller" THEN Requests[r].caller ELSE Requests[r].target

FInit ==
    /\ objects = {} /\ opened = {}
    /\ count = [r \in DOMAIN Requests |-> [side \in Side |-> 0]]
    /\ taken = [r \in DOMAIN Requests |-> [side \in Side |-> <<>>]]
    /\ closed = [r \in DOMAIN Requests |-> [side \in Side |-> FALSE]]
    /\ answers = [r \in DOMAIN Requests |-> {}]
-----------------------------------------------------------------------------
\* The tables of the objects' fields, and the fields each must have.
Common == {"frame_type", "alg", "request_id", "ext"}

requestTable == Common \union {"caller", "realm", "procedure", "target", "deadline", "payload", "sealed", "mode", "token", "proofs"}
replyTable == Common \union {"request_hash", "responded_by", "payload", "sealed", "code", "detail"}
relayErrorTable == Common \union {"request_hash", "reported_by", "code", "offending_hop"}
streamTable == Common \union {"request_hash", "signer", "seq", "encoding", "body", "role", "code", "message", "payload", "sealed"}

RequestNeeds == {"frame_type", "caller", "request_id", "realm", "procedure", "target", "deadline"}
ReplyNeeds == {"frame_type", "request_id", "request_hash", "responded_by"}
RelayErrorNeeds == {"frame_type", "request_id", "request_hash", "reported_by", "code"}
StreamNeeds == {"frame_type", "request_id", "request_hash", "signer", "seq"}

\* streamTypeFieldNames; the empty set for a sealed STREAM_END, which is none.
streamTypeFieldNames(frame, sealed) ==
    CASE frame = "stream_data"  -> {"encoding", IF sealed THEN "sealed" ELSE "body"}
      [] frame = "stream_end"   -> IF sealed THEN {} ELSE {"role"}
      [] frame = "stream_error" -> IF sealed THEN {"sealed"} ELSE {"code", "message"}
      [] frame = "stream_reply" -> IF sealed THEN {"sealed"} ELSE {"payload"}

\* readFields, hasFields: nothing outside the table, every value by its rule.
readFields(o, table, needs) == o.fields \subseteq table /\ o.bad = {} /\ needs \subseteq o.fields

payloadOrSealed(o) == ("payload" \in o.fields) # ("sealed" \in o.fields)

\* Sealed.shaped, of a known scheme: which of kem_ct and nonce a context has.
shaped(context) == CASE context = "request" -> {"kem_ct"} [] context = "caller_stream" -> {} [] OTHER -> {"nonce"}

\* sealedRule: an unknown scheme is left to who opens it.
sealedRule(o, context) == "sealed" \in o.fields => o.sealing \in {shaped(context), {"unknown_scheme"}}

\* replyShaped: a RESULT has a payload, or its seal; an ERROR a code, or a seal.
replyShaped(o) ==
    IF o.frame = "result" THEN payloadOrSealed(o) /\ o.fields \intersect {"code", "detail"} = {}
    ELSE IF "sealed" \in o.fields THEN o.fields \intersect {"code", "detail", "payload"} = {}
    ELSE "code" \in o.fields /\ "payload" \notin o.fields

\* streamRead's fields: its type's own, alg and ext apart.
streamShaped(o) ==
    /\ streamTypeFieldNames(o.frame, "sealed" \in o.fields) # {}
    /\ o.fields \ {"alg", "ext"} = StreamNeeds \union streamTypeFieldNames(o.frame, "sealed" \in o.fields)

\* ReadEnvelope and receivedFrame: the envelope reads, carries nothing a reader
\* must act on and cannot, and holds the object under its name.
receivedFrame(o, name, types) ==
    /\ o.odd \notin {"envelope", "hop_critical"}
    /\ o.label = name \/ o.odd = "renamed"
    /\ o.frame \in types

\* VerifyObject and VerifyHeldObject: a signature is of its label.
Labelled(o, label) == o.label = label

\* tbsEnum and readTBSExt: every enum value known, no extension that is critical
\* (none is known in a tbs) or malformed.
ReadContent(o) == o.odd \notin {"enum", "ext_malformed", "ext_critical"}

Signed(o, label) == Labelled(o, label) /\ o.odd # "signature"

\* Mutant: the request id alone.
namesRequestByID(o, r) == Requests[o.request].id = Requests[r].id

\* namesRequest: the request id, and the hash of the very request signed.
namesRequest(o, r) == Requests[o.request].id = Requests[r].id /\ o.request = r
-----------------------------------------------------------------------------
\* The verifiers, to whether the frame is taken.
VerifyRequest(o) ==
    /\ receivedFrame(o, "request", {"call", "stream_open"}) /\ Signed(o, "request")
    /\ readFields(o, requestTable, RequestNeeds) /\ payloadOrSealed(o) /\ sealedRule(o, "request")
    /\ ("mode" \in o.fields) = (o.frame = "stream_open")
    /\ ReadContent(o)
    /\ o.says = o.key

VerifyReply(o, r) ==
    /\ receivedFrame(o, "reply", {"result", "error"}) /\ Signed(o, "reply")
    /\ readFields(o, replyTable, ReplyNeeds) /\ replyShaped(o) /\ sealedRule(o, "reply")
    /\ ReadContent(o)
    /\ o.says = o.key /\ namesRequest(o, r) /\ o.says = Requests[r].target

VerifyRelayError(o, r) ==
    /\ receivedFrame(o, "relay_error", {"error", "stream_error"}) /\ Signed(o, "relay_error")
    /\ readFields(o, relayErrorTable, RelayErrorNeeds)
    /\ ReadContent(o)
    /\ o.says = o.key /\ namesRequest(o, r) /\ o.says = HomeStation

streamRead(o, context) ==
    readFields(o, streamTable, StreamNeeds) /\ streamShaped(o) /\ sealedRule(o, context) /\ ReadContent(o)

\* The first of a provider's frames carries the key the later are verified with.
providerFirst(o, r) ==
    /\ o.carries /\ Signed(o, "stream") /\ streamRead(o, "stream")
    /\ o.says = o.key /\ namesRequest(o, r) /\ o.says = Requests[r].target
    /\ o.seq = 0

\* A later one carries none.
providerLater(o, r) ==
    LET held == taken[r].provider[1] IN
    /\ Signed(o, "stream") /\ o.key = held.key /\ streamRead(o, "stream")
    /\ o.says = held.says /\ namesRequest(o, r)
    /\ o.seq = Len(taken[r].provider) /\ ~o.carries

VerifyProviderStream(o, r) ==
    /\ receivedFrame(o, "stream", {"stream_data", "stream_end", "stream_error", "stream_reply"})
    /\ ~closed[r].provider
    /\ IF taken[r].provider = <<>> THEN providerFirst(o, r) ELSE providerLater(o, r)

\* Under the key of the STREAM_OPEN.
VerifyCallerStream(o, r) ==
    /\ receivedFrame(o, "caller_stream", {"stream_data", "stream_end", "stream_error"}) /\ ~o.carries
    /\ ~closed[r].caller
    /\ Signed(o, "caller_stream") /\ o.key = Requests[r].caller /\ streamRead(o, "caller_stream")
    /\ ~(o.frame = "stream_data" /\ Requests[r].mode = "server_stream")
    /\ o.says = Requests[r].caller /\ namesRequest(o, r) /\ o.seq = Len(taken[r].caller)
-----------------------------------------------------------------------------
\* An object as the builders make it.
Object(label, frame, r, signer, seq, carries, fields) ==
    [label |-> label, frame |-> frame, request |-> r, key |-> signer, says |-> signer, seq |-> seq, carries |-> carries,
     fields |-> fields, bad |-> {}, sealing |-> shaped(label), odd |-> "none"]

\* The same as another build signs it, or another node, or as it arrives.
Built(o, odd) ==
    CASE odd = "missing"       -> [o EXCEPT !.fields = @ \ {"request_id"}]
      [] odd = "extra"         -> [o EXCEPT !.fields = @ \union {"payload", "code", "mode"}]
      [] odd = "value"         -> [o EXCEPT !.bad = {"request_id"}]
      [] odd = "seal_shape"    -> [o EXCEPT !.sealing = {"kem_ct", "nonce"}]
      [] odd = "scheme"        -> [o EXCEPT !.sealing = {"unknown_scheme"}]
      [] odd = "names_another" -> [o EXCEPT !.says = "another"]
      [] odd = "by_another"    -> [o EXCEPT !.says = "another", !.key = "another"]
      [] OTHER                 -> [o EXCEPT !.odd = odd]

SignsObject(o) ==
    /\ Cardinality(objects) < MaxSigned /\ objects' = objects \union {o}
    /\ UNCHANGED <<opened, taken, closed, answers>>

\* Clear or sealed: what the payload is sent as.
Body(r, clear) == IF Requests[r].sealed THEN {"sealed"} ELSE clear

\* SignCall, SignStreamOpen: by the caller.
SignRequest(r) ==
    Object("request", Requests[r].frame, r, Requests[r].caller, 0, TRUE,
           RequestNeeds \union Body(r, {"payload"}) \union (IF Requests[r].frame = "stream_open" THEN {"mode"} ELSE {}))

\* SignResult, SignProviderError and their sealed forms: replySigner is the
\* request's target.
SignReply(r) == \E frame \in {"result", "error"} :
    /\ r \in opened /\ Requests[r].mode = "none"
    /\ SignsObject(Object("reply", frame, r, Requests[r].target, 0, TRUE,
                    ReplyNeeds \union Body(r, IF frame = "result" THEN {"payload"} ELSE {"code"})))
    /\ UNCHANGED count

\* SignRelayError: by a station, of a request it could not pass on.
SignRelayError(r, s) ==
    /\ SignsObject(Object("relay_error", IF Requests[r].mode = "none" THEN "error" ELSE "stream_error", r, s, 0, TRUE, RelayErrorNeeds))
    /\ UNCHANGED count

\* sideMaySend: a caller sends no reply, and no data in a server_stream.
sideMaySend(frame, r, side) ==
    side = "caller" => frame # "stream_reply" /\ ~(frame = "stream_data" /\ Requests[r].mode = "server_stream")

\* SignProviderStream, SignCallerStream: streamSigner is the side's own node;
\* only a provider's frame at seq 0 carries its key.
SignStream(r, side, frame) ==
    /\ Requests[r].mode # "none" /\ (side = "provider" => r \in opened)
    /\ sideMaySend(frame, r, side)
    /\ SignsObject(Object(IF side = "caller" THEN "caller_stream" ELSE "stream", frame, r, Sender(r, side), count[r][side],
                    side = "provider" /\ count[r][side] = 0,
                    StreamNeeds \union streamTypeFieldNames(frame, Requests[r].sealed /\ frame # "stream_end")))
    /\ count' = [count EXCEPT ![r][side] = @ + 1]
-----------------------------------------------------------------------------
\* The request is signed, and its target takes it.
TakeRequest(r) == \E odd \in Odd :
    /\ r \notin opened /\ VerifyRequest(Built(SignRequest(r), odd))
    /\ opened' = opened \union {r}
    /\ UNCHANGED <<objects, count, taken, closed, answers>>

\* A caller takes a reply, or its station's error, for one of its requests.
TakeAnswer(r) == \E o \in objects, odd \in Odd :
    /\ o.label \in {"reply", "relay_error"} /\ o \notin answers[r]
    /\ VerifyReply(Built(o, odd), r) \/ VerifyRelayError(Built(o, odd), r)
    /\ answers' = [answers EXCEPT ![r] = @ \union {[o EXCEPT !.key = Built(o, odd).key]}]
    /\ UNCHANGED <<objects, opened, count, taken, closed>>

\* The verifier's state moves with each frame it takes, and only then.
TakeStream(r, side) == \E o \in objects, odd \in Odd :
    /\ Requests[r].mode # "none" /\ (side = "caller" => r \in opened)
    /\ o.label \in {"stream", "caller_stream"}
    /\ IF side = "caller" THEN VerifyCallerStream(Built(o, odd), r) ELSE VerifyProviderStream(Built(o, odd), r)
    /\ taken' = [taken EXCEPT ![r][side] = Append(@, [o EXCEPT !.key = Built(o, odd).key])]
    /\ closed' = [closed EXCEPT ![r][side] = (o.frame = "stream_end")]
    /\ UNCHANGED <<objects, opened, count, answers>>

FNext == \E r \in DOMAIN Requests :
    \/ TakeRequest(r) \/ SignReply(r) \/ TakeAnswer(r)
    \/ \E s \in Requests[r].via : SignRelayError(r, s)
    \/ \E side \in Side : TakeStream(r, side)
    \/ \E side \in Side, frame \in {"stream_data", "stream_end", "stream_error", "stream_reply"} : SignStream(r, side, frame)

FSpec == FInit /\ [][FNext]_fvars
-----------------------------------------------------------------------------
\* Whatever comes in whatever order, a stream's side takes the other side's
\* frames of this very request, the i-th as the i-th; and a call's answers are
\* its target's, or its own station's, to this very request.
AnswersItsRequest == \A r \in DOMAIN Requests :
    /\ \A side \in Side : \A i \in DOMAIN taken[r][side] :
          LET o == taken[r][side][i]
          IN  o.label = (IF side = "caller" THEN "caller_stream" ELSE "stream") /\ o.request = r
              /\ o.key = Sender(r, side) /\ o.seq = i - 1 /\ i <= count[r][side]
    /\ \A o \in answers[r] :
          o.request = r /\ o.key = (IF o.label = "reply" THEN Requests[r].target ELSE HomeStation)
=============================================================================
