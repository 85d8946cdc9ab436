---------------------------------- MODULE Cbor ----------------------------------
(***************************************************************************)
(* The values of a frame on the wire: the deterministic encoder            *)
(* (cbor/encode.go), the decoder and its rule (cbor/decode.go), and what a *)
(* sender checks before it signs (frame/check_payload.go).                 *)
(*                                                                         *)
(* The widths are scaled: a head is a major type and an additional         *)
(* information below Heads, an argument byte a digit below Base, an        *)
(* argument has none, one or two of them, and a byte of text that is not   *)
(* UTF-8 is BadByte.  A float is narrow (the half and the single) or wide  *)
(* (the double), of one or two digits, and is NaN or infinite when its     *)
(* first is BadByte.  The bounds of the rule are constants.                *)
(***************************************************************************)
EXTENDS Integers, Sequences, FiniteSets, TLC

CONSTANTS
    MaxNestingDepth, MaxElements,
    FrameReservedElements, MaxFrameBytes,
    IntBound,      \* 2^63
    Payloads,      \* the values the model sends
    Bytes,         \* the bytes the model receives
    MaxInput       \* bound of the model on the bytes received

Base == 4
BadByte == 3
Heads == 8
maxInAI == 1
ai1 == 2
ai2 == 3
aiNull == 4
aiF64 == 5

VARIABLES
    payload,   \* the value a sender sends
    input      \* the bytes a receiver has

bvars == <<payload, input>>
-----------------------------------------------------------------------------
\* appendHead: the shortest form.
appendHead(major, value) ==
    CASE value <= maxInAI -> <<major * Heads + value>>
      [] value > maxInAI /\ value < Base -> <<major * Heads + ai1, value>>
      [] OTHER -> <<major * Heads + ai2, value \div Base, value % Base>>

lessBytes(a, b) ==
    \/ Len(a) < Len(b) /\ SubSeq(b, 1, Len(a)) = a
    \/ \E i \in DOMAIN a \intersect DOMAIN b : SubSeq(a, 1, i - 1) = SubSeq(b, 1, i - 1) /\ a[i] < b[i]

RECURSIVE Concat(_)
Concat(seqs) == IF seqs = <<>> THEN <<>> ELSE Head(seqs) \o Concat(Tail(seqs))

\* Encode: a map's entries in the order of their encoded keys.
RECURSIVE Encode(_)
Encode(v) ==
    CASE v.kind = "uint"   -> appendHead(0, v.arg)
      [] v.kind = "negint" -> appendHead(1, v.arg)
      [] v.kind = "bytes"  -> appendHead(2, Len(v.of)) \o v.of
      [] v.kind = "text"   -> appendHead(3, Len(v.of)) \o v.of
      [] v.kind = "list"   -> appendHead(4, Len(v.of)) \o Concat([i \in DOMAIN v.of |-> Encode(v.of[i])])
      [] v.kind = "map"    -> LET pairs == [i \in DOMAIN v.of |-> <<Encode(v.of[i][1]), Encode(v.of[i][2])>>]
                                  sorted == SortSeq(pairs, LAMBDA p, q : lessBytes(p[1], q[1]))
                              IN  appendHead(5, Len(v.of)) \o Concat([i \in DOMAIN sorted |-> sorted[i][1] \o sorted[i][2]])
      [] v.kind = "null"   -> <<7 * Heads + aiNull>>
      [] v.kind = "float"  -> <<7 * Heads + aiF64, v.arg \div Base, v.arg % Base>>
-----------------------------------------------------------------------------
\* A decoder's state: its data, how far it has read, and its element budget;
\* with the item it read, or the refusal.
Refused(why) == [refusal |-> why]
IsRefused(d) == "refusal" \in DOMAIN d
ReadAs(d, v) == [data |-> d.data, pos |-> d.pos, budget |-> d.budget, item |-> v]

Left(d) == Len(d.data) - d.pos
Peek(d, i) == d.data[d.pos + i]
Past(d, n) == [d EXCEPT !.pos = @ + n]

\* argument, and the bytes it takes: -1 for additional information that is none.
argumentWidth(ai) == IF ai <= maxInAI THEN 0 ELSE IF ai \in {ai1, ai2} THEN ai - maxInAI ELSE -1
argument(d, ai) == CASE ai <= maxInAI -> ai [] ai = ai1 -> Peek(d, 1) [] OTHER -> Peek(d, 1) * Base + Peek(d, 2)

\* keyOf: text or an integer.
KeyKinds == {"text", "uint", "negint"}

\* Mutant: a list may nest one level more.
NestsTooDeepLate(depth) == depth > MaxNestingDepth

NestsTooDeep(depth) == depth >= MaxNestingDepth

RECURSIVE item(_, _)
RECURSIVE items(_, _, _, _)
RECURSIVE entries(_, _, _, _)

\* list: its items, one level deeper.
items(d, count, depth, of) ==
    IF count = 0 THEN ReadAs(d, [kind |-> "list", of |-> of])
    ELSE LET next == item(d, depth + 1)
         IN  IF IsRefused(next) THEN next ELSE items(next, count - 1, depth, Append(of, next.item))

\* mapOf: an entry's value is read before its key is judged.
entries(d, count, depth, of) ==
    IF count = 0 THEN ReadAs(d, [kind |-> "map", of |-> of])
    ELSE LET key == item(d, depth + 1)
             val == item(key, depth + 1)
         IN  IF IsRefused(key) THEN key
             ELSE IF IsRefused(val) THEN val
             ELSE IF key.item.kind \notin KeyKinds THEN Refused("bad_key")
             ELSE IF \E i \in DOMAIN of : of[i][1] = key.item THEN Refused("duplicate_key")
             ELSE entries(val, count - 1, depth, Append(of, <<key.item, val.item>>))

\* count: one item less, once its bytes were read.
Counted(d, read) == IF d.budget = 0 THEN Refused("too_many_elements") ELSE read

\* floatWidths, and floatFrom, which widens a narrow float exactly.
floatWidth(ai) == IF ai = aiF64 THEN 2 ELSE 1
floatFrom(d, ai) == IF ai = aiF64 THEN Peek(d, 1) * Base + Peek(d, 2) ELSE Peek(d, 1) * Base
IsFinite(arg) == arg \div Base # BadByte

\* simpleOrFloat: null, or a finite float.  Another simple value is counted
\* before it is refused.
simpleOrFloat(d, ai) ==
    CASE ai = aiNull -> Counted(d, ReadAs([d EXCEPT !.budget = @ - 1], [kind |-> "null"]))
      [] ai \in {ai2, aiF64} ->
             IF Left(d) < floatWidth(ai) THEN Refused("malformed")
             ELSE Counted(d, IF IsFinite(floatFrom(d, ai))
                             THEN ReadAs([Past(d, floatWidth(ai)) EXCEPT !.budget = @ - 1],
                                         [kind |-> "float", arg |-> floatFrom(d, ai)])
                             ELSE Refused("malformed"))
      [] ai <= ai1 -> IF argumentWidth(ai) > Left(d) THEN Refused("malformed") ELSE Counted(d, Refused("malformed"))
      [] OTHER -> Refused("malformed")

\* byteString and text: n bytes that are there.
stringOf(d, kind, n) ==
    LET of == SubSeq(d.data, d.pos + 1, d.pos + n)
    IN  IF n > Left(d) THEN Refused("malformed")
        ELSE IF kind = "text" /\ \E i \in DOMAIN of : of[i] = BadByte THEN Refused("invalid_text")
        ELSE ReadAs(Past(d, n), [kind |-> kind, of |-> of])

\* item: counted once its head and argument are read, before its own checks.
item(at, depth) ==
    IF IsRefused(at) THEN at
    ELSE IF Left(at) < 1 THEN Refused("malformed")
    ELSE LET head  == Peek(at, 1)
             major == head \div Heads
             ai    == head % Heads
             d     == [Past(at, 1) EXCEPT !.budget = IF @ = 0 THEN 0 ELSE @ - 1]
             width == argumentWidth(ai)
             arg   == argument(d, ai)
             body  == Past(d, width)
         IN  IF major = 7 THEN simpleOrFloat(Past(at, 1), ai)
             ELSE IF width = -1 \/ width > Left(d) THEN Refused("malformed")
             ELSE IF at.budget = 0 THEN Refused("too_many_elements")
             ELSE CASE major \in {0, 1} ->
                           IF arg >= IntBound THEN Refused("integer_out_of_range")
                           ELSE ReadAs(body, [kind |-> <<"uint", "negint">>[major + 1], arg |-> arg])
                    [] major \in {2, 3} -> stringOf(body, <<"bytes", "text">>[major - 1], arg)
                    [] major = 4 -> IF NestsTooDeep(depth) THEN Refused("nesting_too_deep") ELSE items(body, arg, depth, <<>>)
                    [] major = 5 -> IF NestsTooDeep(depth) THEN Refused("nesting_too_deep") ELSE entries(body, arg, depth, <<>>)
                    [] OTHER -> Refused("malformed")

\* Decode: exactly one value.
Decode(data) ==
    LET read == item([data |-> data, pos |-> 0, budget |-> MaxElements, item |-> <<>>], 0)
    IN  IF ~IsRefused(read) /\ Left(read) # 0 THEN Refused("trailing_bytes") ELSE read
-----------------------------------------------------------------------------
\* ruleCheck.value: the items of v, itself counted, and whether each is one the
\* decoding rule takes, path deep.
RECURSIVE elements(_)
elements(v) ==
    CASE v.kind = "list" -> 1 + (IF v.of = <<>> THEN 0 ELSE elements(Head(v.of)) + elements([v EXCEPT !.of = Tail(@)]) - 1)
      [] v.kind = "map"  -> 1 + (IF v.of = <<>> THEN 0
                                 ELSE elements(Head(v.of)[1]) + elements(Head(v.of)[2]) + elements([v EXCEPT !.of = Tail(@)]) - 1)
      [] OTHER -> 1

RECURSIVE ruleCheck(_, _, _)
ruleCheck(v, path, maxNesting) ==
    CASE v.kind \in {"uint", "negint"} -> v.arg < IntBound
      [] v.kind = "float" -> IsFinite(v.arg)
      [] v.kind = "text"  -> \A i \in DOMAIN v.of : v.of[i] # BadByte
      [] v.kind = "list"  -> path < maxNesting /\ \A i \in DOMAIN v.of : ruleCheck(v.of[i], path + 1, maxNesting)
      [] v.kind = "map"   ->
           /\ path < maxNesting
           /\ \A i \in DOMAIN v.of :
                 /\ v.of[i][1].kind \in KeyKinds /\ ruleCheck(v.of[i][1], path, maxNesting)
                 /\ \A j \in 1..(i - 1) : Encode(v.of[j][1]) # Encode(v.of[i][1])
                 /\ ruleCheck(v.of[i][2], path + 1, maxNesting)
      [] OTHER -> TRUE

\* CheckPayload looks at the payload's own bytes alone; frame.Encode refuses a
\* frame over the cap, and the link's writer and reader do.
Fits(v) == Len(Encode(v)) <= MaxFrameBytes

CheckPayload(v) ==
    /\ ruleCheck(v, 0, MaxNestingDepth - 1) /\ elements(v) <= MaxElements - FrameReservedElements
    /\ Fits(v)

CheckFrame(v) == ruleCheck(v, 0, MaxNestingDepth) /\ elements(v) <= MaxElements

\* A frame around a payload.
FrameOf(v) == [kind |-> "map", of |-> << <<[kind |-> "text", of |-> <<1>>], v>>, <<[kind |-> "uint", arg |-> 0], [kind |-> "null"]>> >>]
-----------------------------------------------------------------------------
BInit == payload = [kind |-> "null"] /\ input = <<>>

SendsPayload == \E v \in Payloads : input = <<>> /\ payload.kind = "null" /\ payload' = v /\ UNCHANGED input

ByteArrives == \E b \in Bytes : Len(input) < MaxInput /\ payload.kind = "null" /\ input' = Append(input, b) /\ UNCHANGED payload

BNext == SendsPayload \/ ByteArrives
-----------------------------------------------------------------------------
\* A payload a sender's check passes arrives in any frame that is within the
\* cap: the frame around it decodes, to a value of the same encoding, whatever
\* order its maps were written in.  And what a receiver decodes, in whatever
\* widths its lengths and floats came, passes CheckFrame, and encodes to
\* something that decodes to the same.
SentIsTaken ==
    /\ CheckPayload(payload) /\ Fits(FrameOf(payload)) =>
          LET read == Decode(Encode(FrameOf(payload)))
          IN  ~IsRefused(read) /\ Encode(read.item) = Encode(FrameOf(payload))
    /\ LET read == Decode(input)
       IN  ~IsRefused(read) => /\ CheckFrame(read.item)
                               /\ LET again == Decode(Encode(read.item))
                                  IN  ~IsRefused(again) /\ Encode(again.item) = Encode(read.item)
=============================================================================
