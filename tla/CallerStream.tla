------------------------------ MODULE CallerStream ------------------------------
(***************************************************************************)
(* One stream at its caller (stationlink/stream_open.go, stream.go,        *)
(* stream_seal.go): opened clear or sealed, adopted when the provider      *)
(* refuses a clear open and names its key, resealed when it refuses the    *)
(* key a sealed open used.  An adoption or a reseal opens another session  *)
(* on another QUIC stream under the same Stream, while the owner sends.    *)
(*                                                                         *)
(* The owner, the reader and the goroutine that adopts run side by side;   *)
(* sendMu is held across each write, and by an adoption from the copy it   *)
(* takes to the last frame of its replay.  Sealing is under the keys of a  *)
(* session, named by its number; 0 is in the clear.                        *)
(***************************************************************************)
EXTENDS Checks, Integers, Sequences

CONSTANTS
    RetainBound,   \* streamInbox, in actions: what a clear stream's copy may hold
    MaxSends,      \* bound of the model on the owner's sends
    MaxReceived    \* bound of the model on the provider's data frames

Session == 1..3

VARIABLES
    session,     \* the session installed: Stream.qs, writer and open
    keys,        \* Stream.sealing
    call,        \* Stream.reopen: "none", "kept", or kept with its Reseal
    retained,    \* Stream.retained: the copy, kept while retains
    retains,
    sendSeq, sentEnd, peerEnded, settled,
    ended,       \* end has run
    sendMu,      \* who holds it: "none", "owner", "adoption", "reseal"
    sending,     \* the owner's write: its action, number and keys
    reading,     \* the reader: "reads", "adopts", "reseals", "opening", "stopped"
    replay,      \* the copy an adoption has still to write
    nextSeq,     \* the verifier's state: the provider's next seq
    wires,       \* per session, the frames written on it
    asked,       \* the owner's actions: all but those that failed with no copy
    adopted      \* the session an adoption opened, 0 for none

csvars == <<session, keys, call, retained, retains, sendSeq, sentEnd, peerEnded, settled, ended, sendMu,
            sending, reading, replay, nextSeq, wires, asked, adopted>>

sends == <<sendSeq, sentEnd, wires>>
copies == <<retained, retains>>

\* OpenStream: a clear open keeps the call and a copy of what it sends; a sealed
\* one the call that gives it a Reseal.
CSInit ==
    /\ session = 1 /\ keys \in {0, 1}
    /\ call \in IF keys = 0 THEN {"kept", "reseals"} ELSE {"none", "reseals"}
    /\ retained = <<>> /\ retains = (keys = 0)
    /\ sendSeq = 0 /\ sentEnd = FALSE /\ peerEnded = FALSE /\ settled = FALSE /\ ended = FALSE
    /\ sendMu = "none" /\ sending = [what |-> "none", seq |-> 0, keys |-> 0]
    /\ reading = "reads" /\ replay = <<>> /\ nextSeq = 0
    /\ wires = [s \in Session |-> <<>>] /\ asked = <<>> /\ adopted = 0

ClosesSide(what) == what # "data"

\* streamSeal.sealed: a STREAM_END goes as it is.
SealedUnder(what, k) == IF what = "end" THEN 0 ELSE k
-----------------------------------------------------------------------------
\* end: once, and this side sends no more.
End == ended' = TRUE /\ sentEnd' = TRUE

\* retain: the copy grows, or is dropped past its bound.
retain(what) ==
    /\ retains' = (retains /\ Len(retained) < RetainBound)
    /\ retained' = IF retains' THEN Append(retained, what) ELSE <<>>

\* A frame written on the session that is installed now.
Written(what, seq, k) ==
    /\ wires' = [wires EXCEPT ![session] = Append(@, [what |-> what, seq |-> seq, keys |-> SealedUnder(what, k)])]
    /\ sendSeq' = sendSeq + 1

\* write, to the copy: numbered and sealed under the keys of now, before the
\* write itself.  CloseSend and Close send a STREAM_END and Abort a STREAM_ERROR,
\* this side's last frame; the last two end the stream after it (LinkEnds).
SendBegins(what) ==
    /\ sendMu = "none" /\ ~sentEnd /\ sending.what = "none" /\ Len(asked) < MaxSends
    /\ sendMu' = "owner"
    /\ sending' = [what |-> what, seq |-> sendSeq, keys |-> keys]
    /\ asked' = Append(asked, what)
    /\ retain(what)
    /\ UNCHANGED <<session, keys, call, sends, peerEnded, settled, ended, reading, replay, nextSeq, adopted>>

\* write: the frame is out; a last frame after the peer's ends the stream.
SendReturns ==
    /\ sendMu = "owner" /\ ~ended
    /\ Written(sending.what, sending.seq, sending.keys)
    /\ sentEnd' = (sentEnd \/ ClosesSide(sending.what))
    /\ ended' = (ClosesSide(sending.what) /\ peerEnded)
    /\ sendMu' = "none" /\ sending' = [sending EXCEPT !.what = "none"]
    /\ UNCHANGED <<session, keys, call, copies, peerEnded, settled, reading, replay, nextSeq, asked, adopted>>

\* write, failed: this side is closed, unless a copy may still be replayed.
SendFails ==
    /\ sendMu = "owner"
    /\ sentEnd' = (sentEnd \/ ~retains)
    /\ asked' = IF retains THEN asked ELSE SubSeq(asked, 1, Len(asked) - 1)
    /\ sendMu' = "none" /\ sending' = [sending EXCEPT !.what = "none"]
    /\ UNCHANGED <<session, keys, call, copies, sendSeq, wires, peerEnded, settled, ended, reading, replay, nextSeq, adopted>>

\* endStreams: the link has ended.  The same end is Close's and Abort's, after
\* the frame they sent.
LinkEnds ==
    /\ ~ended /\ End
    /\ UNCHANGED <<session, keys, call, copies, sendSeq, wires, peerEnded, settled, sendMu, sending, reading, replay, nextSeq, asked, adopted>>
-----------------------------------------------------------------------------
\* The frames a provider sends: seq, the keys it is sealed under, and for an
\* error its code, for sealed_required with the provider's key or not.
PeerFrame ==
    [kind : {"end", "both"}, seq : 0..MaxReceived, keys : {0}, fault : {"none"}]
      \union [kind : {"data", "reply"}, seq : 0..MaxReceived, keys : 0..3, fault : {"none"}]
      \union [kind : {"sealed_required_key", "sealed_required", "sealed_refused", "clear_refusal", "error"},
              seq : 0..MaxReceived, keys : {0, session}, fault : {"none"}]
      \union [kind : {"data"}, seq : {nextSeq}, keys : {keys}, fault : {"decode", "shape", "signature", "enum", "signer", "request"}]

\* VerifyProviderStream, and unsealed's refusals that are the stream's own
\* fault: "none" for a frame taken or one that refuses the open.
FrameFault(f) == FirstFault(<<
    <<f.fault \in {"decode", "shape", "signature", "signer", "request"}, "malformed_frame">>,
    <<f.fault = "enum", "enum_unknown">>,
    <<f.seq # nextSeq, "malformed_frame">>,
    <<keys # 0 /\ f.keys # 0 /\ f.keys # keys, "malformed_frame">>,
    <<keys # 0 /\ f.keys = 0 /\ f.kind \notin {"end", "both"}
        /\ ~(f.seq = 0 /\ f.kind \in {"sealed_refused", "clear_refusal"}), "malformed_frame">> >>)

\* unsealed: a refusal of the seal.
RefusesSeal(f) == IF keys = 0 THEN f.keys # 0 ELSE f.keys = 0 /\ f.kind = "sealed_refused"

\* adoptionKey.
NamesKey(f) == f.kind = "sealed_required_key" /\ f.seq = 0 /\ f.keys = 0

\* The report settles on a data or reply frame, on a clear stream on its end too.
Settles(f) == f.kind \in {"data", "reply"} \/ (keys = 0 /\ f.kind \in {"end", "both"})

\* fail: the reader's own STREAM_ERROR, when it still can send, and the end.
Fails ==
    /\ sendMu = "none"
    /\ \/ UNCHANGED <<sendSeq, wires, asked>>
       \/ ~sentEnd /\ Written("error", sendSeq, keys) /\ asked' = Append(asked, "error")
    /\ End /\ reading' = "stopped"
    /\ UNCHANGED <<session, keys, call, peerEnded, sendMu, sending, replay, nextSeq, adopted>>

\* verifiedFrame, refuseUnsealed: a frame that is refused fails the stream.
FrameRefused(f) == FrameFault(f) # "none" /\ Fails /\ UNCHANGED <<copies, settled>>

\* applyFrame: a chunk the inbox has no room for fails it too.
InboxOverflows(f) ==
    /\ FrameFault(f) = "none" /\ ~RefusesSeal(f) /\ f.kind = "data"
    /\ retains' = FALSE /\ retained' = <<>> /\ settled' = TRUE
    /\ Fails

\* A relay error, or a frame of a type no stream knows: the stream ends.
StreamRefused ==
    /\ peerEnded' \in {peerEnded, TRUE} /\ End /\ reading' = "stopped"
    /\ UNCHANGED <<session, keys, call, copies, sendSeq, wires, settled, sendMu, sending, replay, nextSeq, asked, adopted>>

\* A refusal the stream may reseal or adopt on: the reader goes for sendMu.
RefusalRead(f) ==
    /\ FrameFault(f) = "none"
    /\ \/ RefusesSeal(f) /\ reading' = "reseals"
       \/ ~RefusesSeal(f) /\ retains /\ NamesKey(f) /\ reading' = "adopts"
    /\ UNCHANGED <<session, keys, call, copies, sends, peerEnded, settled, ended, sendMu, sending, replay, nextSeq, asked, adopted>>

\* received: the frame applies, the copy is dropped at the provider's first.
FrameApplied(f) ==
    /\ FrameFault(f) = "none" /\ ~RefusesSeal(f) /\ ~(retains /\ NamesKey(f))
    /\ retains' = FALSE /\ retained' = <<>>
    /\ settled' = (settled \/ Settles(f))
    /\ nextSeq' = nextSeq + 1
    /\ reading' = IF f.kind = "data" THEN "reads" ELSE "stopped"
    /\ peerEnded' = (f.kind # "data")
    /\ IF f.kind = "data" \/ (f.kind = "end" /\ ~sentEnd) THEN UNCHANGED <<sentEnd, ended>> ELSE End
    /\ UNCHANGED <<session, keys, call, sendSeq, wires, sendMu, sending, replay, asked, adopted>>

\* read: until the stream's end stops it, and on a session that a reseal installs
\* after the end, which nothing stops.
Receive ==
    /\ reading = "reads"
    /\ StreamRefused \/ \E f \in PeerFrame : FrameRefused(f) \/ InboxOverflows(f) \/ RefusalRead(f) \/ FrameApplied(f)

\* readEnded: the peer direction failed before its end.
ReadEnds ==
    /\ reading = "reads" /\ End /\ reading' = "stopped"
    /\ UNCHANGED <<session, keys, call, copies, sendSeq, wires, peerEnded, settled, sendMu, sending, replay, nextSeq, asked, adopted>>

\* peerFinished on a refusal nothing came of.
RefusalEnds ==
    /\ peerEnded' = TRUE /\ End /\ reading' = "stopped"
    /\ UNCHANGED copies

\* A session opened on, and installed by, an adoption or a reseal: a reader of
\* its own, from the provider's first frame.
Installs ==
    /\ session' = session + 1 /\ keys' = session'
    /\ reading' = "reads" /\ nextSeq' = 0
-----------------------------------------------------------------------------
\* adopting, firstPeerFrame: the copy is taken, unless a send meanwhile dropped
\* it: then the refusal is what the provider said.
AdoptionTakes ==
    /\ reading = "adopts" /\ sendMu = "none"
    /\ \/ /\ ~retains /\ RefusalEnds
          /\ UNCHANGED <<session, keys, sendSeq, wires, sendMu, replay, nextSeq, adopted>>
       \/ /\ retains /\ sendMu' = "adoption" /\ replay' = retained
          /\ retains' = FALSE /\ retained' = <<>> /\ reading' = "opening"
          /\ UNCHANGED <<session, keys, sends, peerEnded, ended, nextSeq, adopted>>
    /\ UNCHANGED <<call, settled, sending, asked>>

\* Mutant: the replay goes on with the refused session's numbers.
AdoptionOpensNumberedOn ==
    /\ reading = "opening" /\ sendMu = "adoption" /\ ~ended
    /\ Installs /\ adopted' = session'
    /\ sentEnd' = FALSE
    /\ UNCHANGED <<call, copies, peerEnded, settled, ended, sendMu, sending, replay, sendSeq, wires, asked>>

\* adopt: the session opened sealed is installed, numbered from 0, unless the
\* stream has ended meanwhile.
AdoptionOpens ==
    /\ reading = "opening" /\ sendMu = "adoption" /\ ~ended
    /\ Installs /\ adopted' = session'
    /\ sendSeq' = 0 /\ sentEnd' = FALSE
    /\ UNCHANGED <<call, copies, peerEnded, settled, ended, sendMu, sending, replay, wires, asked>>

\* adopt: the open failed, or the stream ended while it was in flight.
AdoptionFails ==
    /\ reading = "opening" /\ sendMu = "adoption" /\ End
    /\ reading' = "stopped" /\ sendMu' = "none" /\ replay' = <<>>
    /\ UNCHANGED <<session, keys, call, copies, sendSeq, wires, peerEnded, settled, sending, nextSeq, asked, adopted>>

Replaying == sendMu = "adoption" /\ reading # "opening"

\* adopt: the copy, in order, on the new session.
ReplayWrites ==
    /\ Replaying /\ replay # <<>> /\ ~sentEnd
    /\ Written(Head(replay), sendSeq, keys)
    /\ sentEnd' = ClosesSide(Head(replay))
    /\ ended' = (ClosesSide(Head(replay)) /\ peerEnded)
    /\ replay' = Tail(replay)
    /\ UNCHANGED <<session, keys, call, copies, peerEnded, settled, sendMu, sending, reading, nextSeq, asked, adopted>>

\* adopt: the replay is out, or a write of it failed.
ReplayEnds ==
    /\ Replaying /\ sendMu' = "none" /\ replay' = <<>>
    /\ IF replay = <<>> THEN UNCHANGED <<sentEnd, ended>> ELSE End
    /\ UNCHANGED <<session, keys, call, copies, sendSeq, wires, peerEnded, settled, sending, reading, nextSeq, asked, adopted>>

\* resealed, to the reopen: once, of a sealed stream that has sent nothing, with
\* the key Reseal gives, else the refusal ends the stream.
ResealTakes(key) ==
    /\ reading = "reseals" /\ (call = "reseals" => sendMu = "none")
    /\ call' = "none"
    /\ IF call = "reseals" /\ sendSeq = 0 /\ keys # 0 /\ key
       THEN sendMu' = "reseal" /\ reading' = "opening" /\ UNCHANGED <<copies, sentEnd, peerEnded, ended>>
       ELSE RefusalEnds /\ UNCHANGED sendMu
    /\ UNCHANGED <<session, keys, sendSeq, wires, settled, sending, replay, nextSeq, asked, adopted>>

\* resealed: the new session is installed, or its open failed.
ResealOpens ==
    /\ reading = "opening" /\ sendMu = "reseal"
    /\ sendMu' = "none"
    /\ \/ Installs /\ UNCHANGED <<sentEnd, ended>>
       \/ End /\ reading' = "stopped" /\ UNCHANGED <<session, keys, nextSeq>>
    /\ UNCHANGED <<call, copies, sendSeq, wires, peerEnded, settled, sending, replay, asked, adopted>>

CSNext ==
    \/ \E what \in {"data", "end", "error"} : SendBegins(what)
    \/ SendReturns \/ SendFails \/ LinkEnds
    \/ Receive \/ ReadEnds
    \/ AdoptionTakes \/ AdoptionOpens \/ AdoptionFails \/ ReplayWrites \/ ReplayEnds
    \/ \E key \in BOOLEAN : ResealTakes(key)
    \/ ResealOpens

CSSpec == CSInit /\ [][CSNext]_csvars
-----------------------------------------------------------------------------
SealedOn(s) == IF s = 1 /\ (adopted # 0 \/ keys = 0) THEN 0 ELSE s

\* Each session is whole: its frames are numbered from 0 without a gap, and all
\* sealed under its own keys, or all clear on a clear one.  The session an
\* adoption opened carries what the owner asked for from the stream's start,
\* once each and in order, and all of it when no send is in flight.
SessionsWhole ==
    /\ \A s \in Session, i \in 1..MaxSends + 1 : i \in DOMAIN wires[s] =>
          /\ wires[s][i].seq = i - 1
          /\ wires[s][i].keys = SealedUnder(wires[s][i].what, SealedOn(s))
    /\ (adopted # 0 /\ session = adopted) =>
          LET on == [i \in DOMAIN wires[adopted] |-> wires[adopted][i].what]
          IN  (\E n \in 0..Len(asked) : on = SubSeq(asked, 1, n)) /\ (sendMu = "none" /\ ~ended => on = asked)
=============================================================================
