---------------------------- MODULE ServedStreams ----------------------------
(***************************************************************************)
(* The streams a provider serves on one link (stationlink/stream_serve.go, *)
(* stationlink/stream.go), and the node's budgets they draw on: session    *)
(* places and unread inbox bytes (stationlink/admission.go openSession,    *)
(* chargeInbox), and the link's drain places.                              *)
(*                                                                         *)
(* Each stream has a reader, which verifies the caller's frames and queues *)
(* them, and a handler, which reads the queue, sends, and ends its side.   *)
(* A send holds the stream's send mutex across its write, which waits on   *)
(* the caller's flow control.  The reader, the handler and the link's own  *)
(* end may all end the stream; end runs once, in steps that take different *)
(* locks, and the others run between them.                                 *)
(***************************************************************************)
EXTENDS Integers, Sequences, FiniteSets, Functions

CONSTANTS
    Stream,                  \* the QUIC streams the station opens to the link
    Caller, CallerOf,
    SessionsPerCaller, Sessions,          \* AdmissionLimits
    InboxBytesPerCaller, InboxBytes,
    InboxBound,              \* streamInbox: one stream's unread bytes
    MaxRefusalDrains,
    Size,                    \* the sizes a caller's frame may have
    NoFrame

Phase == {"none", "placed", "draining", "drained", "refused", "live", "gone"}

\* end: not called, about to run in the goroutine that calls it, begun (mu taken
\* once), what it held given back, done.
EndStep == {"no", "called", "begun", "refunded", "done"}

\* Who holds sendMu: nobody, or a write of a chunk, of this side's end, of
\* the handler's last frame before end, of the reader's abort before end.
Write == {"no", "chunk", "end", "close", "abort"}

\* The frames a reader queues: a STREAM_DATA, a STREAM_END of one side or both.
Frame == [kind: {"data", "end", "both"}, size: Size]

ASSUME StreamAssumption ==
    CallerOf \in [Stream -> Caller] /\ IsFiniteSet(Stream)

ASSUME BoundsAssumption ==
    /\ SessionsPerCaller \in Nat \ {0} /\ Sessions \in Nat /\ SessionsPerCaller <= Sessions
    /\ InboxBytesPerCaller \in Nat \ {0} /\ InboxBytes \in Nat
    /\ InboxBytesPerCaller <= InboxBytes
    /\ InboxBound \in Nat /\ MaxRefusalDrains \in Nat
    /\ Size \subseteq Nat \ {0}

ASSUME NoFrameAssumption ==
    NoFrame \notin Frame

VARIABLES
    phase,       \* per stream: how far incoming took it
    place,       \* per stream: whether it holds a session's place
    inbox,       \* per stream: the sizes of the events queued for Recv
    held,        \* per stream: Stream.held, the bytes the queue holds
    endStep, owed,       \* per stream: its end, and the bytes end refunds
    recvOwed,    \* per stream: bytes a Recv took and has not given back yet
    sentEnd, peerEnded,
    lastWritten, \* history, per stream: CloseSend's frame went out before an end was called
    writing,     \* per stream: the write that holds sendMu
    reader,      \* per stream: "off", "on", "failing" (in fail, before its send)
    inHand,      \* per stream: the frame its reader verified, not yet applied
    handler,     \* per stream: "off", "on", "left"
    sessions, sessionsTotal, inboxBytes, inboxTotal,    \* Admission's budgets
    drains,      \* Link.drains
    streams,     \* Link.streams
    link,        \* Link.end: "up", "ending", a stream being ended, "cut", "done"
    toEnd        \* the streams endStreams copied and has not ended

budgets == <<sessions, sessionsTotal, inboxBytes, inboxTotal>>
queue == <<inbox, held>>
ending == <<queue, endStep, owed, sentEnd>>
sides == <<peerEnded, lastWritten, writing>>
reads == <<reader, inHand>>
linkVars == <<drains, streams, link, toEnd>>
vars == <<phase, place, recvOwed, ending, sides, reads, handler, budgets, linkVars>>

\* The QUIC connection takes and gives frames.
conn == link \notin {"cut", "done"}

\* decrement: the map drops a key at zero, and reads as zero from then on.
decrement(m, n) == IF m - n <= 0 THEN 0 ELSE m - n

Init ==
    /\ phase = [s \in Stream |-> "none"]
    /\ place = [s \in Stream |-> FALSE]
    /\ inbox = [s \in Stream |-> <<>>]
    /\ held = [s \in Stream |-> 0]
    /\ endStep = [s \in Stream |-> "no"]
    /\ owed = [s \in Stream |-> 0]
    /\ recvOwed = [s \in Stream |-> 0]
    /\ sentEnd = [s \in Stream |-> FALSE]
    /\ peerEnded = [s \in Stream |-> FALSE]
    /\ lastWritten = [s \in Stream |-> FALSE]
    /\ writing = [s \in Stream |-> "no"]
    /\ reader = [s \in Stream |-> "off"]
    /\ inHand = [s \in Stream |-> NoFrame]
    /\ handler = [s \in Stream |-> "off"]
    /\ sessions = [c \in Caller |-> 0] /\ sessionsTotal = 0
    /\ inboxBytes = [c \in Caller |-> 0] /\ inboxTotal = 0
    /\ drains = 0
    /\ streams = {}
    /\ link = "up" /\ toEnd = {}
------------------------------------------------------------------------------
\* The queue a step leaves: q, of n bytes.
Queued(s, q, n) ==
    /\ inbox' = [inbox EXCEPT ![s] = q]
    /\ held' = [held EXCEPT ![s] = n]

\* A call of end is coming: endOnce lets the first one in only.
CallEnd(s) == endStep' = [endStep EXCEPT ![s] = IF @ = "no" THEN "called" ELSE @]

\* Mutant: end leaves the queued events their sizes.
EndBeginKeepsSizes(s) ==
    /\ endStep[s] = "called"
    /\ endStep' = [endStep EXCEPT ![s] = "begun"]
    /\ owed' = [owed EXCEPT ![s] = held[s]]
    /\ Queued(s, inbox[s], 0)
    /\ sentEnd' = [sentEnd EXCEPT ![s] = TRUE]
    /\ UNCHANGED <<phase, place, recvOwed, sides, reads, handler, budgets, linkVars>>

\* The first critical section of end: what the queue holds is owed back, and the
\* queued events weigh nothing from then on.
EndBegin(s) ==
    /\ endStep[s] = "called"
    /\ endStep' = [endStep EXCEPT ![s] = "begun"]
    /\ owed' = [owed EXCEPT ![s] = held[s]]
    /\ Queued(s, [i \in DOMAIN inbox[s] |-> 0], 0)
    /\ sentEnd' = [sentEnd EXCEPT ![s] = TRUE]
    /\ UNCHANGED <<phase, place, recvOwed, sides, reads, handler, budgets, linkVars>>

\* A stream that fails before a session exists: unread, malformed, unverified,
\* refused by the admission, a copy.
DropOpen(s) ==
    /\ phase[s] = "none" /\ conn
    /\ phase' = [phase EXCEPT ![s] = "gone"]
    /\ UNCHANGED <<place, recvOwed, ending, sides, reads, handler, budgets, linkVars>>

SessionsFull(c) == sessions[c] >= SessionsPerCaller \/ sessionsTotal >= Sessions

\* incoming's openSession: a full bound refuses too_many_sessions.
OpenSession(s) ==
    LET c == CallerOf[s] IN
    /\ phase[s] = "none" /\ conn
    /\ IF SessionsFull(c)
       THEN /\ phase' = [phase EXCEPT ![s] = "gone"]
            /\ UNCHANGED <<place, sessions, sessionsTotal>>
       ELSE /\ phase' = [phase EXCEPT ![s] = "placed"]
            /\ place' = [place EXCEPT ![s] = TRUE]
            /\ sessions' = [sessions EXCEPT ![c] = @ + 1]
            /\ sessionsTotal' = sessionsTotal + 1
    /\ UNCHANGED <<recvOwed, ending, sides, reads, handler, inboxBytes, inboxTotal, linkVars>>

\* At most MaxRefusalDrains refusals drain at once.
takeDrain(replayable) == replayable /\ drains < MaxRefusalDrains

\* servedStream refused the open: refuseCarrying writes the refusal and ends
\* the stream, or drains a replayable one, when it was written and the link has a
\* drain place.
RefuseOpen(s, replayable) ==
    /\ phase[s] = "placed"
    /\ sentEnd' = [sentEnd EXCEPT ![s] = TRUE]
    /\ IF takeDrain(replayable)
       THEN /\ drains' = drains + 1
            /\ phase' = [phase EXCEPT ![s] = "draining"]
            /\ UNCHANGED endStep
       ELSE /\ phase' = [phase EXCEPT ![s] = "refused"]
            /\ CallEnd(s)
            /\ UNCHANGED drains
    /\ UNCHANGED <<place, queue, recvOwed, owed, sides, reads, handler, budgets,
                   streams, link, toEnd>>

\* Mutant: the drain forgets to end the stream it read out.
DrainEndsSilently(s) ==
    /\ phase[s] = "draining"
    /\ phase' = [phase EXCEPT ![s] = "drained"]
    /\ UNCHANGED <<place, recvOwed, ending, sides, reads, handler, budgets, linkVars>>

\* drainRefused: the caller's side ended, or a bound of the drain did.
DrainEnds(s) ==
    /\ phase[s] = "draining"
    /\ phase' = [phase EXCEPT ![s] = "drained"]
    /\ CallEnd(s)
    /\ UNCHANGED <<place, queue, recvOwed, owed, sentEnd, sides, reads, handler, budgets, linkVars>>

giveDrain(s) ==
    /\ phase[s] = "drained" /\ endStep[s] = "done"
    /\ phase' = [phase EXCEPT ![s] = "refused"]
    /\ drains' = drains - 1
    /\ UNCHANGED <<place, recvOwed, ending, sides, reads, handler, budgets, streams, link, toEnd>>

\* Mutant: the release forgets the node's total.
ReleaseCallerOnly(s) ==
    /\ place' = [place EXCEPT ![s] = FALSE]
    /\ IF place[s]
       THEN /\ sessions' = [sessions EXCEPT ![CallerOf[s]] = decrement(@, 1)]
            /\ UNCHANGED sessionsTotal
       ELSE UNCHANGED <<sessions, sessionsTotal>>

\* Admission.openSession's release, once: a stream gives back the place it has.
Release(s) ==
    /\ place' = [place EXCEPT ![s] = FALSE]
    /\ IF place[s]
       THEN /\ sessions' = [sessions EXCEPT ![CallerOf[s]] = decrement(@, 1)]
            /\ sessionsTotal' = sessionsTotal - 1
       ELSE UNCHANGED <<sessions, sessionsTotal>>

\* servedStream took the open: the link holds the stream and its reader and
\* handler start, or the link has ended and the stream is abandoned.
Serve(s) ==
    /\ phase[s] = "placed"
    /\ IF link # "done"
       THEN /\ streams' = streams \cup {s}
            /\ phase' = [phase EXCEPT ![s] = "live"]
            /\ reader' = [reader EXCEPT ![s] = "on"]
            /\ handler' = [handler EXCEPT ![s] = "on"]
            /\ UNCHANGED <<place, sessions, sessionsTotal>>
       ELSE /\ Release(s)
            /\ phase' = [phase EXCEPT ![s] = "gone"]
            /\ UNCHANGED <<streams, reader, handler>>
    /\ UNCHANGED <<recvOwed, ending, sides, inHand, inboxBytes, inboxTotal,
                   drains, link, toEnd>>
------------------------------------------------------------------------------
\* end's CancelWrite and CancelRead, after its first critical section.
Cancelled(s) == endStep[s] \in {"refunded", "done"}

\* The reader takes a frame off the stream and verifies it.
ReadFrame(s, f) ==
    /\ reader[s] = "on" /\ inHand[s] = NoFrame
    /\ conn /\ ~Cancelled(s)
    /\ inHand' = [inHand EXCEPT ![s] = f]
    /\ UNCHANGED <<phase, place, recvOwed, ending, sides, reader, handler, budgets, linkVars>>

\* A frame that does not decode, verify or open.
ReadMalformed(s) ==
    /\ reader[s] = "on" /\ inHand[s] = NoFrame
    /\ conn /\ ~Cancelled(s)
    /\ reader' = [reader EXCEPT ![s] = "failing"]
    /\ UNCHANGED <<phase, place, recvOwed, ending, sides, inHand, handler, budgets, linkVars>>

\* A STREAM_ERROR queues nothing: peerFinished ends the stream.
ReadError(s) ==
    /\ reader[s] = "on" /\ inHand[s] = NoFrame
    /\ conn /\ ~Cancelled(s)
    /\ reader' = [reader EXCEPT ![s] = "off"]
    /\ peerEnded' = [peerEnded EXCEPT ![s] = TRUE]
    /\ CallEnd(s)
    /\ UNCHANGED <<phase, place, queue, recvOwed, owed, sentEnd, lastWritten, writing, inHand,
                   handler, budgets, linkVars>>

\* readEnded: the read direction was stopped by end, reset by the peer, or
\* lost with the connection.  A frame of an unknown type ends the stream alike.
ReadFails(s) ==
    /\ reader[s] = "on" /\ inHand[s] = NoFrame
    /\ reader' = [reader EXCEPT ![s] = "off"]
    /\ CallEnd(s)
    /\ UNCHANGED <<phase, place, queue, recvOwed, owed, sentEnd, sides, inHand, handler,
                   budgets, linkVars>>

\* deliver's bounds: the stream's own, then chargeInbox's.
Fits(s, size) ==
    /\ held[s] + size <= InboxBound
    /\ inboxBytes[CallerOf[s]] + size <= InboxBytesPerCaller
    /\ inboxTotal + size <= InboxBytes

\* chargeInbox of n bytes, fewer when negative, once its bounds let it.
Charge(c, n) ==
    /\ inboxBytes' = [inboxBytes EXCEPT ![c] = decrement(@, -n)]
    /\ inboxTotal' = inboxTotal + n

\* deliver: the event is charged and queued, whether or not the stream ended.
deliver(s, size) ==
    IF Fits(s, size)
    THEN Charge(CallerOf[s], size) /\ Queued(s, Append(inbox[s], size), held[s] + size)
    ELSE UNCHANGED <<inboxBytes, inboxTotal, queue>>

\* applyFrame on a STREAM_DATA: queued, or refused, and then the reader aborts
\* the stream resource_exhausted.
ApplyData(s) ==
    /\ inHand[s] # NoFrame /\ inHand[s].kind = "data"
    /\ inHand' = [inHand EXCEPT ![s] = NoFrame]
    /\ deliver(s, inHand[s].size)
    /\ reader' = [reader EXCEPT ![s] = IF Fits(s, inHand[s].size) THEN "on" ELSE "failing"]
    /\ UNCHANGED <<phase, place, recvOwed, endStep, owed, sentEnd, sides, handler,
                   sessions, sessionsTotal, linkVars>>

\* The peer's last frame is in hand: the reader marks its end and stops.
PeerEnds(s) ==
    /\ inHand[s] # NoFrame
    /\ inHand' = [inHand EXCEPT ![s] = NoFrame]
    /\ reader' = [reader EXCEPT ![s] = "off"]
    /\ peerEnded' = [peerEnded EXCEPT ![s] = TRUE]
    /\ UNCHANGED <<phase, place, recvOwed, owed, sentEnd, lastWritten, writing, handler,
                   sessions, sessionsTotal, linkVars>>

\* Mutant: the peer's end does not look whether this side has ended.
ApplyEndAlone(s) ==
    /\ PeerEnds(s) /\ inHand[s].kind = "end"
    /\ deliver(s, inHand[s].size)
    /\ UNCHANGED endStep

\* peerEndReached with role Send: the stream ends once both sides have ended.
ApplyEnd(s) ==
    /\ PeerEnds(s) /\ inHand[s].kind = "end"
    /\ deliver(s, inHand[s].size)
    /\ IF sentEnd[s] THEN CallEnd(s) ELSE UNCHANGED endStep

\* A STREAM_END of both sides: peerFinished ends the stream.
ApplyLast(s) ==
    /\ PeerEnds(s) /\ inHand[s].kind = "both"
    /\ deliver(s, inHand[s].size)
    /\ CallEnd(s)
------------------------------------------------------------------------------
\* send takes sendMu and, unless this side has ended, writes.  The handler's
\* chunk and CloseSend; its Close, Reply or Abort, and serve's after it; and
\* fail's STREAM_ERROR on the reader.
Send(s, what) ==
    /\ writing[s] = "no" /\ ~sentEnd[s]
    /\ \/ handler[s] = "on" /\ what \in {"chunk", "end", "close"}
       \/ reader[s] = "failing" /\ what = "abort"
    /\ writing' = [writing EXCEPT ![s] = what]
    /\ UNCHANGED <<phase, place, recvOwed, ending, peerEnded, lastWritten, reads, handler,
                   budgets, linkVars>>

\* A write has returned; the reader stops after its abort.
WriteReturns(s) ==
    /\ writing[s] # "no"
    /\ writing' = [writing EXCEPT ![s] = "no"]
    /\ reader' = [reader EXCEPT ![s] = IF writing[s] = "abort" THEN "off" ELSE @]
    /\ UNCHANGED <<phase, place, queue, recvOwed, owed, peerEnded, inHand, handler,
                   budgets, linkVars>>

\* The last frame is marked under mu, and the stream ended when the peer had, or
\* when the writer ends it in any case.
Written(s) ==
    LET last == writing[s] # "chunk" IN
    /\ WriteReturns(s) /\ conn /\ ~Cancelled(s)
    /\ sentEnd' = [sentEnd EXCEPT ![s] = @ \/ last]
    /\ lastWritten' = [lastWritten EXCEPT ![s] = @ \/ (writing[s] = "end" /\ endStep[s] = "no")]
    /\ IF writing[s] \in {"close", "abort"} \/ (last /\ peerEnded[s])
       THEN CallEnd(s) ELSE UNCHANGED endStep

\* The write fails: the peer stopped reading, end cancelled it, or the
\* connection was lost.  This side sends no more.
WriteFails(s) ==
    /\ WriteReturns(s)
    /\ sentEnd' = [sentEnd EXCEPT ![s] = TRUE]
    /\ IF writing[s] \in {"close", "abort"} THEN CallEnd(s) ELSE UNCHANGED endStep
    /\ UNCHANGED lastWritten

\* Mutant: a Close whose send finds this side ended returns before end.
SentAlreadyReturns(s) ==
    /\ writing[s] = "no" /\ sentEnd[s]
    /\ handler[s] = "on" /\ recvOwed[s] = 0
    /\ handler' = [handler EXCEPT ![s] = "left"]
    /\ UNCHANGED <<phase, place, recvOwed, ending, sides, reads, budgets, linkVars>>

\* send on a side that has ended writes nothing, and end follows: fail on the
\* reader, Close or serve's end on the handler.
SentAlready(s) ==
    /\ writing[s] = "no" /\ sentEnd[s]
    /\ \/ /\ reader[s] = "failing"
          /\ reader' = [reader EXCEPT ![s] = "off"]
          /\ UNCHANGED handler
       \/ /\ handler[s] = "on" /\ recvOwed[s] = 0
          /\ handler' = [handler EXCEPT ![s] = "left"]
          /\ UNCHANGED reader
    /\ CallEnd(s)
    /\ UNCHANGED <<phase, place, queue, recvOwed, owed, sentEnd, sides, inHand, budgets, linkVars>>

\* Recv takes the first event under the stream's lock, and gives its bytes
\* back to the node after it.
Recv(s) ==
    /\ handler[s] = "on" /\ recvOwed[s] = 0 /\ inbox[s] # <<>>
    /\ recvOwed' = [recvOwed EXCEPT ![s] = Head(inbox[s])]
    /\ Queued(s, Tail(inbox[s]), held[s] - Head(inbox[s]))
    /\ UNCHANGED <<phase, place, endStep, owed, sentEnd, sides, reads, handler, budgets, linkVars>>

RecvRefund(s) ==
    /\ recvOwed[s] # 0
    /\ Charge(CallerOf[s], -recvOwed[s])
    /\ recvOwed' = [recvOwed EXCEPT ![s] = 0]
    /\ UNCHANGED <<phase, place, ending, sides, reads, handler, sessions, sessionsTotal, linkVars>>

\* The rest of end, outside the stream's lock: the QUIC stream finished and the
\* held bytes given back; then the link forgets the stream, onEnd gives its
\* place back and done is closed.
EndRefund(s) ==
    /\ endStep[s] = "begun"
    /\ endStep' = [endStep EXCEPT ![s] = "refunded"]
    /\ owed' = [owed EXCEPT ![s] = 0]
    /\ Charge(CallerOf[s], -owed[s])
    /\ UNCHANGED <<phase, place, queue, recvOwed, sentEnd, sides, reads, handler,
                   sessions, sessionsTotal, linkVars>>

EndRelease(s) ==
    /\ endStep[s] = "refunded"
    /\ endStep' = [endStep EXCEPT ![s] = "done"]
    /\ streams' = streams \ {s}
    /\ Release(s)
    /\ UNCHANGED <<phase, queue, recvOwed, owed, sentEnd, sides, reads, handler,
                   inboxBytes, inboxTotal, drains, link, toEnd>>
------------------------------------------------------------------------------
\* Link.end, on Close or on a lost connection, reaches endStreams, which copies
\* the streams it ends.
EndStreams ==
    /\ link = "up"
    /\ link' = "ending"
    /\ toEnd' = streams
    /\ UNCHANGED <<phase, place, recvOwed, ending, sides, reads, handler, budgets, drains, streams>>

\* Mutant: endStreams waits for a stream it did not end.
EndStreamsWait(s) ==
    /\ link = "ending" /\ s \in toEnd
    /\ link' = s
    /\ UNCHANGED <<phase, place, recvOwed, ending, sides, reads, handler, budgets,
                   drains, streams, toEnd>>

\* endStreams calls end on one stream and waits for it.
EndStreamsCall(s) ==
    /\ link = "ending" /\ s \in toEnd
    /\ link' = s
    /\ CallEnd(s)
    /\ UNCHANGED <<phase, place, queue, recvOwed, owed, sentEnd, sides, reads, handler, budgets,
                   drains, streams, toEnd>>

EndStreamsNext(s) ==
    /\ link = s /\ endStep[s] = "done"
    /\ link' = "ending"
    /\ toEnd' = toEnd \ {s}
    /\ UNCHANGED <<phase, place, recvOwed, ending, sides, reads, handler, budgets, drains, streams>>

CutConn ==
    /\ link = "ending" /\ toEnd = {}
    /\ link' = "cut"
    /\ UNCHANGED <<phase, place, recvOwed, ending, sides, reads, handler, budgets,
                   drains, streams, toEnd>>

LinkDone ==
    /\ link = "cut"
    /\ link' = "done"
    /\ UNCHANGED <<phase, place, recvOwed, ending, sides, reads, handler, budgets,
                   drains, streams, toEnd>>

StreamStep(s) ==
    \/ DropOpen(s)
    \/ OpenSession(s)
    \/ \E replayable \in BOOLEAN : RefuseOpen(s, replayable)
    \/ DrainEnds(s)
    \/ giveDrain(s)
    \/ Serve(s)
    \/ \E f \in Frame : ReadFrame(s, f)
    \/ ReadMalformed(s)
    \/ ReadError(s)
    \/ ReadFails(s)
    \/ ApplyData(s)
    \/ ApplyEnd(s)
    \/ ApplyLast(s)
    \/ \E what \in Write : Send(s, what)
    \/ Written(s)
    \/ WriteFails(s)
    \/ SentAlready(s)
    \/ Recv(s)
    \/ RecvRefund(s)
    \/ EndBegin(s)
    \/ EndRefund(s)
    \/ EndRelease(s)
    \/ EndStreamsCall(s)
    \/ EndStreamsNext(s)

Next ==
    \/ \E s \in Stream : StreamStep(s)
    \/ EndStreams
    \/ CutConn
    \/ LinkDone

Spec == Init /\ [][Next]_vars

\* What the code does without waiting on the caller or on the application: the
\* reader applies what it read, and stops on a stream that is cancelled or
\* lost; a write does likewise; end runs to its end, and so does the link's; a
\* drain is timed; and a handler whose context is cancelled, which the stream's
\* end does, returns.  Of the caller it is assumed that it makes room for this
\* side's writes while this side's reader reads, and for the reader's abort.
Fairness ==
    /\ \A s \in Stream :
          /\ WF_vars(OpenSession(s)) /\ WF_vars(Serve(s))
          /\ WF_vars(DrainEnds(s)) /\ WF_vars(giveDrain(s))
          /\ WF_vars((~conn \/ Cancelled(s)) /\ ReadFails(s))
          /\ WF_vars(ApplyData(s))
          /\ WF_vars(ApplyEnd(s)) /\ WF_vars(ApplyLast(s))
          /\ WF_vars(Send(s, "abort"))
          /\ WF_vars((~conn \/ Cancelled(s)) /\ WriteFails(s))
          /\ WF_vars((reader[s] = "on" \/ writing[s] = "abort") /\ Written(s))
          /\ WF_vars((reader[s] = "failing" \/ endStep[s] = "done") /\ SentAlready(s))
          /\ WF_vars(RecvRefund(s))
          /\ WF_vars(EndBegin(s)) /\ WF_vars(EndRefund(s)) /\ WF_vars(EndRelease(s))
          /\ WF_vars(EndStreamsCall(s)) /\ WF_vars(EndStreamsNext(s))
    /\ WF_vars(CutConn) /\ WF_vars(LinkDone)

FairSpec == Spec /\ Fairness
------------------------------------------------------------------------------
\* Every variable keeps the type of the Go field it stands for.
TypeOK ==
    /\ phase \in [Stream -> Phase]
    /\ place \in [Stream -> BOOLEAN]
    /\ inbox \in [Stream -> Seq(Nat)]
    /\ endStep \in [Stream -> EndStep]
    /\ held \in [Stream -> Int]
    /\ owed \in [Stream -> Int]
    /\ recvOwed \in [Stream -> Int]
    /\ sentEnd \in [Stream -> BOOLEAN]
    /\ peerEnded \in [Stream -> BOOLEAN]
    /\ lastWritten \in [Stream -> BOOLEAN]
    /\ writing \in [Stream -> Write]
    /\ reader \in [Stream -> {"off", "on", "failing"}]
    /\ inHand \in [Stream -> Frame \cup {NoFrame}]
    /\ handler \in [Stream -> {"off", "on", "left"}]
    /\ sessions \in [Caller -> Nat] /\ sessionsTotal \in Nat
    /\ inboxBytes \in [Caller -> Int] /\ inboxTotal \in Int
    /\ drains \in Nat
    /\ streams \in SUBSET Stream /\ toEnd \in SUBSET Stream
    /\ link \in {"up", "ending", "cut", "done"} \cup Stream

\* The bytes of a stream the node's budget counts: those queued, those a Recv
\* took, and those its end found.
Unreturned(s) == SumFunction(inbox[s]) + recvOwed[s] + owed[s]

unreturned == [s \in Stream |-> Unreturned(s)]

\* The node's inbox budget is exactly the bytes its streams have unreturned,
\* whichever of deliver, Recv and end run between each other's steps: none is
\* counted back twice, and none before it is read (stream.go deliver, Recv, end).
\* The unread bytes of a stream, of a caller and of the node stay within their
\* bounds.
InboxBudgetExact ==
    /\ \A c \in Caller :
          inboxBytes[c] = SumFunctionOnSet(unreturned, {s \in Stream : CallerOf[s] = c})
    /\ inboxTotal = SumFunctionOnSet(unreturned, Stream)
    /\ \A s \in Stream : held[s] <= InboxBound
    /\ \A c \in Caller : inboxBytes[c] <= InboxBytesPerCaller
    /\ inboxTotal <= InboxBytes

\* A session's place is counted while its stream holds it, and given back once,
\* by end or by an accept that found the link ended; a drain place likewise.
PlacesExact ==
    /\ \A c \in Caller : sessions[c] = Cardinality({s \in Stream : place[s] /\ CallerOf[s] = c})
    /\ sessionsTotal = Cardinality({s \in Stream : place[s]})
    /\ drains = Cardinality({s \in Stream : phase[s] \in {"draining", "drained"}})

\* The sessions of a caller and of the node, and the link's drains, stay within
\* their bounds, counted by the streams that hold a place.
PlacesBounded ==
    /\ \A c \in Caller :
          Cardinality({s \in Stream : place[s] /\ CallerOf[s] = c}) <= SessionsPerCaller
    /\ Cardinality({s \in Stream : place[s]}) <= Sessions
    /\ Cardinality({s \in Stream : phase[s] \in {"draining", "drained"}}) <= MaxRefusalDrains

\* A stream whose caller ended its side and whose handler sent its own end, with
\* CloseSend, ends: whichever is marked last, under mu, calls end (write,
\* peerEndReached).
BothEndedEnds ==
    \A s \in Stream : lastWritten[s] /\ peerEnded[s] => endStep[s] # "no"

\* A handler that returned frees its session's place, whatever else runs.
LeavingReleases ==
    \A s \in Stream : handler[s] = "left" ~> ~place[s]

\* A drain gives its place back, and the session's with it.
DrainsReturn ==
    \A s \in Stream : phase[s] = "draining" ~> phase[s] = "refused" /\ ~place[s]

\* Link.end gets past endStreams: waiting for one stream's end never blocks it.
LinkEndFinishes == (link = "ending") ~> (link = "done")

\* "end releases the stream once: ... and what it held given back"
\* (stream.go:693-695): an ended stream nobody serves or reads any more has
\* nothing left in the node's budget.
EndGivesAllBack ==
    \A s \in Stream :
        endStep[s] = "done" /\ handler[s] = "left" /\ reader[s] = "off" /\ recvOwed[s] = 0
            => Unreturned(s) = 0

\* "The stream's reader takes it only to adopt a clear stream (adopting), never
\* to handle a frame of a session it is already reading" (stream.go:134-135), and
\* "a stream is released ... on every path: ... when its inbox is over its
\* bound" (stream.go:25-27): a reader that found the inbox full ends the stream.
OverflowReleases ==
    \A s \in Stream : reader[s] = "failing" ~> endStep[s] = "done"
==============================================================================
