------------------------------- MODULE LinkLife -------------------------------
(***************************************************************************)
(* The life of a link after its handshake (stationlink/link.go, call.go):  *)
(* the reader and what it does with each control frame, the liveness probe *)
(* with its one-place channel of answers, the status and binding timers,   *)
(* the owner's Close, and the one end of the link.                         *)
(***************************************************************************)
EXTENDS Integers

CONSTANT MaxProbes      \* bound of the model on the probes sent

VARIABLES
    endReason,     \* why the link ended, "none" while it is up
    probe,     \* the probe goroutine: "idle", "drain", "wait", "stopped", or
               \* "due" when its deadline has fired and its select not yet run
    nonce,     \* the nonce of the last ping, the count of the pings sent
    pongs,     \* the channel of answers, of one place: the nonce in it, or 0
    flying,    \* the pings sent whose pong has not arrived
    misses,    \* the misses in a row
    closing,   \* whether Close has sent its GOODBYE
    onTime,    \* history: the probes whose pong came within their timeout
    spoilt     \* history: the probes whose answer met an older pong that came after
               \* the channel was emptied, or lay in it when the deadline fired

llvars == <<endReason, probe, nonce, pongs, flying, misses, closing, onTime, spoilt>>

LLInit ==
    /\ endReason = "none" /\ probe = "idle" /\ nonce = 0 /\ pongs = 0 /\ flying = {}
    /\ misses = 0 /\ closing = FALSE /\ onTime = {} /\ spoilt = {}

\* end: once, with the first reason; timers, subscriptions, served procedures
\* and streams go with it.
end(why) == endReason' = IF endReason = "none" THEN why ELSE endReason

\* Mutant: the channel is not emptied.
ProbeTickOnly ==
    /\ endReason = "none" /\ probe = "idle" /\ nonce < MaxProbes
    /\ probe' = "drain"
    /\ UNCHANGED <<endReason, nonce, pongs, flying, misses, closing, onTime, spoilt>>

\* probe: at a tick, probeOnce first empties the channel of a late answer.
ProbeTick ==
    /\ endReason = "none" /\ probe = "idle" /\ nonce < MaxProbes
    /\ probe' = "drain" /\ pongs' = 0
    /\ UNCHANGED <<endReason, nonce, flying, misses, closing, onTime, spoilt>>

\* probeOnce sends its ping.
ProbePings ==
    /\ probe = "drain"
    /\ nonce' = nonce + 1
    /\ flying' = flying \union {nonce'}
    /\ probe' = "wait"
    /\ UNCHANGED <<endReason, pongs, misses, closing, onTime, spoilt>>

\* A ping that cannot be sent is no miss: the count starts again.
ProbeUnsent ==
    /\ probe = "drain"
    /\ misses' = 0 /\ probe' = "idle"
    /\ UNCHANGED <<endReason, nonce, pongs, flying, closing, onTime, spoilt>>

\* liveness: a pong goes into the channel unless it is full.  The station's
\* answers come in the order of the pings, on the one control stream; it may
\* leave some out.
PongArrives(n) ==
    /\ endReason = "none" /\ n \in flying
    /\ flying' = {k \in flying : k > n}
    /\ pongs' = IF pongs = 0 THEN n ELSE pongs
    /\ onTime' = IF probe = "wait" /\ n = nonce THEN onTime \union {n} ELSE onTime
    /\ spoilt' = CASE probe = "drain" -> spoilt \union {nonce + 1}
                   [] probe = "wait" /\ n # nonce -> spoilt \union {nonce}
                   [] OTHER -> spoilt
    /\ UNCHANGED <<endReason, probe, nonce, misses, closing>>

\* missesAfter: a timeout is one more, an answer starts the count again.
missesAfter(answered, count) == IF answered THEN 0 ELSE count + 1

\* probe, after a probe's outcome: two misses in a row end the link.
Outcome(answered) ==
    /\ misses' = missesAfter(answered, misses)
    /\ IF misses' >= 2 THEN end("liveness_lost") /\ probe' = "stopped" ELSE UNCHANGED endReason /\ probe' = "idle"

\* probeOnce takes an answer: another probe's is passed over.
ProbeReads ==
    /\ probe \in {"wait", "due"} /\ pongs # 0
    /\ pongs' = 0
    /\ IF pongs = nonce THEN Outcome(TRUE) ELSE UNCHANGED <<endReason, probe, misses>>
    /\ UNCHANGED <<nonce, flying, closing, onTime, spoilt>>

\* livenessTimeout after the ping the deadline is ready,
DeadlineFires ==
    /\ probe = "wait" /\ probe' = "due"
    /\ spoilt' = IF pongs = nonce THEN spoilt \union {nonce} ELSE spoilt
    /\ UNCHANGED <<endReason, nonce, pongs, flying, misses, closing, onTime>>

\* and the select of probeOnce may take it, whatever lies in the channel.
ProbeTimesOut ==
    /\ probe = "due"
    /\ Outcome(FALSE)
    /\ UNCHANGED <<nonce, pongs, flying, closing, onTime, spoilt>>

\* The link's done stops the probe.
ProbeStops ==
    /\ endReason # "none" /\ probe \in {"idle", "wait", "due"}
    /\ probe' = "stopped"
    /\ UNCHANGED <<endReason, nonce, pongs, flying, misses, closing, onTime, spoilt>>

\* received: what a frame other than a pong does to the link.  An unknown
\* critical extension or type is counted, a routed one goes to its component,
\* a ping is answered; the others end the link.
received(frame) ==
    CASE frame \in {"malformed", "bad_status", "bad_ack", "bad_goodbye"} -> "malformed_frame"
      [] frame = "goodbye" -> "goodbye"
      [] OTHER -> "none"

\* read: one frame after another, until one ends the link or the read fails.
Read(frame) ==
    /\ endReason = "none" /\ received(frame) # "none"
    /\ end(received(frame))
    /\ UNCHANGED <<probe, nonce, pongs, flying, misses, closing, onTime, spoilt>>

\* The timers, the connection, and a statement that cannot be sent.
EndsItself(why) ==
    /\ endReason = "none"
    /\ end(why)
    /\ UNCHANGED <<probe, nonce, pongs, flying, misses, closing, onTime, spoilt>>

\* Close: GOODBYE, then a wait for the station to close the connection, up to
\* closeLinger.
CloseBegins ==
    /\ endReason = "none" /\ ~closing
    /\ closing' = TRUE
    /\ UNCHANGED <<endReason, probe, nonce, pongs, flying, misses, onTime, spoilt>>

CloseEnds ==
    /\ closing /\ endReason = "none"
    /\ end("closed")
    /\ UNCHANGED <<probe, nonce, pongs, flying, misses, closing, onTime, spoilt>>

LLNext ==
    \/ ProbeTick \/ ProbePings \/ ProbeUnsent \/ ProbeReads \/ DeadlineFires \/ ProbeTimesOut \/ ProbeStops
    \/ \E n \in flying : PongArrives(n)
    \/ \E frame \in {"malformed", "bad_status", "bad_ack", "bad_goodbye", "goodbye"} : Read(frame)
    \/ \E why \in {"status_expired", "binding_expired", "connection_lost", "closed_by_station", "idle_timeout"} : EndsItself(why)
    \/ CloseBegins \/ CloseEnds

LLSpec == LLInit /\ [][LLNext]_llvars
-----------------------------------------------------------------------------
\* A link lost to liveness failed its last two probes, and each of them was either
\* not answered in time or spoilt: a pong that came before the probe emptied the
\* channel never costs it its answer (call.go probeOnce).  What may is an older pong
\* that comes after that, ahead of its own, or a select that finds its pong and its
\* deadline together.
LostOnlyUnanswered ==
    endReason = "liveness_lost" =>
        nonce >= 2 /\ \A k \in {nonce - 1, nonce} : k \notin onTime \ spoilt
=============================================================================
