-------------------------- MODULE SubscriptionPromise --------------------------
(***************************************************************************)
(* What the documentation of pool.Delivery promises a subscription's       *)
(* reader about its notices, with no links, goroutines or queues: an       *)
(* Interrupted once when the last link carrying the subscription ends, a   *)
(* Gap once when a station accepts it again, neither at the first          *)
(* subscribe nor while another link carries it.                            *)
(***************************************************************************)
VARIABLES
    phase,    \* "fresh" until a station first accepts it; "covered"; "bare"; "over"
    dark,     \* covered as far as the reader was told, and no link carries it any more
    notice,   \* the last notice given to the reader, or "none"
    closing   \* the pool is closing: the end of its links is no interruption

PromiseVars == <<phase, dark, notice, closing>>

PromiseInit == phase = "fresh" /\ dark = FALSE /\ notice = "none" /\ closing = FALSE

\* A link that accepts may have ended before it is counted.
Accepted == phase = "fresh" /\ phase' = "covered" /\ dark' \in BOOLEAN /\ UNCHANGED <<notice, closing>>

LastLinkEnds == phase = "covered" /\ ~dark /\ dark' = TRUE /\ UNCHANGED <<phase, notice, closing>>

Interrupted ==
    /\ phase = "covered" /\ dark /\ phase' = "bare" /\ dark' = FALSE
    /\ notice' = IF closing THEN notice ELSE "interrupted"
    /\ UNCHANGED closing

Gap == phase = "bare" /\ phase' = "covered" /\ dark' \in BOOLEAN /\ notice' = "gap" /\ UNCHANGED closing

\* The last link ended and another accepts before the reader was told: both
\* notices are given, in order.
InterruptedThenGap == phase = "covered" /\ dark /\ dark' \in BOOLEAN /\ notice' = "gap" /\ UNCHANGED <<phase, closing>>

Closes == closing' = TRUE /\ UNCHANGED <<phase, dark, notice>>

Over == phase' = "over" /\ dark' = FALSE /\ UNCHANGED <<notice, closing>>

PromiseNext ==
    \/ Accepted \/ LastLinkEnds \/ Interrupted \/ Gap \/ InterruptedThenGap
    \/ Closes \/ Over

Promise == PromiseInit /\ [][PromiseNext]_PromiseVars
=============================================================================
