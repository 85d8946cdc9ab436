------------------------------ MODULE MCLinkLive ------------------------------
(***************************************************************************)
(* What must eventually happen on a link: its streams are released, and    *)
(* Subscribe returns; and what may end it.  The three share no state, so a *)
(* behaviour runs one of them, chosen at its start.                        *)
(***************************************************************************)
EXTENDS ServedStreams, LinkPubSub, LinkLife

MCCallerOf == [s \in Stream |-> "a"]

VARIABLE part

livevars == <<vars, lvars, llvars, part>>

LiveInit == Init /\ LInit /\ LLInit /\ part \in {"streams", "topics", "life"}

LiveNext ==
    \/ part = "streams" /\ Next /\ UNCHANGED <<lvars, llvars, part>>
    \/ part = "topics" /\ LNext /\ UNCHANGED <<vars, llvars, part>>
    \/ part = "life" /\ LLNext /\ UNCHANGED <<vars, lvars, part>>

\* The streams' fairness, of a behaviour that runs them; and every goroutine in
\* Subscribe or Unsubscribe runs, the timer of its verdict included, and so does
\* the link's end once it began.  Of the station nothing is assumed, nor that the
\* control stream takes what is written.
LiveSpec ==
    /\ LiveInit /\ [][LiveNext]_livevars
    /\ part # "streams" \/ Fairness
    /\ \A c \in Client : WF_lvars(ClientStep(c))
    /\ WF_lvars(closeSubscriptions \/ ConnectionDone)
=============================================================================
