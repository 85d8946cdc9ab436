------------------------------ MODULE LinkPubSub ------------------------------
(***************************************************************************)
(* Subscribing to one realm and topic on one link (stationlink/pubsub.go   *)
(* and register.go), against the station at its other end                  *)
(* (teststation/station.go).                                               *)
(*                                                                         *)
(* The subscriptions of a link share one registration at the station: the  *)
(* first sends SUBSCRIBE and waits for its REGISTER_ACK, those made         *)
(* meanwhile wait for its verdict, and the last to leave sends UNSUBSCRIBE. *)
(* The maps change under the link's mutex; the frames leave outside it.    *)
(***************************************************************************)
EXTENDS Naturals, Sequences

CONSTANTS
    Client,        \* goroutines that subscribe to the topic
    MaxCalls,      \* bound of the model on the calls of Subscribe
    Window         \* the frames the control stream takes before the station reads one

None == "none"

ASSUME ClientsNamed == None \notin Client

Verdict == {"nil", "refused", "silent", "linkEnded"}

VARIABLES
    linkAt,       \* "up"; "failed", err set; "swapped", subs closed; "done"
    subs,         \* l.subs of the topic: the clients whose subscription it holds
    subscribing,  \* l.subscribing: whose pendingSubscribe
    awaiting,     \* l.awaiting: whose answer channel
    answer,       \* what each client's answer channel holds
    at,           \* where a client is in Subscribe or Unsubscribe: "send" before
                  \* expect, "write" in the write of its SUBSCRIBE, "verdict" in verdict, "withdraw" before the UNSUBSCRIBE
                  \* of an unanswered one, "settle" before subscribeAnswered takes the
                  \* mutex, "wait" on another's pendingSubscribe, "held" returned with a
                  \* subscription, "unsub" in Unsubscribe, before its UNSUBSCRIBE
    calls, verdict, waitsOn,
    toStation, toLink,   \* the control stream: frames, and REGISTER_ACKs
    registered,   \* the station's topics hold this one
    balked        \* history: the station refused a SUBSCRIBE or did not apply an UNSUBSCRIBE

client == <<at, calls, verdict, waitsOn>>
wire == <<toStation, toLink, registered, balked>>
lvars == <<linkAt, subs, subscribing, awaiting, answer, client, wire>>

LInit ==
    /\ linkAt = "up" /\ subs = {} /\ subscribing = None /\ awaiting = None
    /\ answer = [c \in Client |-> None]
    /\ at = [c \in Client |-> "idle"] /\ calls = 0
    /\ verdict = [c \in Client |-> "nil"] /\ waitsOn = [c \in Client |-> None]
    /\ toStation = <<>> /\ toLink = <<>>
    /\ registered = FALSE /\ balked = FALSE

Goto(c, place) == at' = [at EXCEPT ![c] = place]
-----------------------------------------------------------------------------
\* sendControl: a write without a deadline, which lasts until the stream takes the
\* frame or the connection is closed, and is then an error.
sendControl(f) ==
    /\ linkAt = "done" \/ Len(toStation) < Window
    /\ toStation' = IF linkAt = "done" THEN toStation ELSE Append(toStation, f)

\* Mutant: a subscription made beside another returns without its verdict.
SubscribeAtOnce(c) ==
    /\ at[c] = "idle" /\ calls < MaxCalls
    /\ calls' = calls + 1
    /\ subs' = subs \union {c}
    /\ IF subs = {} THEN Goto(c, "send") /\ subscribing' = c ELSE Goto(c, "held") /\ UNCHANGED subscribing
    /\ UNCHANGED <<linkAt, awaiting, answer, verdict, waitsOn, wire>>

\* Subscribe, up to the release of the mutex.
Subscribe(c) ==
    /\ at[c] = "idle" /\ calls < MaxCalls
    /\ calls' = calls + 1
    /\ subs' = subs \union {c}
    /\ \/ /\ subs = {}
          /\ subscribing' = c
          /\ Goto(c, "send")
          /\ UNCHANGED waitsOn
       \/ /\ subs # {} /\ subscribing # None
          /\ Goto(c, "wait")
          /\ waitsOn' = [waitsOn EXCEPT ![c] = subscribing]
          /\ UNCHANGED subscribing
       \/ /\ subs # {} /\ subscribing = None
          /\ Goto(c, "held")
          /\ UNCHANGED <<subscribing, waitsOn>>
    /\ UNCHANGED <<linkAt, awaiting, answer, verdict, wire>>

\* subscribed: the wait is registered before the frame is sent,
Expects(c) ==
    /\ at[c] = "send" /\ Goto(c, "write")
    /\ awaiting' = c
    /\ UNCHANGED <<linkAt, subs, subscribing, answer, calls, verdict, waitsOn, wire>>

\* and forgotten when the send fails.
SubscribeSends(c) ==
    /\ at[c] = "write"
    /\ sendControl("subscribe")
    /\ IF linkAt = "done"
       THEN /\ Goto(c, "settle")
            /\ verdict' = [verdict EXCEPT ![c] = "linkEnded"]
            /\ awaiting' = IF awaiting = c THEN None ELSE awaiting
            /\ answer' = [answer EXCEPT ![c] = None]
       ELSE /\ Goto(c, "verdict")
            /\ UNCHANGED <<verdict, awaiting, answer>>
    /\ UNCHANGED <<linkAt, subs, subscribing, calls, waitsOn, toLink, registered, balked>>

\* verdict: any of its select's ready cases, then the deferred forget.
ReturnsVerdict(c, v) ==
    /\ at[c] = "verdict"
    /\ CASE v = "nil" -> answer[c] = "accepted"
         [] v = "refused" -> answer[c] = "refused"
         [] v = "silent" -> TRUE
         [] v = "linkEnded" -> linkAt = "done"
    /\ verdict' = [verdict EXCEPT ![c] = v]
    /\ awaiting' = IF awaiting = c THEN None ELSE awaiting
    /\ answer' = [answer EXCEPT ![c] = None]
    /\ Goto(c, IF v = "silent" THEN "withdraw" ELSE "settle")
    /\ UNCHANGED <<linkAt, subs, subscribing, calls, waitsOn, wire>>

\* Mutant: an unanswered SUBSCRIBE is not withdrawn.
WithdrawsNothing(c) ==
    /\ at[c] = "withdraw"
    /\ Goto(c, "settle")
    /\ UNCHANGED <<linkAt, subs, subscribing, awaiting, answer, calls, verdict, waitsOn, wire>>

\* subscribeAnswered: an unanswered SUBSCRIBE is withdrawn first,
Withdraws(c) ==
    /\ at[c] = "withdraw"
    /\ sendControl("unsubscribe")
    /\ Goto(c, "settle")
    /\ UNCHANGED <<linkAt, subs, subscribing, awaiting, answer, calls, verdict, waitsOn, toLink, registered, balked>>

\* Mutant: pending.done is never closed.
SubscribeAnsweredAlone(c) ==
    /\ at[c] = "settle"
    /\ subscribing' = None
    /\ subs' = IF verdict[c] = "nil" THEN subs ELSE {}
    /\ Goto(c, IF verdict[c] = "nil" THEN "held" ELSE "idle")
    /\ UNCHANGED <<linkAt, awaiting, answer, calls, verdict, waitsOn, wire>>

\* then the verdict is settled under the mutex and every waiter released.
SubscribeAnswered(c) ==
    /\ at[c] = "settle"
    /\ subscribing' = None
    /\ LET returned == IF verdict[c] = "nil" THEN "held" ELSE "idle"
       IN  /\ subs' = IF verdict[c] = "nil" THEN subs ELSE {}
           /\ at' = [d \in Client |-> IF d = c \/ (at[d] = "wait" /\ waitsOn[d] = c) THEN returned ELSE at[d]]
           /\ waitsOn' = [d \in Client |-> IF waitsOn[d] = c THEN None ELSE waitsOn[d]]
    /\ verdict' = [verdict EXCEPT ![c] = "nil"]
    /\ UNCHANGED <<linkAt, awaiting, answer, calls, wire>>

\* Unsubscribe of a subscription whose channel the link has not closed:
\* dropSubscription, which says whether it was the last,
UnsubscribeDrops(c) ==
    /\ at[c] = "held"
    /\ subs' = subs \ {c}
    /\ Goto(c, IF subs \ {c} = {} THEN "unsub" ELSE "idle")
    /\ UNCHANGED <<linkAt, subscribing, awaiting, answer, calls, verdict, waitsOn, wire>>

\* then the frame, outside the mutex.
UnsubscribeSends(c) ==
    /\ at[c] = "unsub"
    /\ sendControl("unsubscribe")
    /\ Goto(c, "idle")
    /\ UNCHANGED <<linkAt, subs, subscribing, awaiting, answer, calls, verdict, waitsOn, toLink, registered, balked>>

\* acknowledged: the ack answers whoever waits on its registration.
Acknowledged ==
    /\ linkAt # "done" /\ toLink # <<>>
    /\ toLink' = Tail(toLink)
    /\ answer' = IF awaiting = None THEN answer ELSE [answer EXCEPT ![awaiting] = Head(toLink)]
    /\ awaiting' = None
    /\ UNCHANGED <<linkAt, subs, subscribing, client, toStation, registered, balked>>
-----------------------------------------------------------------------------
\* end: err is set, the subscriptions are taken from the map and closed, then
\* the connection and done are closed, and the station forgets it.
LinkFails ==
    /\ linkAt = "up" /\ linkAt' = "failed"
    /\ UNCHANGED <<subs, subscribing, awaiting, answer, client, wire>>

closeSubscriptions ==
    /\ linkAt = "failed" /\ linkAt' = "swapped"
    /\ subs' = {}
    /\ at' = [c \in Client |-> IF at[c] = "held" /\ c \in subs THEN "idle" ELSE at[c]]
    /\ UNCHANGED <<subscribing, awaiting, answer, calls, verdict, waitsOn, wire>>

ConnectionDone ==
    /\ linkAt = "swapped" /\ linkAt' = "done"
    /\ toStation' = <<>> /\ toLink' = <<>> /\ registered' = FALSE
    /\ UNCHANGED <<subs, subscribing, awaiting, answer, client, balked>>

\* The station's subscribed, as its verdict judges the frame: accepted,
\* refused, or silent, which changes nothing and answers nothing.  The acks of
\* an UNSUBSCRIBE, which nobody waits for, are left out.
StationSubscribed(judged) ==
    /\ toStation # <<>>
    /\ toStation' = Tail(toStation)
    /\ \/ /\ Head(toStation) = "subscribe"
          /\ registered' = (registered \/ judged = "accepted")
          /\ toLink' = IF judged = "silent" THEN toLink ELSE Append(toLink, judged)
          /\ balked' = (balked \/ judged = "refused")
       \/ /\ Head(toStation) = "unsubscribe"
          /\ registered' = (registered /\ judged # "accepted")
          /\ balked' = (balked \/ judged # "accepted")
          /\ UNCHANGED toLink
    /\ UNCHANGED <<linkAt, subs, subscribing, awaiting, answer, client>>

ClientStep(c) ==
    \/ Expects(c) \/ SubscribeSends(c) \/ Withdraws(c) \/ SubscribeAnswered(c) \/ UnsubscribeSends(c)
    \/ \E v \in Verdict : ReturnsVerdict(c, v)

LNext ==
    \/ \E c \in Client : Subscribe(c) \/ UnsubscribeDrops(c) \/ ClientStep(c)
    \/ Acknowledged
    \/ LinkFails \/ closeSubscriptions \/ ConnectionDone
    \/ \E judged \in {"accepted", "refused", "silent"} : StationSubscribed(judged)

LSpec == LInit /\ [][LNext]_lvars
-----------------------------------------------------------------------------
Quiet == linkAt = "up" /\ toStation = <<>> /\ \A c \in Client : at[c] \in {"idle", "held"}

\* A registration the link gave up does not linger: with nothing under way and
\* no subscription held, the station holds none either, however late its
\* acceptance came, unless it did not apply an UNSUBSCRIBE or refused a
\* SUBSCRIBE (a late refusal answers the next SUBSCRIBE's wait).
NoLingering == Quiet /\ subs = {} /\ ~balked => ~registered

\* A subscription Subscribe returned, on a link still up, is one the link
\* routes events to: the verdict on one SUBSCRIBE never removes a
\* subscription that returned without waiting for it.
HeldIsRouted == linkAt = "up" => \A c \in Client : at[c] = "held" => c \in subs

\* The station no longer reads the control stream of a link that is up, and has
\* let it fill.
Stalled == linkAt = "up" /\ Len(toStation) >= Window

\* Subscribe returns, to the client that sent the SUBSCRIBE and to every one
\* that waits on it, whatever the station answers and whenever the link ends,
\* unless the station stops reading for good: the write of a SUBSCRIBE, and of the
\* UNSUBSCRIBE that withdraws it, has no deadline (link.go sendControl).
SubscribeReturns ==
    \/ <>[]Stalled
    \/ \A c \in Client :
          (at[c] \in {"send", "write", "verdict", "withdraw", "settle", "wait"}) ~> (at[c] \in {"idle", "held"})
=============================================================================
