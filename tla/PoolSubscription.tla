---------------------------- MODULE PoolSubscription ----------------------------
(***************************************************************************)
(* A node's subscription over the links of its pool (pool/pubsub.go,       *)
(* delivery.go, member.go and Close of pool.go).                           *)
(*                                                                         *)
(* Subscribe asks the links up at once, and the supervisor of each link    *)
(* that comes up later replays it there; links end at any time.  Beside    *)
(* the events, the reader is told when no link carries the subscription    *)
(* any more (Interrupted) and when one does again (Gap), through bounded   *)
(* channels.  A link is one incarnation: a member's next link is another.  *)
(***************************************************************************)
EXTENDS Naturals, Sequences, FiniteSets

CONSTANTS
    Link,        \* the links the pool's members bring up, each once
    Buffer       \* subscriptionBuffer

ASSUME BufferHolds == Buffer \in Nat \ {0}

\* Who attaches to a link: firstAttached, the round after p.subs holds the
\* subscription, or the replay on a new link.
Who == {"round", "late", "replay"}

VARIABLES
    poolLink,    \* each link: "off"; "up"; "failed", its err set; "done"; "gone" (m.link is nil)
    replayed,    \* the links whose replay ran
    subAt,       \* where subscribe is: "idle", "round", "add", "late", "held", "none" (returned an error)
    round,       \* the links firstAttached asks
    attempt,     \* each attach: "none", "begin", "asking", "accepted"; in the round also "ok", "err"
    onLinks, cover, interrupted, ended,
    inPool,      \* p.subs holds the subscription
    closed,      \* p.closed, and the pool's context cancelled
    linkSub,     \* the channel of the link's subscription: "none", or forward returned; "open"; "closed"
    grouped,     \* a group subscription, with the opening stage
    opening, hand, events,
    noticed,     \* the kind of the newest notice given to the queues, or "none"
    taken,       \* the reader took the newest notice
    asked        \* history: links an attach called Subscribe on

links == <<poolLink, replayed, linkSub, asked>>
queues == <<grouped, opening, hand, events, noticed, taken>>
cov == <<onLinks, cover, interrupted>>
pvars == <<links, subAt, round, attempt, cov, ended, inPool, closed, queues>>

PInit ==
    /\ poolLink = [l \in Link |-> "off"] /\ replayed = {}
    /\ subAt = "idle" /\ round = {}
    /\ attempt = [l \in Link |-> [w \in Who |-> "none"]]
    /\ onLinks = {} /\ cover = {} /\ interrupted = FALSE /\ ended = FALSE
    /\ inPool = FALSE /\ closed = FALSE
    /\ linkSub = [l \in Link |-> "none"]
    /\ grouped \in BOOLEAN
    /\ opening = <<>> /\ hand = <<>> /\ events = <<>>
    /\ noticed = "none" /\ taken = FALSE /\ asked = {}
-----------------------------------------------------------------------------
\* p.links(): a member holds its link until its supervisor sees it done.
Links == {l \in Link : poolLink[l] \notin {"off", "gone"}}

\* supervise: the dial of a member of an open pool comes up (a link that comes
\* up after the subscription ended does not concern it),
LinkUp(l) ==
    /\ poolLink[l] = "off" /\ ~closed /\ ~ended
    /\ poolLink' = [poolLink EXCEPT ![l] = "up"]
    /\ UNCHANGED <<replayed, linkSub, asked, subAt, round, attempt, cov, ended, inPool, closed, queues>>

\* then replay attaches the subscriptions of p.subs,
Replay(l) ==
    /\ l \in Links /\ l \notin replayed
    /\ replayed' = replayed \union {l}
    /\ attempt' = IF inPool THEN [attempt EXCEPT ![l]["replay"] = "begin"] ELSE attempt
    /\ UNCHANGED <<poolLink, linkSub, asked, subAt, round, cov, ended, inPool, closed, queues>>

\* and the link is forgotten once it is done.
LinkGone(l) ==
    /\ poolLink[l] = "done" /\ l \in replayed
    /\ poolLink' = [poolLink EXCEPT ![l] = "gone"]
    /\ UNCHANGED <<replayed, linkSub, asked, subAt, round, attempt, cov, ended, inPool, closed, queues>>

\* The link's end, at any time or once the pool closes: its err is set,
LinkErr(l) ==
    /\ poolLink[l] = "up"
    /\ poolLink' = [poolLink EXCEPT ![l] = "failed"]
    /\ UNCHANGED <<replayed, linkSub, asked, subAt, round, attempt, cov, ended, inPool, closed, queues>>

\* then the channels of the subscriptions its map holds are closed, those that
\* still wait for their answer included, then the connection and done (one step:
\* between the two only a Subscribe can tell, which AttachBegins allows for).
LinkClosed(l) ==
    /\ poolLink[l] = "failed"
    /\ poolLink' = [poolLink EXCEPT ![l] = "done"]
    /\ linkSub' = [linkSub EXCEPT ![l] = IF @ = "open" THEN "closed" ELSE @]
    /\ UNCHANGED <<replayed, asked, subAt, round, attempt, cov, ended, inPool, closed, queues>>
-----------------------------------------------------------------------------
\* A delivery in a queue: an event, the newest notice or an older one.
Deliveries == {"event", "newest", "older"}
Older(ch) == [i \in DOMAIN ch |-> IF ch[i] = "newest" THEN "older" ELSE ch[i]]

\* Mutant: a notice arriving at a full channel is dropped, as an event is.
pushUnlessFull(ch, d) == IF Len(ch) = Buffer THEN ch ELSE Append(ch, d)

\* push: a full channel gives up its oldest delivery.
push(ch, d) == Append(IF Len(ch) = Buffer THEN Tail(ch) ELSE ch, d)

\* notify, for the notices owed, in order.
Owe(kinds) ==
    IF kinds = <<>> THEN UNCHANGED queues
    ELSE LET deliver(ch) == IF Len(kinds) = 1 THEN push(Older(ch), "newest")
                                              ELSE push(push(Older(ch), "older"), "newest")
         IN  /\ opening' = IF grouped THEN deliver(opening) ELSE opening
             /\ hand' = Older(hand)
             /\ events' = IF grouped THEN Older(events) ELSE deliver(events)
             /\ noticed' = kinds[Len(kinds)]
             /\ taken' = FALSE
             /\ UNCHANGED grouped

\* The Interrupted that the end of the links gone, when it empties the set,
\* owes: none from a closing pool.
InterruptedOwed(gone) ==
    IF cover # {} /\ cover \subseteq gone /\ ~closed THEN <<"interrupted">> ELSE <<>>

Emptied(gone) == interrupted \/ (cover # {} /\ cover \subseteq gone)

\* queue: an event arriving at a full or ended channel is dropped.
queued(ch) == IF ended \/ Len(ch) = Buffer THEN ch ELSE Append(ch, "event")

\* end: the link subscriptions are unsubscribed; what they and the queues still
\* hold is not followed any further.
End ==
    /\ ended' = TRUE
    /\ onLinks' = {} /\ cover' = {} /\ interrupted' = FALSE
    /\ linkSub' = [l \in Link |-> IF l \in onLinks THEN "none" ELSE linkSub[l]]
    /\ round' = {} /\ asked' = {}
    /\ opening' = <<>> /\ hand' = <<>> /\ events' = <<>> /\ taken' = FALSE
    /\ UNCHANGED <<grouped, noticed>>
-----------------------------------------------------------------------------
\* subscribe: the pool's links are asked all at once, or there are none,
SubscribeRound ==
    /\ subAt = "idle"
    /\ \/ /\ ~closed /\ Links # {}
          /\ round' = Links
          /\ attempt' = [l \in Link |-> IF l \in Links THEN [attempt[l] EXCEPT !["round"] = "begin"] ELSE attempt[l]]
          /\ subAt' = "round"
          /\ UNCHANGED <<cov, ended, linkSub, asked, queues>>
       \/ /\ closed \/ Links = {}
          /\ End
          /\ subAt' = "none"
          /\ UNCHANGED attempt
    /\ UNCHANGED <<poolLink, replayed, inPool, closed>>

\* firstAttached returns with the first acceptance, or once every link failed.
FirstAttached ==
    /\ subAt = "round"
    /\ \/ /\ \E l \in round : attempt[l]["round"] = "ok"
          /\ subAt' = "add"
          /\ UNCHANGED <<cov, ended, linkSub, asked, round, queues>>
       \/ /\ \A l \in round : attempt[l]["round"] = "err"
          /\ End
          /\ subAt' = "none"
    /\ attempt' = [l \in Link |-> [attempt[l] EXCEPT !["round"] = IF @ \in {"ok", "err"} THEN "none" ELSE @]]
    /\ UNCHANGED <<poolLink, replayed, inPool, closed>>

\* The pool learns of the subscription, unless it closed meanwhile,
AddToPool ==
    /\ subAt = "add"
    /\ \/ /\ ~closed /\ inPool' = TRUE /\ subAt' = "late"
          /\ UNCHANGED <<cov, ended, linkSub, asked, round, queues>>
       \/ /\ closed /\ End /\ subAt' = "none"
          /\ UNCHANGED inPool
    /\ UNCHANGED <<poolLink, replayed, attempt, closed>>

\* Mutant: the links that came up during the first round are not looked for.
AttachNoLate ==
    /\ subAt = "late" /\ subAt' = "held"
    /\ round' = {}
    /\ UNCHANGED <<links, attempt, cov, ended, inPool, closed, queues>>

\* and the links that came up since the first round began are attached.
AttachLate ==
    /\ subAt = "late" /\ subAt' = "held"
    /\ attempt' = [l \in Link |-> IF l \in Links \ round THEN [attempt[l] EXCEPT !["late"] = "begin"] ELSE attempt[l]]
    /\ round' = {}
    /\ UNCHANGED <<links, cov, ended, inPool, closed, queues>>
-----------------------------------------------------------------------------
attaching == {l \in Link : \E w \in Who : attempt[l][w] \in {"asking", "accepted"}}

Attempts(l, w, to) == attempt' = [attempt EXCEPT ![l][w] = to]

\* Its result: firstAttached reads it while the round lasts, nobody after.
Results(l, w, result) == Attempts(l, w, IF w = "round" /\ subAt = "round" THEN result ELSE "none")

\* attach: nothing to do for a link already attached or attaching to, else the
\* link's Subscribe, which enters its map.  One that enters once the map was
\* taken has a channel that nobody closes; its SUBSCRIBE may still leave before
\* the connection is closed.
AttachBegins(l, w) ==
    /\ attempt[l][w] = "begin"
    /\ IF ended \/ l \in onLinks \union attaching
       THEN Results(l, w, "ok") /\ UNCHANGED <<asked, linkSub>>
       ELSE /\ Attempts(l, w, "asking") /\ asked' = asked \union {l}
            /\ linkSub' = [linkSub EXCEPT ![l] = "open"]
    /\ UNCHANGED <<poolLink, replayed, subAt, round, cov, ended, inPool, closed, queues>>

\* It fails for a refusal, no answer or the link's end; an acceptance may still
\* be taken once the link is done (verdict's select),
AttachAnswered(l, w) ==
    /\ attempt[l][w] = "asking"
    /\ \/ Attempts(l, w, "accepted") /\ UNCHANGED linkSub
       \/ Results(l, w, "err") /\ linkSub' = [linkSub EXCEPT ![l] = "none"]
    /\ UNCHANGED <<poolLink, replayed, asked, subAt, round, cov, ended, inPool, closed, queues>>

\* Mutant: the ends of covering links are not recorded before the new one covers.
AttachCoversOnly(l, w) ==
    /\ attempt[l][w] = "accepted"
    /\ Results(l, w, "ok")
    /\ IF ended
       THEN linkSub' = [linkSub EXCEPT ![l] = "none"] /\ UNCHANGED <<cov, queues>>
       ELSE /\ onLinks' = onLinks \union {l}
            /\ cover' = cover \union {l}
            /\ interrupted' = FALSE
            /\ Owe(IF interrupted THEN <<"gap">> ELSE <<>>)
            /\ UNCHANGED linkSub
    /\ UNCHANGED <<poolLink, replayed, asked, subAt, round, ended, inPool, closed>>

\* and, under s.mu, the link carries the subscription: the covering links that
\* ended meanwhile leave first (endEnded), then it covers, which may owe a Gap.
AttachCovers(l, w) ==
    /\ attempt[l][w] = "accepted"
    /\ Results(l, w, "ok")
    /\ IF ended
       THEN linkSub' = [linkSub EXCEPT ![l] = "none"] /\ UNCHANGED <<cov, queues>>
       ELSE LET gone == {k \in onLinks : poolLink[k] # "up"}
            IN  /\ onLinks' = onLinks \union {l}
                /\ cover' = (cover \ gone) \union {l}
                /\ interrupted' = FALSE
                /\ Owe(InterruptedOwed(gone) \o IF Emptied(gone) THEN <<"gap">> ELSE <<>>)
                /\ UNCHANGED linkSub
    /\ UNCHANGED <<poolLink, replayed, asked, subAt, round, ended, inPool, closed>>
-----------------------------------------------------------------------------
\* forward: an event of the link's channel, which may outlive the link, goes to
\* the opening stage, or is delivered unless a Required group refuses it,
Forward(l) ==
    /\ linkSub[l] \in {"open", "closed"}
    /\ l \notin attaching
    /\ \/ grouped /\ opening' = queued(opening) /\ UNCHANGED events
       \/ ~grouped /\ events' = queued(events) /\ UNCHANGED opening
       \/ ~grouped /\ UNCHANGED <<opening, events>>
    /\ UNCHANGED <<poolLink, replayed, linkSub, asked, subAt, round, attempt, cov, ended, inPool, closed>>
    /\ UNCHANGED <<grouped, hand, noticed, taken>>

\* and once the channel is closed and drained the link leaves the set.
ForwardEnds(l) ==
    /\ linkSub[l] = "closed"
    /\ l \notin attaching
    /\ linkSub' = [linkSub EXCEPT ![l] = "none"]
    /\ IF l \in onLinks
       THEN /\ onLinks' = onLinks \ {l}
            /\ cover' = cover \ {l}
            /\ interrupted' = Emptied({l})
            /\ Owe(InterruptedOwed({l}))
       ELSE UNCHANGED <<cov, queues>>
    /\ UNCHANGED <<poolLink, replayed, asked, subAt, round, attempt, ended, inPool, closed>>

\* open: takes the opening stage's deliveries one at a time,
OpenTakes ==
    /\ opening # <<>> /\ hand = <<>>
    /\ hand' = <<Head(opening)>> /\ opening' = Tail(opening)
    /\ UNCHANGED <<links, subAt, round, attempt, cov, ended, inPool, closed, grouped, events, noticed, taken>>

\* opens an event, which takes a while, and passes notices on in their place.
OpenPasses ==
    /\ hand # <<>> /\ hand' = <<>>
    /\ events' = IF ended THEN events
                 ELSE IF hand[1] = "event" THEN queued(events) ELSE push(events, hand[1])
    /\ UNCHANGED <<links, subAt, round, attempt, cov, ended, inPool, closed, grouped, opening, noticed, taken>>

\* The reader of Events.
Reads ==
    /\ events # <<>>
    /\ events' = Tail(events)
    /\ taken' = (taken \/ Head(events) = "newest")
    /\ UNCHANGED <<links, subAt, round, attempt, cov, ended, inPool, closed, grouped, opening, hand, noticed>>

Unsubscribe ==
    /\ subAt = "held" /\ ~ended
    /\ inPool' = FALSE
    /\ End
    /\ UNCHANGED <<poolLink, replayed, subAt, attempt, closed>>
-----------------------------------------------------------------------------
\* Close: p.closed is set with the mutex held, then the context is cancelled
\* (one step: whatever runs between the two reads only one of them, and could
\* as well run before or after both), the members are awaited, and the
\* subscriptions p.subs held are ended.
Close ==
    /\ ~closed /\ closed' = TRUE
    /\ UNCHANGED <<links, subAt, round, attempt, cov, ended, inPool, queues>>

\* Mutant: Close ends no subscription.
CloseEndsNone ==
    /\ closed /\ inPool /\ \A l \in Link : poolLink[l] \in {"off", "gone"}
    /\ inPool' = FALSE
    /\ UNCHANGED <<links, subAt, round, attempt, cov, ended, closed, queues>>

CloseEnds ==
    /\ closed /\ inPool /\ \A l \in Link : poolLink[l] \in {"off", "gone"}
    /\ inPool' = FALSE
    /\ IF ended THEN UNCHANGED <<cov, ended, linkSub, asked, round, queues>> ELSE End
    /\ UNCHANGED <<poolLink, replayed, subAt, attempt, closed>>

\* What the scheduler runs without waiting for the outside: the goroutines of
\* subscribe, attach, supervise and Close.  A link's Subscribe returns, by
\* SubscribeReturns of LinkPubSub, once its station reads or the link ends, and a
\* member closes its link once cancelled.
Progress ==
    \/ \E l \in Link : Replay(l) \/ LinkGone(l) \/ LinkClosed(l) \/ (closed /\ LinkErr(l))
    \/ \E l \in Link, w \in Who : AttachBegins(l, w) \/ AttachAnswered(l, w) \/ AttachCovers(l, w)
    \/ FirstAttached \/ AddToPool \/ AttachLate
    \/ CloseEnds

PNext ==
    \/ Progress
    \/ \E l \in Link : LinkUp(l) \/ LinkErr(l) \/ Forward(l) \/ ForwardEnds(l)
    \/ SubscribeRound \/ OpenTakes \/ OpenPasses \/ Reads \/ Unsubscribe \/ Close

PSpec == PInit /\ [][PNext]_pvars
-----------------------------------------------------------------------------
\* A link the pool holds is never left out: once Subscribe returned and the
\* replay on a link ran, some attach has asked that link for the subscription,
\* whichever of the two came first.
NoLinkForgotten ==
    subAt = "held" /\ ~ended /\ ~closed =>
        \A l \in replayed : poolLink[l] = "up" /\ (\A w \in Who : attempt[l][w] # "begin") => l \in asked

\* The newest notice always gets in: it waits in a queue of the subscription,
\* or the reader took it, however full the queues were.
NewestNoticeKept ==
    ~ended /\ noticed # "none" =>
        taken \/ \E ch \in {opening, hand, events} : \E i \in DOMAIN ch : ch[i] = "newest"

\* The notices follow the promise of Delivery's documentation: no time without a
\* link that carries the subscription passes unnoticed, and none is noticed that
\* was not.
P == INSTANCE SubscriptionPromise WITH
        phase <- IF ended THEN "over" ELSE IF interrupted THEN "bare" ELSE IF cover = {} THEN "fresh" ELSE "covered",
        dark <- cover # {} /\ \A l \in cover : poolLink[l] # "up",
        notice <- noticed,
        closing <- closed
Promise == P!Promise

\* No goroutine of Progress has a step to take in a closed pool, the guards of
\* its actions written out.
Resting ==
    /\ \A l \in Link : poolLink[l] \in {"off", "gone"}
    /\ \A l \in Link, w \in Who : attempt[l][w] \notin {"begin", "asking", "accepted"}
    /\ subAt = "round" => /\ \A l \in round : attempt[l]["round"] # "ok"
                          /\ \E l \in round : attempt[l]["round"] # "err"
    /\ subAt \notin {"add", "late"}
    /\ ~inPool

\* The subscription ends with its pool: whatever was under way when Close
\* began, its goroutines come to rest only with Subscribe returned and Events
\* closed.
EndsWithPool == closed /\ subAt # "idle" /\ Resting => ended
=============================================================================
