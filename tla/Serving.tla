------------------------------- MODULE Serving -------------------------------
(***************************************************************************)
(* Serving a procedure on the links of a pool (pool/serve.go) and on each  *)
(* of them (Serve, renew and Stop of stationlink/serve.go, with register.go),*)
(* against their stations (teststation).                                   *)
(*                                                                         *)
(* An attempt signs an advertisement, takes the procedure's entry of the   *)
(* link, sends ADVERTISE and waits for the REGISTER_ACK; what a station    *)
(* did not answer is withdrawn.  A served advertisement is renewed at half *)
(* its life, and ends serving when it lapses.  Attempts that fail other    *)
(* than by a refusal are repeated while the link lives.                    *)
(***************************************************************************)
EXTENDS Naturals, Sequences

CONSTANTS
    Uplink,     \* the links the pool brings up, each once
    MaxAdverts  \* bound of the model on the ADVERTISEs sent

\* Whose attempt: firstServed's, or an attach loop's, started for the links up
\* since the first round, by replay, by retryFailed, or by watch.
By == {"first", "late", "replay", "retry", "watch"}

VARIABLES
    up,         \* each link: "off", "up", "done"
    replays,    \* the links whose replay ran
    serveAt,    \* where pool.Serve is: "idle", "first", "add", "late", "served", "stopped"
    asks,       \* the links firstServed asks
    try,        \* each attempt: "none", "begin", "verdict", "accepted", "delay"; firstServed's also "ok", "refused", "failed"
    entry,      \* l.served: whose Served holds the procedure on the link
    running,    \* onLinks, with their watch, then Stop's copy of them: the links the offer is served on
    lapsed,     \* links whose Served ended while the link lives: watch will attach again
    age,        \* of the latest advertisement of a Served: "fresh", "half", "over"
    renewing,   \* renew is between its timer and its ADVERTISE
    withdrawing, \* links whose Served Stop ended and has not yet withdrawn
    orphan,     \* a renew whose Served ended meanwhile
    sent,       \* ADVERTISEs sent
    control,    \* each link's control stream to the station
    ack,        \* the answer channel of the attempt that waits on the link
    route,      \* the station routes the procedure to the link
    refusing,   \* history: links whose station refused the offer
    balks,      \* history: links whose station may keep a route: an UNADVERTISE it did not apply, an advertisement that lapsed
    raced       \* history: links a renewal was sent on after its Served ended

poolServe == <<serveAt, asks, try, running, lapsed>>
onLink == <<entry, age, renewing, orphan, withdrawing, ack>>
station == <<control, route, refusing, balks>>
svars == <<up, replays, poolServe, onLink, sent, station, raced>>

SInit ==
    /\ up = [l \in Uplink |-> "off"] /\ replays = {}
    /\ serveAt = "idle" /\ asks = {} /\ try = [l \in Uplink |-> [b \in By |-> "none"]]
    /\ running = {} /\ lapsed = {}
    /\ entry = [l \in Uplink |-> "none"] /\ age = [l \in Uplink |-> "fresh"]
    /\ renewing = {} /\ orphan = {} /\ withdrawing = {} /\ ack = [l \in Uplink |-> "none"]
    /\ sent = 0
    /\ control = [l \in Uplink |-> <<>>] /\ route = {} /\ refusing = {} /\ balks = {} /\ raced = {}

Tries(l, b, to) == try' = [try EXCEPT ![l][b] = to]
Sends(l, f) == control' = IF up[l] = "up" THEN [control EXCEPT ![l] = Append(@, f)] ELSE control
Starts(ls, b) == [l \in Uplink |-> IF l \in ls /\ try[l][b] = "none" THEN [try[l] EXCEPT ![b] = "begin"] ELSE try[l]]
Held == {l \in Uplink : up[l] = "up"}
-----------------------------------------------------------------------------
\* supervise brings a link up, then replays the offers of p.served on it.
ServeLinkUp(l) ==
    /\ up[l] = "off"
    /\ up' = [up EXCEPT ![l] = "up"]
    /\ UNCHANGED <<replays, poolServe, onLink, sent, station, raced>>

ServeReplay(l) ==
    /\ up[l] = "up" /\ l \notin replays
    /\ replays' = replays \union {l}
    /\ try' = IF serveAt \in {"late", "served"} THEN Starts({l}, "replay") ELSE try
    /\ UNCHANGED <<up, serveAt, asks, running, lapsed, onLink, sent, station, raced>>

\* The link ends: endServed ends what it serves, watch forgets it, the waits
\* return and the station forgets the connection.
ServeLinkEnds(l) ==
    /\ up[l] = "up"
    /\ up' = [up EXCEPT ![l] = "done"]
    /\ entry' = [entry EXCEPT ![l] = "none"]
    /\ running' = running \ {l} /\ lapsed' = lapsed \ {l}
    /\ renewing' = renewing \ {l} /\ orphan' = orphan \ {l} /\ withdrawing' = withdrawing \ {l}
    /\ control' = [control EXCEPT ![l] = <<>>] /\ route' = route \ {l}
    /\ try' = [try EXCEPT ![l] = [b \in By |-> IF b = "first" /\ try[l][b] # "none" /\ serveAt = "first"
                                                THEN IF try[l][b] \in {"ok", "refused"} THEN try[l][b] ELSE "failed"
                                                ELSE "none"]]
    /\ ack' = [ack EXCEPT ![l] = "none"]
    /\ replays' = replays \ {l} /\ age' = [age EXCEPT ![l] = "fresh"]
    /\ refusing' = refusing \ {l} /\ balks' = balks \ {l} /\ raced' = raced \ {l}
    /\ UNCHANGED <<serveAt, asks, sent>>

\* The station's advertised and unadvertised: the REGISTER_ACK of an
\* ADVERTISE is for the attempt that waits for that record's version.
StationJudges(l, judged) ==
    /\ control[l] # <<>>
    /\ control' = [control EXCEPT ![l] = Tail(@)]
    /\ LET f == Head(control[l])
       IN  /\ route' = IF judged # "accepted" THEN route
                       ELSE IF f = "unadvertise" THEN route \ {l} ELSE route \union {l}
           /\ ack' = IF f = "advertise" /\ judged # "silent" THEN [ack EXCEPT ![l] = judged] ELSE ack
           /\ refusing' = IF f # "unadvertise" /\ judged = "refused" THEN refusing \union {l} ELSE refusing
           /\ balks' = IF f = "unadvertise" /\ judged # "accepted" THEN balks \union {l} ELSE balks
    /\ UNCHANGED <<up, replays, poolServe, entry, age, renewing, orphan, withdrawing, sent, raced>>
-----------------------------------------------------------------------------
\* pool.Serve asks every link at once,
ServeFirst ==
    /\ serveAt = "idle" /\ Held # {}
    /\ serveAt' = "first" /\ asks' = Held
    /\ try' = Starts(Held, "first")
    /\ UNCHANGED <<up, replays, running, lapsed, onLink, sent, station, raced>>

\* firstServed returns once one station accepts, or when none does,
FirstServed ==
    /\ serveAt = "first"
    /\ \/ (\E l \in asks : try[l]["first"] = "ok") /\ serveAt' = "add"
       \/ (\A l \in asks : try[l]["first"] \in {"refused", "failed"}) /\ serveAt' = "stopped"
    /\ try' = [l \in Uplink |-> [try[l] EXCEPT !["first"] = IF @ \in {"ok", "refused"} THEN "none" ELSE @]]
    /\ UNCHANGED <<up, replays, asks, running, lapsed, onLink, sent, station, raced>>

\* the pool learns of the offer, or was closed meanwhile, and Serve stops it,
AddServed ==
    /\ serveAt = "add" /\ serveAt' \in {"late", "stopped"}
    /\ UNCHANGED <<up, replays, asks, try, running, lapsed, onLink, sent, station, raced>>

\* and the links up since are attached.
ServeLate ==
    /\ serveAt = "late" /\ serveAt' = "served"
    /\ try' = Starts(Held \ asks, "late")
    /\ asks' = {}
    /\ UNCHANGED <<up, replays, running, lapsed, onLink, sent, station, raced>>

\* Mutant: what failed in the first round is not repeated.
RetryNone(l) ==
    /\ serveAt \notin {"idle", "first"} /\ try[l]["first"] = "failed"
    /\ Tries(l, "first", "none")
    /\ UNCHANGED <<up, replays, serveAt, asks, running, lapsed, onLink, sent, station, raced>>

\* retryFailed, for a link of the first round that failed, once Serve went on.
RetryFailed(l) ==
    /\ serveAt \notin {"idle", "first"} /\ try[l]["first"] = "failed"
    /\ try' = [try EXCEPT ![l]["first"] = "none", ![l]["retry"] = IF up[l] = "up" THEN "begin" ELSE "none"]
    /\ UNCHANGED <<up, replays, serveAt, asks, running, lapsed, onLink, sent, station, raced>>

\* An attempt's result: the first round's is collected, an attach loop ends
\* with nil or a refusal and repeats anything else after RespawnDelay.
Result(l, b, result) ==
    Tries(l, b, CASE b # "first" /\ result = "failed" -> "delay"
                  [] b = "first" /\ (serveAt = "first" \/ result = "failed") -> result
                  [] OTHER -> "none")

\* serveOn up to the ADVERTISE: nothing for an offer stopped or served there,
\* nor where the link's entry is taken; resolving the authorization may fail.
ServeOn(l, b) ==
    /\ try[l][b] = "begin"
    /\ \/ /\ serveAt = "stopped" \/ l \in running \/ entry[l] # "none"
          /\ Result(l, b, "ok")
          /\ UNCHANGED <<entry, age, ack, sent, control>>
       \/ /\ serveAt # "stopped" /\ l \notin running
          /\ Result(l, b, "failed")
          /\ UNCHANGED <<entry, age, ack, sent, control>>
       \/ /\ serveAt # "stopped" /\ l \notin running /\ entry[l] = "none" /\ sent < MaxAdverts
          /\ entry' = [entry EXCEPT ![l] = b]
          /\ age' = [age EXCEPT ![l] = "fresh"]
          /\ ack' = [ack EXCEPT ![l] = "none"]
          /\ sent' = sent + 1
          /\ Sends(l, "advertise")
          /\ Tries(l, b, "verdict")
    /\ UNCHANGED <<up, replays, serveAt, asks, running, lapsed, renewing, orphan, withdrawing, route, refusing, balks, raced>>

\* Frames nobody waits for an answer to any more.
GivenUp(fs) == [i \in DOMAIN fs |-> IF fs[i] = "advertise" THEN "renewal" ELSE fs[i]]

\* Mutant: a registration given up is not withdrawn.
GivesUpSilently(fs) == GivenUp(fs)

\* What registered sends once it gives a registration up.
Withdraw(fs) == Append(GivenUp(fs), "unadvertise")

\* registered: the verdict and, once accepted, the put in the DHT; what was not
\* answered in time or could not be put is withdrawn, and the entry let go.
Registered(l, b) ==
    /\ try[l][b] = "verdict"
    /\ \/ ack[l] = "accepted" /\ Tries(l, b, "accepted") /\ UNCHANGED <<entry, control>>
       \/ /\ ack[l] = "refused"
          /\ entry' = [entry EXCEPT ![l] = "none"]
          /\ Result(l, b, "refused")
          /\ UNCHANGED control
       \/ /\ entry' = [entry EXCEPT ![l] = "none"]
          /\ control' = [control EXCEPT ![l] = Withdraw(@)]
          /\ Result(l, b, "failed")
    /\ ack' = [ack EXCEPT ![l] = "none"]
    /\ UNCHANGED <<up, replays, serveAt, asks, running, lapsed, age, renewing, orphan, withdrawing, sent, route, refusing, balks, raced>>

\* serveOn takes the link's Served, or stops it when the offer was stopped.
ServedOn(l, b) ==
    /\ try[l][b] = "accepted"
    /\ Result(l, b, "ok")
    /\ IF serveAt = "stopped"
       THEN /\ entry' = [entry EXCEPT ![l] = "none"]
            /\ withdrawing' = withdrawing \union {l}
            /\ UNCHANGED running
       ELSE running' = running \union {l} /\ UNCHANGED <<entry, withdrawing>>
    /\ UNCHANGED <<up, replays, serveAt, asks, lapsed, age, renewing, orphan, ack, sent, station, raced>>

\* attach repeats after RespawnDelay while the link lives.
AttachAgain(l, b) ==
    /\ try[l][b] = "delay" /\ up[l] = "up"
    /\ Tries(l, b, "begin")
    /\ UNCHANGED <<up, replays, serveAt, asks, running, lapsed, onLink, sent, station, raced>>

\* watch attaches again where the offer lapsed.
WatchAttaches(l) ==
    /\ l \in lapsed
    /\ lapsed' = lapsed \ {l}
    /\ try' = Starts({l}, "watch")
    /\ UNCHANGED <<up, replays, serveAt, asks, running, onLink, sent, station, raced>>
-----------------------------------------------------------------------------
\* Time passes for the advertisement of a Served.
Ages(l) ==
    /\ entry[l] # "none" /\ l \in running /\ age[l] # "over"
    /\ age' = [age EXCEPT ![l] = IF @ = "fresh" THEN "half" ELSE "over"]
    /\ UNCHANGED <<up, replays, poolServe, entry, renewing, orphan, withdrawing, ack, sent, station, raced>>

\* renew wakes at half life: it renews, or ends the Served once its
\* advertisement lapsed, which watch hears of.
RenewWakes(l) ==
    /\ l \in running /\ l \notin renewing /\ age[l] # "fresh"
    /\ \/ /\ age[l] = "half" /\ sent < MaxAdverts
          /\ renewing' = renewing \union {l}
          /\ UNCHANGED <<entry, running, lapsed, balks>>
       \/ /\ age[l] = "over"
          /\ entry' = [entry EXCEPT ![l] = "none"]
          /\ running' = running \ {l}
          /\ lapsed' = IF serveAt = "stopped" THEN lapsed ELSE lapsed \union {l}
          /\ balks' = balks \union {l}
          /\ UNCHANGED renewing
    /\ UNCHANGED <<up, replays, serveAt, asks, try, age, orphan, withdrawing, ack, sent, control, route, refusing, raced>>

\* It resolves, signs and announces, each of which may fail and is retried;
\* its Served may have ended since the timer.
Renews(l) ==
    /\ l \in renewing \union orphan
    /\ renewing' = renewing \ {l} /\ orphan' = orphan \ {l}
    /\ \/ UNCHANGED <<age, sent, control, raced>>
       \/ /\ sent < MaxAdverts
          /\ sent' = sent + 1
          /\ Sends(l, "renewal")
          /\ age' = IF l \in renewing THEN [age EXCEPT ![l] = "fresh"] ELSE age
          /\ raced' = IF l \in orphan THEN raced \union {l} ELSE raced
    /\ UNCHANGED <<up, replays, poolServe, entry, withdrawing, ack, route, refusing, balks>>

\* Stop, of the pool's Served,
StopServed ==
    /\ serveAt = "served" /\ serveAt' = "stopped"
    /\ UNCHANGED <<up, replays, asks, try, running, lapsed, onLink, sent, station, raced>>

\* then of each link's, unless it ended of itself: the entry is let go and the
\* renewal told to stop,
StopEnds(l) ==
    /\ serveAt = "stopped" /\ l \in running
    /\ entry' = [entry EXCEPT ![l] = "none"]
    /\ running' = running \ {l} /\ withdrawing' = withdrawing \union {l}
    /\ renewing' = renewing \ {l} /\ orphan' = orphan \union (renewing \intersect {l})
    /\ UNCHANGED <<up, replays, serveAt, asks, try, lapsed, age, ack, sent, station, raced>>

\* and UNADVERTISE sent with the tombstone.
StopWithdraws(l) ==
    /\ l \in withdrawing
    /\ withdrawing' = withdrawing \ {l}
    /\ Sends(l, "unadvertise")
    /\ UNCHANGED <<up, replays, poolServe, entry, age, renewing, orphan, ack, sent, route, refusing, balks, raced>>

SNext ==
    \/ ServeFirst \/ FirstServed \/ AddServed \/ ServeLate \/ StopServed
    \/ \E l \in Uplink :
        \/ ServeLinkUp(l) \/ ServeReplay(l) \/ ServeLinkEnds(l) \/ RetryFailed(l) \/ WatchAttaches(l)
        \/ Ages(l) \/ RenewWakes(l) \/ Renews(l) \/ StopEnds(l) \/ StopWithdraws(l)
        \/ \E judged \in {"accepted", "refused", "silent"} : StationJudges(l, judged)
        \/ \E b \in By : ServeOn(l, b) \/ Registered(l, b) \/ ServedOn(l, b) \/ AttachAgain(l, b)

SSpec == SInit /\ [][SNext]_svars
-----------------------------------------------------------------------------
\* Nothing is under way on the link.
Still(l) ==
    /\ up[l] = "up" /\ control[l] = <<>> /\ l \notin renewing \union orphan \union withdrawing
    /\ \A b \in By : try[l][b] \in {"none", "ok", "refused", "failed", "delay"}

\* A station routes CALLs to the link only for a procedure served there:
\* what was refused, given up or stopped leaves no route behind (that of an
\* advertisement that lapsed is the station's to drop).
NoRouteUnserved ==
    \A l \in Uplink : Still(l) /\ l \in route => l \in running \union balks \union raced

\* The offer is served on every link until Stop: on a link that is up and was
\* replayed, it is served, or its station refused it, or it is tried again.
ServedEverywhere ==
    serveAt = "served" => \A l \in replays : up[l] = "up" =>
        \/ l \in running \union refusing \union lapsed
        \/ \E b \in By : try[l][b] # "none"
=============================================================================
