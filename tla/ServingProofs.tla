---------------------------- MODULE ServingProofs ---------------------------
(***************************************************************************)
(* Proofs about a pool's procedures, for any number of links and any bound *)
(* on the advertisements: an offer is served everywhere and leaves no route*)
(* behind.  And about its calls, for any callers and candidates: a handler *)
(* runs once, and what was sealed is never sent clear again.               *)
(***************************************************************************)
EXTENDS Serving, Calling, TLAPS

Stage == {"none", "begin", "verdict", "accepted", "delay", "ok", "refused", "failed"}
Frame == {"advertise", "renewal", "unadvertise"}

ServeType ==
    /\ serveAt \in {"idle", "first", "add", "late", "served", "stopped"}
    /\ up \in [Uplink -> {"off", "up", "done"}]
    /\ try \in [Uplink -> [By -> Stage]]
    /\ entry \in [Uplink -> By \union {"none"}]
    /\ ack \in [Uplink -> {"none", "accepted", "refused"}]
    /\ control \in [Uplink -> Seq(Frame)]
    /\ asks \subseteq Uplink /\ replays \subseteq Uplink /\ running \subseteq Uplink /\ lapsed \subseteq Uplink

\* An attempt that holds, or waits to hold, the link's entry.
Holding(l, b) == try[l][b] \in {"verdict", "accepted"}

\* The entry of a link is that of the one attempt that took it, or of what is
\* served there; attempts are made, and the offer served, on links that are up.
EntryOk(l) ==
    /\ entry[l] # "none" => l \in running \/ \E b \in By : Holding(l, b)
    /\ \A b \in By : Holding(l, b) => entry[l] = b /\ l \notin running
    /\ l \in running => entry[l] # "none"
    /\ try[l]["first"] # "none" => try[l]["retry"] = "none"
    /\ ack[l] = "refused" => l \in refusing
    /\ l \in running \union lapsed \union withdrawing => up[l] = "up"
    /\ l \in withdrawing => entry[l] = "none" /\ serveAt = "stopped"
    /\ \A b \in By : try[l][b] \in {"begin", "verdict", "accepted", "delay"} => up[l] = "up"
    /\ up[l] = "off" => l \notin asks \union replays
    /\ \A b \in By \ {"first"} : try[l][b] \notin {"ok", "refused", "failed"}

EntryInv == \A l \in Uplink : EntryOk(l)

\* The offer is served on the link, or refused there, or an attempt goes on.
Covered(l) ==
    \/ l \in running \union refusing \union lapsed
    \/ \E b \in By : try[l][b] \in {"begin", "verdict", "accepted", "delay", "failed"}

\* Serve covers the links it asked, then the links that were replayed.
CoverInv ==
    /\ serveAt = "idle" => running = {} /\ lapsed = {} /\ \A l \in Uplink : \A b \in By : try[l][b] = "none"
    /\ serveAt \in {"first", "add", "late"} => \A l \in asks : up[l] = "up" => Covered(l)
    /\ serveAt = "served" => \A l \in replays : up[l] = "up" => Covered(l)

\* The ADVERTISEs in a control stream whose answer an attempt waits for, and
\* whether what the stream holds leaves link l without a route among routes.
Adverts(fs) == {k \in 1..Len(fs) : fs[k] = "advertise"}
EndsClean(fs, l, routes) == IF fs = <<>> THEN l \notin routes ELSE fs[Len(fs)] = "unadvertise"
Placed(fs, l, routes) ==
    \A k \in Adverts(fs) : /\ k = Len(fs)
                           /\ k = 1 => l \notin routes
                           /\ k > 1 => fs[k - 1] = "unadvertise"

Awaited(l) == \E b \in By : try[l][b] = "verdict"

\* A link whose entry is free, its Stop done, ends without a route, and an ADVERTISE is sent
\* only to such a link: when it is refused nothing is routed.
RouteOk(l) ==
    /\ Adverts(control[l]) # {} => ack[l] = "none" /\ Awaited(l)
    /\ \A j, k \in Adverts(control[l]) : j = k
    /\ l \in renewing => l \in running
    /\ l \notin balks \union raced =>
         /\ entry[l] = "none" /\ l \notin withdrawing => EndsClean(control[l], l, route)
         /\ Placed(control[l], l, route)
         /\ Awaited(l) /\ ack[l] = "refused" => control[l] = <<>> /\ l \notin route

RouteInv == \A l \in Uplink : RouteOk(l)

-----------------------------------------------------------------------------
(* Steps of one link *)

\* What the step leaves of link m as it was.
Same(m) ==
    /\ entry'[m] = entry[m] /\ try'[m] = try[m] /\ ack'[m] = ack[m]
    /\ control'[m] = control[m] /\ up'[m] = up[m]
    /\ m \in running' <=> m \in running
    /\ m \in lapsed' <=> m \in lapsed
    /\ m \in renewing' <=> m \in renewing
    /\ m \in withdrawing' <=> m \in withdrawing
    /\ m \in refusing' <=> m \in refusing
    /\ m \in balks' <=> m \in balks
    /\ m \in raced' <=> m \in raced
    /\ m \in route' <=> m \in route
    /\ m \in replays' <=> m \in replays

\* An attempt goes from one stage to another.
LEMMA TryTo ==
  ASSUME ServeType, NEW l \in Uplink, NEW b \in By, NEW to \in Stage, Tries(l, b, to)
  PROVE  /\ try' \in [Uplink -> [By -> Stage]]
         /\ \A m \in Uplink \ {l} : try'[m] = try[m]
         /\ try'[l][b] = to /\ \A c \in By \ {b} : try'[l][c] = try[l][c]
BY Zenon DEF ServeType, Tries

\* Attempts are started on some links.
LEMMA StartsTo ==
  ASSUME ServeType, NEW ls, NEW b \in By, try' = Starts(ls, b)
  PROVE  \A m \in Uplink :
           /\ \A c \in By : m \notin ls \/ c # b => try'[m][c] = try[m][c]
           /\ m \in ls => try'[m][b] = IF try[m][b] = "none" THEN "begin" ELSE try[m][b]
<1>1. try \in [Uplink -> [By -> Stage]]
  BY Zenon DEF ServeType
<1> SUFFICES ASSUME NEW m \in Uplink
             PROVE  /\ \A c \in By : m \notin ls \/ c # b => try'[m][c] = try[m][c]
                    /\ m \in ls => try'[m][b] = IF try[m][b] = "none" THEN "begin" ELSE try[m][b]
  BY Zenon
<1>2. try'[m] = IF m \in ls /\ try[m][b] = "none" THEN [try[m] EXCEPT ![b] = "begin"] ELSE try[m]
  BY Zenon DEF Starts
<1> QED
  BY <1>1, <1>2, Zenon

\* What an attempt's result makes of it.
LEMMA ResultTo ==
  ASSUME NEW l, NEW b, NEW result \in {"ok", "refused", "failed"}, Result(l, b, result)
  PROVE  \E to \in {"none", "ok", "refused", "failed", "delay"} :
           /\ Tries(l, b, to)
           /\ result = "failed" => to \in {"failed", "delay"}
           /\ to = "delay" => result = "failed"
           /\ b # "first" => to \in {"none", "delay"}
<1>1. CASE b # "first" /\ result = "failed"
  BY <1>1, Zenon DEF Result
<1>2. CASE b = "first" /\ (serveAt = "first" \/ result = "failed")
  BY <1>2, Zenon DEF Result
<1>3. CASE ~(b # "first" /\ result = "failed") /\ ~(b = "first" /\ (serveAt = "first" \/ result = "failed"))
  <2>1. Tries(l, b, "none") /\ result # "failed"
    BY <1>3, Zenon DEF Result
  <2> QED
    BY <2>1, Zenon
<1> QED
  BY <1>1, <1>2, <1>3, Zenon

\* A step of one link: serveAt, asks and the other links stay as they are.
OfLink(l) ==
    \/ ServeLinkUp(l) \/ ServeReplay(l) \/ ServeLinkEnds(l) \/ RetryFailed(l) \/ WatchAttaches(l)
    \/ Ages(l) \/ RenewWakes(l) \/ Renews(l) \/ StopEnds(l) \/ StopWithdraws(l)
    \/ \E judged \in {"accepted", "refused", "silent"} : StationJudges(l, judged)
    \/ \E b \in By : ServeOn(l, b) \/ Registered(l, b) \/ ServedOn(l, b) \/ AttachAgain(l, b)

\* A step of one link leaves the others as they are.
LEMMA Local ==
  ASSUME ServeType, NEW l \in Uplink, OfLink(l)
  PROVE  /\ serveAt' = serveAt /\ asks' = asks
         /\ \A m \in Uplink \ {l} : Same(m)
<1>t. /\ up \in [Uplink -> {"off", "up", "done"}] /\ try \in [Uplink -> [By -> Stage]]
      /\ entry \in [Uplink -> By \union {"none"}] /\ ack \in [Uplink -> {"none", "accepted", "refused"}]
      /\ control \in [Uplink -> Seq(Frame)]
  BY Zenon DEF ServeType
<1>0. serveAt' = serveAt /\ asks' = asks
  BY Zenon DEF OfLink, ServeLinkUp, ServeReplay, ServeLinkEnds, RetryFailed, WatchAttaches, Ages, RenewWakes, Renews,
       StationJudges, ServeOn, Registered, ServedOn, AttachAgain, StopEnds, StopWithdraws, poolServe
<1> SUFFICES ASSUME NEW m \in Uplink, m # l PROVE Same(m)
  BY <1>0, Zenon
<1>1. CASE ServeLinkUp(l)
  BY <1>1, <1>t, Zenon DEF ServeLinkUp, Same, poolServe, onLink, station
<1>2. CASE ServeReplay(l)
  BY <1>2, <1>t, Zenon DEF ServeReplay, Same, onLink, station, Starts
<1>3. CASE ServeLinkEnds(l)
  BY <1>3, <1>t, Zenon DEF ServeLinkEnds, Same
<1>4. CASE RetryFailed(l)
  BY <1>4, <1>t, Zenon DEF RetryFailed, Same, onLink, station
<1>5. CASE WatchAttaches(l)
  BY <1>5, <1>t, Zenon DEF WatchAttaches, Same, onLink, station, Starts
<1>6. CASE Ages(l)
  BY <1>6, <1>t, Zenon DEF Ages, Same, poolServe, station
<1>7. CASE RenewWakes(l)
  BY <1>7, <1>t, Zenon DEF RenewWakes, Same
<1>8. CASE Renews(l)
  BY <1>8, <1>t, Zenon DEF Renews, Same, poolServe, Sends
<1>9. CASE \E judged \in {"accepted", "refused", "silent"} : StationJudges(l, judged)
  BY <1>9, <1>t, ZenonT(40) DEF StationJudges, Same, poolServe
<1>10. ASSUME NEW b \in By, ServeOn(l, b) PROVE Same(m)
  <2>1. try'[m] = try[m]
    <3>1. \E to \in Stage : Tries(l, b, to)
      BY <1>10, ResultTo DEF ServeOn, Stage
    <3> QED
      BY <3>1, TryTo, Zenon
  <2>2. entry'[m] = entry[m] /\ ack'[m] = ack[m] /\ control'[m] = control[m]
    BY <1>10, <1>t, Zenon DEF ServeOn, Sends
  <2>3. UNCHANGED <<up, replays, running, lapsed, renewing, withdrawing, route, refusing, balks, raced>>
    BY <1>10, Zenon DEF ServeOn
  <2> QED
    BY <2>1, <2>2, <2>3, Zenon DEF Same
<1>11. ASSUME NEW b \in By, Registered(l, b) PROVE Same(m)
  <2>1. try'[m] = try[m]
    <3>1. \E to \in Stage : Tries(l, b, to)
      BY <1>11, ResultTo DEF Registered, Stage
    <3> QED
      BY <3>1, TryTo, Zenon
  <2>2. entry'[m] = entry[m] /\ ack'[m] = ack[m] /\ control'[m] = control[m]
    BY <1>11, <1>t, Zenon DEF Registered
  <2>3. UNCHANGED <<up, replays, running, lapsed, renewing, withdrawing, route, refusing, balks, raced>>
    BY <1>11, Zenon DEF Registered
  <2> QED
    BY <2>1, <2>2, <2>3, Zenon DEF Same
<1>12. ASSUME NEW b \in By, ServedOn(l, b) PROVE Same(m)
  <2>1. try'[m] = try[m]
    <3>1. \E to \in Stage : Tries(l, b, to)
      BY <1>12, ResultTo DEF ServedOn, Stage
    <3> QED
      BY <3>1, TryTo, Zenon
  <2>2. /\ entry'[m] = entry[m] /\ (m \in running' <=> m \in running)
        /\ m \in withdrawing' <=> m \in withdrawing
    <3>1. CASE serveAt = "stopped"
      <4>1. entry' = [entry EXCEPT ![l] = "none"] /\ withdrawing' = withdrawing \union {l} /\ UNCHANGED running
        BY <1>12, <3>1, Zenon DEF ServedOn
      <4> QED
        BY <1>t, <4>1, Zenon
    <3>2. CASE serveAt # "stopped"
      <4>1. running' = running \union {l} /\ UNCHANGED <<entry, withdrawing>>
        BY <1>12, <3>2, Zenon DEF ServedOn
      <4> QED
        BY <4>1, Zenon
    <3> QED
      BY <3>1, <3>2, Zenon
  <2>3. UNCHANGED <<ack, up, replays, lapsed, renewing, control, route, refusing, balks, raced>>
    BY <1>12, Zenon DEF ServedOn, station
  <2> QED
    BY <2>1, <2>2, <2>3, Zenon DEF Same
<1>13. ASSUME NEW b \in By, AttachAgain(l, b) PROVE Same(m)
  BY <1>13, <1>t, Zenon DEF AttachAgain, Tries, Same, onLink, station
<1>14. CASE StopEnds(l)
  BY <1>14, <1>t, Zenon DEF StopEnds, Same, station
<1>15. CASE StopWithdraws(l)
  BY <1>15, <1>t, Zenon DEF StopWithdraws, Same, poolServe, Sends
<1> QED
  BY <1>1, <1>2, <1>3, <1>4, <1>5, <1>6, <1>7, <1>8, <1>9, <1>10, <1>11, <1>12, <1>13, <1>14, <1>15, Zenon DEF OfLink

\* A step is of the offer, or of one link.
LEMMA NextIs ==
  ASSUME [SNext]_svars
  PROVE  \/ ServeFirst \/ FirstServed \/ AddServed \/ ServeLate \/ StopServed
         \/ (\E l \in Uplink : OfLink(l)) \/ UNCHANGED svars
BY Zenon DEF SNext, OfLink

\* What a registration given up leaves in the stream.
LEMMA WithdrawIs ==
  ASSUME NEW fs \in Seq(Frame)
  PROVE  /\ Withdraw(fs) \in Seq(Frame) /\ Len(Withdraw(fs)) = Len(fs) + 1
         /\ Withdraw(fs)[Len(fs) + 1] = "unadvertise"
         /\ \A k \in 1..Len(fs) + 1 : Withdraw(fs)[k] # "advertise"
<1>1. GivenUp(fs) \in Seq(Frame) /\ Len(GivenUp(fs)) = Len(fs) /\ \A k \in 1..Len(fs) : GivenUp(fs)[k] # "advertise"
  <2>1. DOMAIN fs = 1..Len(fs) /\ Len(fs) \in Nat /\ \A k \in 1..Len(fs) : fs[k] \in Frame
    OBVIOUS
  <2>2. GivenUp(fs) \in [1..Len(fs) -> Frame] /\ \A k \in 1..Len(fs) : GivenUp(fs)[k] # "advertise"
    BY <2>1, Zenon DEF GivenUp, Frame
  <2> QED
    BY <2>1, <2>2
<1>2. "unadvertise" \in Frame
  BY Zenon DEF Frame
<1> QED
  BY <1>1, <1>2 DEF Withdraw

\* What a frame sent makes of the streams: nothing of that of a link that ended.
LEMMA SendsTo ==
  ASSUME ServeType, NEW l \in Uplink, NEW f \in Frame, Sends(l, f)
  PROVE  /\ control' \in [Uplink -> Seq(Frame)]
         /\ up[l] = "up" => control'[l] = Append(control[l], f)
<1>1. CASE up[l] = "up"
  <2>1. control' = [control EXCEPT ![l] = Append(@, f)]
    BY <1>1, Zenon DEF Sends
  <2>2. control \in [Uplink -> Seq(Frame)] /\ Append(control[l], f) \in Seq(Frame)
    BY DEF ServeType
  <2> QED
    BY <2>1, <2>2, Zenon
<1>2. CASE up[l] # "up"
  BY <1>2, Zenon DEF Sends, ServeType
<1> QED
  BY <1>1, <1>2, Zenon

\* Every step keeps the types.
LEMMA TypeStep ==
  ASSUME ServeType, [SNext]_svars
  PROVE  ServeType'
<1>t. /\ up \in [Uplink -> {"off", "up", "done"}] /\ try \in [Uplink -> [By -> Stage]]
      /\ entry \in [Uplink -> By \union {"none"}] /\ ack \in [Uplink -> {"none", "accepted", "refused"}]
      /\ control \in [Uplink -> Seq(Frame)] /\ asks \subseteq Uplink /\ replays \subseteq Uplink
      /\ running \subseteq Uplink /\ lapsed \subseteq Uplink
      /\ serveAt \in {"idle", "first", "add", "late", "served", "stopped"}
  BY Zenon DEF ServeType
<1>f. "advertise" \in Frame /\ "renewal" \in Frame /\ "unadvertise" \in Frame
  BY Zenon DEF Frame
<1>s. \A ls : \A b \in By : Starts(ls, b) \in [Uplink -> [By -> Stage]]
  BY <1>t, Zenon DEF Starts, Stage
<1>1. CASE ServeFirst \/ ServeLate
  BY <1>1, <1>t, <1>s DEF ServeFirst, ServeLate, onLink, station, ServeType, Held, By
<1>2. CASE FirstServed
  BY <1>2, <1>t DEF FirstServed, onLink, station, ServeType, Stage
<1>3. CASE AddServed
  BY <1>3, <1>t, Zenon DEF AddServed, onLink, station, ServeType
<1>4. CASE StopServed
  BY <1>4, <1>t, Zenon DEF StopServed, onLink, station, ServeType
<1>5. ASSUME NEW l \in Uplink, ServeLinkUp(l) PROVE ServeType'
  BY <1>5, <1>t, Zenon DEF ServeLinkUp, poolServe, onLink, station, ServeType
<1>6. ASSUME NEW l \in Uplink, ServeReplay(l) PROVE ServeType'
  BY <1>6, <1>t, <1>s, Zenon DEF ServeReplay, onLink, station, ServeType, By
<1>7. ASSUME NEW l \in Uplink, ServeLinkEnds(l) PROVE ServeType'
  <2>1. try' \in [Uplink -> [By -> Stage]]
    BY <1>7, <1>t, Zenon DEF ServeLinkEnds, Stage
  <2>2. control' \in [Uplink -> Seq(Frame)] /\ ack' \in [Uplink -> {"none", "accepted", "refused"}]
        /\ entry' \in [Uplink -> By \union {"none"}] /\ up' \in [Uplink -> {"off", "up", "done"}]
    BY <1>7, <1>t DEF ServeLinkEnds
  <2> QED
    BY <1>7, <1>t, <2>1, <2>2, Zenon DEF ServeLinkEnds, ServeType
<1>8. ASSUME NEW l \in Uplink, RetryFailed(l) PROVE ServeType'
  <2>1. try' \in [Uplink -> [By -> Stage]]
    BY <1>8, <1>t, Zenon DEF RetryFailed, Stage, By
  <2> QED
    BY <1>8, <1>t, <2>1, Zenon DEF RetryFailed, onLink, station, ServeType
<1>9. ASSUME NEW l \in Uplink, WatchAttaches(l) PROVE ServeType'
  BY <1>9, <1>t, <1>s, Zenon DEF WatchAttaches, onLink, station, ServeType, By
<1>10. ASSUME NEW l \in Uplink, Ages(l) \/ RenewWakes(l) PROVE ServeType'
  BY <1>10, <1>t, Zenon DEF Ages, RenewWakes, poolServe, station, ServeType
<1>11. ASSUME NEW l \in Uplink, Renews(l) PROVE ServeType'
  <2>1. control' \in [Uplink -> Seq(Frame)]
    <3>1. UNCHANGED control \/ \E f \in Frame : Sends(l, f)
      BY <1>11, <1>f, Zenon DEF Renews
    <3> QED
      BY <1>t, <3>1, SendsTo, Zenon
  <2> QED
    BY <1>11, <1>t, <2>1, Zenon DEF Renews, poolServe, ServeType
<1>12. ASSUME NEW l \in Uplink, NEW judged \in {"accepted", "refused", "silent"}, StationJudges(l, judged)
       PROVE  ServeType'
  <2>1. control' \in [Uplink -> Seq(Frame)]
    BY <1>12, <1>t DEF StationJudges
  <2>2. ack' \in [Uplink -> {"none", "accepted", "refused"}]
    BY <1>12, <1>t, Zenon DEF StationJudges
  <2> QED
    BY <1>12, <1>t, <2>1, <2>2, Zenon DEF StationJudges, poolServe, ServeType
<1>13. ASSUME NEW l \in Uplink, NEW b \in By, ServeOn(l, b) PROVE ServeType'
  <2>1. \E to \in Stage : Tries(l, b, to)
    BY <1>13, ResultTo DEF ServeOn, Stage
  <2>2. control' \in [Uplink -> Seq(Frame)]
    <3>1. UNCHANGED control \/ \E f \in Frame : Sends(l, f)
      BY <1>13, <1>f, Zenon DEF ServeOn
    <3> QED
      BY <1>t, <3>1, SendsTo, Zenon
  <2>3. entry' \in [Uplink -> By \union {"none"}] /\ ack' \in [Uplink -> {"none", "accepted", "refused"}]
    <3>1. \/ entry' = entry /\ ack' = ack
          \/ entry' = [entry EXCEPT ![l] = b] /\ ack' = [ack EXCEPT ![l] = "none"]
      BY <1>13, Zenon DEF ServeOn
    <3>2. entry \in [Uplink -> By \union {"none"}] /\ ack \in [Uplink -> {"none", "accepted", "refused"}]
      BY <1>t, Zenon
    <3>3. entry' \in [Uplink -> By \union {"none"}]
      BY <3>1, <3>2, Zenon
    <3> QED
      BY <3>1, <3>2, <3>3, Zenon
  <2> QED
    BY <1>13, <1>t, <2>1, <2>2, <2>3, TryTo, Zenon DEF ServeOn, ServeType
<1>14. ASSUME NEW l \in Uplink, NEW b \in By, Registered(l, b) PROVE ServeType'
  <2>1. \E to \in Stage : Tries(l, b, to)
    BY <1>14, ResultTo DEF Registered, Stage
  <2>2. control' \in [Uplink -> Seq(Frame)]
    BY <1>14, <1>t, WithdrawIs DEF Registered
  <2>3. entry' \in [Uplink -> By \union {"none"}] /\ ack' \in [Uplink -> {"none", "accepted", "refused"}]
    BY <1>14, <1>t, Zenon DEF Registered
  <2> QED
    BY <1>14, <1>t, <2>1, <2>2, <2>3, TryTo, Zenon DEF Registered, ServeType
<1>15. ASSUME NEW l \in Uplink, NEW b \in By, ServedOn(l, b) PROVE ServeType'
  <2>1. \E to \in Stage : Tries(l, b, to)
    BY <1>15, ResultTo DEF ServedOn, Stage
  <2>2. UNCHANGED control
    BY <1>15, Zenon DEF ServedOn, station
  <2>3. entry' \in [Uplink -> By \union {"none"}]
    BY <1>15, <1>t, Zenon DEF ServedOn
  <2> QED
    BY <1>15, <1>t, <2>1, <2>2, <2>3, TryTo DEF ServedOn, ServeType
<1>16. ASSUME NEW l \in Uplink, NEW b \in By, AttachAgain(l, b) PROVE ServeType'
  <2>1. try' \in [Uplink -> [By -> Stage]]
    BY <1>16, TryTo, Zenon DEF AttachAgain, Stage
  <2> QED
    BY <1>16, <1>t, <2>1, Zenon DEF AttachAgain, onLink, station, ServeType
<1>17. CASE UNCHANGED svars
  BY <1>17, <1>t, Zenon DEF svars, poolServe, onLink, station, ServeType
<1>18. ASSUME NEW l \in Uplink, StopEnds(l) PROVE ServeType'
  BY <1>18, <1>t, Zenon DEF StopEnds, station, ServeType
<1>19. ASSUME NEW l \in Uplink, StopWithdraws(l) PROVE ServeType'
  <2>1. control' \in [Uplink -> Seq(Frame)]
    BY <1>19, <1>f, SendsTo, Zenon DEF StopWithdraws
  <2> QED
    BY <1>19, <1>t, <2>1, Zenon DEF StopWithdraws, poolServe, ServeType
<1> QED
  BY <1>18, <1>19, <1>1, <1>2, <1>3, <1>4, <1>5, <1>6, <1>7, <1>8, <1>9, <1>10, <1>11, <1>12, <1>13, <1>14, <1>15, <1>16, <1>17, Zenon
  DEF SNext

-----------------------------------------------------------------------------
(* Who holds the entry of a link *)

\* A link whose own state stays keeps EntryOk.
LEMMA EntrySame ==
  ASSUME NEW m, Same(m), EntryOk(m), m \in asks' => m \in asks, serveAt = "stopped" => serveAt' = "stopped"
  PROVE  EntryOk(m)'
BY Zenon DEF Same, EntryOk, Holding

\* An attempt that goes on to a stage in which it holds nothing keeps EntryOk,
\* when its entry, if it held it, is let go.
LEMMA EntryLetGo ==
  ASSUME ServeType, NEW l \in Uplink, NEW b \in By, EntryOk(l), try[l][b] \in {"begin", "verdict", "accepted", "delay"},
         NEW to \in Stage \ {"verdict", "accepted"}, Tries(l, b, to),
         b # "first" => to \in {"none", "delay", "begin"},
         IF Holding(l, b) THEN entry'[l] = "none" ELSE entry'[l] = entry[l],
         ack'[l] \in {ack[l], "none"}, UNCHANGED <<up, running, lapsed, refusing, asks, replays, serveAt>>,
         l \in withdrawing' => l \in withdrawing \/ (serveAt = "stopped" /\ entry'[l] = "none")
  PROVE  EntryOk(l)'
<1>1. try'[l][b] = to /\ \A c \in By \ {b} : try'[l][c] = try[l][c]
  BY TryTo, Zenon
<1>2. up[l] = "up"
  BY Zenon DEF EntryOk
<1>3. \A c \in By : Holding(l, c)' => c # b /\ Holding(l, c)
  BY <1>1, Zenon DEF Holding
<1>4. \A c \in By : Holding(l, c)' => entry'[l] = c /\ l \notin running
  BY <1>3, Zenon DEF EntryOk
<1>5. entry'[l] # "none" => l \in running \/ \E c \in By : Holding(l, c)'
  <2> SUFFICES ASSUME entry'[l] # "none", l \notin running PROVE \E c \in By : Holding(l, c)'
    BY Zenon
  <2>1. ~Holding(l, b) /\ entry[l] # "none"
    BY Zenon
  <2>2. PICK c \in By : Holding(l, c)
    BY <2>1, Zenon DEF EntryOk
  <2> QED
    BY <1>1, <2>1, <2>2, Zenon DEF Holding
<1>6. l \in running => entry'[l] # "none"
  BY Zenon DEF EntryOk
<1>7. try'[l]["first"] # "none" => try'[l]["retry"] = "none"
  BY <1>1, Zenon DEF EntryOk, By
<1>8. \A c \in By \ {"first"} : try'[l][c] \notin {"ok", "refused", "failed"}
  BY <1>1, Zenon DEF EntryOk
<1>9. l \in withdrawing' => entry'[l] = "none" /\ serveAt' = "stopped"
  BY Zenon DEF EntryOk
<1> QED
  BY <1>2, <1>4, <1>5, <1>6, <1>7, <1>8, <1>9, Zenon DEF EntryOk

\* A link's own steps keep its entry in order.
LEMMA EntryLink ==
  ASSUME ServeType, EntryInv, NEW l \in Uplink, OfLink(l)
  PROVE  EntryOk(l)'
<1>t. /\ up \in [Uplink -> {"off", "up", "done"}] /\ try \in [Uplink -> [By -> Stage]]
      /\ entry \in [Uplink -> By \union {"none"}] /\ ack \in [Uplink -> {"none", "accepted", "refused"}]
      /\ EntryOk(l)
  BY Zenon DEF ServeType, EntryInv
<1>1. CASE ServeLinkUp(l)
  BY <1>1, <1>t, Zenon DEF ServeLinkUp, poolServe, onLink, station, EntryOk, Holding
<1>2. CASE ServeReplay(l)
  <2>1. \A b \in By : try'[l][b] = try[l][b] \/ (try[l][b] = "none" /\ try'[l][b] = "begin" /\ b = "replay")
    <3>1. UNCHANGED try \/ try' = Starts({l}, "replay")
      BY <1>2, Zenon DEF ServeReplay
    <3>2. "replay" \in By
      BY Zenon DEF By
    <3>3. ASSUME try' = Starts({l}, "replay")
          PROVE  /\ \A c \in By : l \notin {l} \/ c # "replay" => try'[l][c] = try[l][c]
                 /\ l \in {l} => try'[l]["replay"] = IF try[l]["replay"] = "none" THEN "begin" ELSE try[l]["replay"]
      BY <3>2, <3>3, StartsTo, Zenon
    <3> QED
      BY <3>1, <3>3, Zenon
  <2>2. \A b \in By : Holding(l, b)' <=> Holding(l, b)
    BY <2>1, Zenon DEF Holding
  <2>3. try'[l]["first"] = try[l]["first"] /\ try'[l]["retry"] = try[l]["retry"]
    BY <2>1, Zenon DEF By
  <2> QED
    BY <1>2, <1>t, <2>1, <2>2, <2>3, Zenon DEF ServeReplay, onLink, station, EntryOk
<1>3. CASE ServeLinkEnds(l)
  <2>1. \A b \in By : try'[l][b] \in {"none", "ok", "refused", "failed"} /\ (b # "first" => try'[l][b] = "none")
    BY <1>3, <1>t, Zenon DEF ServeLinkEnds
  <2>2. entry'[l] = "none" /\ ack'[l] = "none" /\ up'[l] = "done"
        /\ l \notin running' \union lapsed' \union withdrawing'
    BY <1>3, <1>t, Zenon DEF ServeLinkEnds
  <2> QED
    BY <2>1, <2>2, Zenon DEF EntryOk, Holding, By
<1>4. CASE RetryFailed(l)
  <2>1. /\ try[l]["first"] = "failed" /\ try'[l]["first"] = "none"
        /\ try'[l]["retry"] = IF up[l] = "up" THEN "begin" ELSE "none"
        /\ \A b \in By \ {"first", "retry"} : try'[l][b] = try[l][b]
    BY <1>4, <1>t, ZenonT(40) DEF RetryFailed, By
  <2>2. \A b \in By : Holding(l, b)' <=> Holding(l, b)
    BY <1>t, <2>1, Zenon DEF Holding, EntryOk
  <2>3. \A b \in By \ {"first"} : try'[l][b] \notin {"ok", "refused", "failed"}
    BY <1>t, <2>1, Zenon DEF EntryOk
  <2> QED
    BY <1>4, <1>t, <2>1, <2>2, <2>3, Zenon DEF RetryFailed, onLink, station, EntryOk
<1>5. CASE WatchAttaches(l)
  <2>1. \A b \in By : try'[l][b] = try[l][b] \/ (try[l][b] = "none" /\ try'[l][b] = "begin" /\ b = "watch")
    <3>1. UNCHANGED try \/ try' = Starts({l}, "watch")
      BY <1>5, Zenon DEF WatchAttaches
    <3>2. "watch" \in By
      BY Zenon DEF By
    <3>3. ASSUME try' = Starts({l}, "watch")
          PROVE  /\ \A c \in By : l \notin {l} \/ c # "watch" => try'[l][c] = try[l][c]
                 /\ l \in {l} => try'[l]["watch"] = IF try[l]["watch"] = "none" THEN "begin" ELSE try[l]["watch"]
      BY <3>2, <3>3, StartsTo, Zenon
    <3> QED
      BY <3>1, <3>3, Zenon
  <2>2. \A b \in By : Holding(l, b)' <=> Holding(l, b)
    BY <2>1, Zenon DEF Holding
  <2>3. try'[l]["first"] = try[l]["first"] /\ try'[l]["retry"] = try[l]["retry"]
    BY <2>1, Zenon DEF By
  <2> QED
    BY <1>5, <1>t, <2>1, <2>2, <2>3, Zenon DEF WatchAttaches, onLink, station, EntryOk
<1>6. CASE Ages(l)
  BY <1>6, <1>t, Zenon DEF Ages, poolServe, station, EntryOk, Holding
<1>7. CASE RenewWakes(l)
  BY <1>7, <1>t, Zenon DEF RenewWakes, EntryOk, Holding
<1>8. CASE Renews(l)
  BY <1>8, <1>t, Zenon DEF Renews, poolServe, EntryOk, Holding
<1>9. CASE \E judged \in {"accepted", "refused", "silent"} : StationJudges(l, judged)
  <2>1. ack'[l] = "refused" => l \in refusing'
    BY <1>9, <1>t, Zenon DEF StationJudges, EntryOk
  <2> QED
    BY <1>9, <1>t, <2>1, Zenon DEF StationJudges, poolServe, EntryOk, Holding
<1>10. ASSUME NEW b \in By, ServeOn(l, b) PROVE EntryOk(l)'
  <2>1. CASE (Result(l, b, "ok") \/ Result(l, b, "failed")) /\ UNCHANGED <<entry, ack>>
    <3>1. PICK to \in Stage \ {"verdict", "accepted"} : Tries(l, b, to) /\ (b # "first" => to \in {"none", "delay", "begin"})
      BY <2>1, ResultTo DEF Stage
    <3>2. ~Holding(l, b) /\ try[l][b] = "begin"
      BY <1>10, Zenon DEF ServeOn, Holding
    <3>3. UNCHANGED <<up, running, lapsed, refusing, asks, replays, serveAt, withdrawing>>
      BY <1>10, Zenon DEF ServeOn
    <3> QED
      BY <1>t, <2>1, <3>1, <3>2, <3>3, EntryLetGo, Zenon
  <2>2. CASE /\ serveAt # "stopped" /\ l \notin running /\ entry[l] = "none"
             /\ entry' = [entry EXCEPT ![l] = b] /\ ack' = [ack EXCEPT ![l] = "none"] /\ Tries(l, b, "verdict")
    <3>1. try'[l][b] = "verdict" /\ \A c \in By \ {b} : try'[l][c] = try[l][c]
      BY <2>2, TryTo, Zenon DEF Stage
    <3>2. try[l][b] = "begin" /\ UNCHANGED <<up, running, lapsed, refusing, asks, replays, serveAt, withdrawing>>
      BY <1>10, Zenon DEF ServeOn
    <3>3. entry'[l] = b /\ ack'[l] = "none" /\ l \notin running' /\ l \notin withdrawing'
      BY <1>t, <2>2, <3>2, Zenon DEF EntryOk
    <3>4. \A c \in By : Holding(l, c)' => c = b
      BY <1>t, <2>2, <3>1, Zenon DEF Holding, EntryOk, By
    <3>5. Holding(l, b)' /\ up'[l] = "up"
      BY <1>t, <3>1, <3>2, Zenon DEF Holding, EntryOk
    <3>6. try'[l]["first"] # "none" => try'[l]["retry"] = "none"
      BY <1>t, <3>1, <3>2, Zenon DEF EntryOk, By
    <3>7. l \notin asks' \union replays' \/ up'[l] # "off"
      BY <3>5, Zenon
    <3>8. \A c \in By \ {"first"} : try'[l][c] \notin {"ok", "refused", "failed"}
      BY <1>t, <3>1, Zenon DEF EntryOk
    <3> QED
      BY <3>3, <3>4, <3>5, <3>6, <3>7, <3>8, Zenon DEF EntryOk
  <2> QED
    BY <1>10, <2>1, <2>2, Zenon DEF ServeOn
<1>11. ASSUME NEW b \in By, Registered(l, b) PROVE EntryOk(l)'
  <2>0. /\ try[l][b] = "verdict" /\ ack'[l] = "none" /\ Holding(l, b)
        /\ UNCHANGED <<up, running, lapsed, refusing, asks, replays, serveAt, withdrawing>>
    BY <1>11, <1>t, Zenon DEF Registered, Holding
  <2>1. CASE Tries(l, b, "accepted") /\ UNCHANGED entry
    <3>1. try'[l][b] = "accepted" /\ \A c \in By \ {b} : try'[l][c] = try[l][c]
      BY <2>1, TryTo, Zenon DEF Stage
    <3>2. \A c \in By : Holding(l, c)' <=> Holding(l, c)
      BY <2>0, <3>1, Zenon DEF Holding
    <3>3. try'[l]["first"] # "none" => try'[l]["retry"] = "none"
      BY <1>t, <2>0, <3>1, Zenon DEF EntryOk, By
    <3>4. up[l] = "up"
      BY <1>t, <2>0, Zenon DEF EntryOk
    <3>5. \A c \in By \ {"first"} : try'[l][c] \notin {"ok", "refused", "failed"}
      BY <1>t, <3>1, Zenon DEF EntryOk
    <3> QED
      BY <1>t, <2>0, <2>1, <3>2, <3>3, <3>4, <3>5, Zenon DEF EntryOk
  <2>2. CASE entry' = [entry EXCEPT ![l] = "none"] /\ (Result(l, b, "refused") \/ Result(l, b, "failed"))
    <3>1. PICK to \in Stage \ {"verdict", "accepted"} : Tries(l, b, to) /\ (b # "first" => to \in {"none", "delay", "begin"})
      BY <2>2, ResultTo DEF Stage
    <3>2. entry'[l] = "none"
      BY <1>t, <2>2, Zenon
    <3> QED
      BY <1>t, <2>0, <3>1, <3>2, EntryLetGo, Zenon
  <2> QED
    BY <1>11, <2>1, <2>2, Zenon DEF Registered
<1>12. ASSUME NEW b \in By, ServedOn(l, b) PROVE EntryOk(l)'
  <2>0. /\ try[l][b] = "accepted" /\ Holding(l, b) /\ UNCHANGED <<up, ack, lapsed, refusing, asks, replays, serveAt>>
    BY <1>12, Zenon DEF ServedOn, station, Holding
  <2>1. PICK to \in Stage \ {"verdict", "accepted"} : Tries(l, b, to) /\ (b # "first" => to \in {"none", "delay", "begin"})
    BY <1>12, ResultTo DEF Stage, ServedOn
  <2>2. CASE serveAt = "stopped"
    <3>1. entry'[l] = "none" /\ UNCHANGED running
      BY <1>12, <1>t, <2>2, Zenon DEF ServedOn
    <3>2. IF Holding(l, b) THEN entry'[l] = "none" ELSE entry'[l] = entry[l]
      BY <2>0, <3>1, Zenon
    <3>3. ack'[l] \in {ack[l], "none"}
      BY <2>0, Zenon
    <3>4. l \in withdrawing' => l \in withdrawing \/ (serveAt = "stopped" /\ entry'[l] = "none")
      BY <2>2, <3>1, Zenon
    <3>5. UNCHANGED <<up, running, lapsed, refusing, asks, replays, serveAt>>
      BY <2>0, <3>1, Zenon
    <3>6. try[l][b] \in {"begin", "verdict", "accepted", "delay"}
      BY <2>0, Zenon
    <3> QED
      BY <1>t, <2>1, <3>2, <3>3, <3>4, <3>5, <3>6, EntryLetGo, Zenon DEF EntryInv
  <2>3. CASE serveAt # "stopped"
    <3>1. running' = running \union {l} /\ UNCHANGED <<entry, withdrawing>>
      BY <1>12, <2>3, Zenon DEF ServedOn
    <3>2. try'[l][b] = to /\ \A c \in By \ {b} : try'[l][c] = try[l][c]
      BY <2>1, TryTo, Zenon
    <3>3. entry[l] = b /\ b # "none" /\ up[l] = "up"
      BY <1>t, <2>0, Zenon DEF EntryOk, By
    <3>4. \A c \in By : ~Holding(l, c)'
      BY <1>t, <2>1, <3>2, <3>3, Zenon DEF Holding, EntryOk
    <3>5. try'[l]["first"] # "none" => try'[l]["retry"] = "none"
      BY <1>t, <2>0, <3>2, Zenon DEF EntryOk, By
    <3>6. \A c \in By \ {"first"} : try'[l][c] \notin {"ok", "refused", "failed"}
      BY <1>t, <2>1, <3>2, Zenon DEF EntryOk
    <3> QED
      BY <1>t, <2>0, <3>1, <3>3, <3>4, <3>5, <3>6, Zenon DEF EntryOk
  <2> QED
    BY <2>2, <2>3, Zenon
<1>13. ASSUME NEW b \in By, AttachAgain(l, b) PROVE EntryOk(l)'
  <2>1. ~Holding(l, b) /\ "begin" \in Stage \ {"verdict", "accepted"} /\ Tries(l, b, "begin") /\ try[l][b] = "delay"
    BY <1>13, Zenon DEF AttachAgain, Holding, Stage
  <2> QED
    BY <1>13, <1>t, <2>1, EntryLetGo, Zenon DEF AttachAgain, onLink, station
<1>14. CASE StopEnds(l)
  <2>1. /\ entry'[l] = "none" /\ l \in running /\ l \notin running' /\ serveAt' = "stopped"
        /\ UNCHANGED <<up, replays, asks, try, lapsed, ack, refusing>>
    BY <1>14, <1>t, Zenon DEF StopEnds, station
  <2>2. \A b \in By : ~Holding(l, b) /\ ~Holding(l, b)'
    BY <1>t, <2>1, Zenon DEF EntryOk, Holding
  <2> QED
    BY <1>t, <2>1, <2>2, Zenon DEF EntryOk
<1>15. CASE StopWithdraws(l)
  BY <1>15, <1>t, Zenon DEF StopWithdraws, poolServe, EntryOk, Holding
<1> QED
  BY <1>1, <1>2, <1>3, <1>4, <1>5, <1>6, <1>7, <1>8, <1>9, <1>10, <1>11, <1>12, <1>13, <1>14, <1>15, Zenon DEF OfLink

\* Every step keeps every link's entry in order.
LEMMA EntryStep ==
  ASSUME ServeType, EntryInv, CoverInv, [SNext]_svars
  PROVE  EntryInv'
<1>t. /\ up \in [Uplink -> {"off", "up", "done"}] /\ try \in [Uplink -> [By -> Stage]]
      /\ entry \in [Uplink -> By \union {"none"}] /\ ack \in [Uplink -> {"none", "accepted", "refused"}]
  BY Zenon DEF ServeType
<1>1. ASSUME NEW l \in Uplink, OfLink(l) PROVE EntryInv'
  <2>1. /\ asks' = asks /\ serveAt' = serveAt /\ \A m \in Uplink \ {l} : Same(m)
    BY <1>1, Local, Zenon
  <2>2. \A m \in Uplink \ {l} : EntryOk(m)'
    BY <2>1, EntrySame, Zenon DEF EntryInv
  <2> QED
    BY <1>1, <2>2, EntryLink, Zenon DEF EntryInv
<1>2. CASE ServeFirst
  <2> SUFFICES ASSUME NEW m \in Uplink PROVE EntryOk(m)'
    BY Zenon DEF EntryInv
  <2>0. "first" \in By /\ try' = Starts(Held, "first") /\ serveAt = "idle" /\ asks' = Held
        /\ UNCHANGED <<up, replays, running, lapsed, entry, ack, refusing, withdrawing>>
    BY <1>2, Zenon DEF ServeFirst, onLink, station, By
  <2>1. /\ \A c \in By : m \notin Held \/ c # "first" => try'[m][c] = try[m][c]
        /\ m \in Held => try'[m]["first"] = IF try[m]["first"] = "none" THEN "begin" ELSE try[m]["first"]
    BY <2>0, StartsTo, Zenon
  <2>2. \A c \in By : try[m][c] = "none"
    BY <2>0, Zenon DEF CoverInv
  <2>3. \A c \in By : try'[m][c] = "none" \/ (try'[m][c] = "begin" /\ m \in Held /\ c = "first")
    BY <2>1, <2>2, Zenon
  <2>4. \A c \in By : ~Holding(m, c) /\ ~Holding(m, c)'
    BY <2>2, <2>3, Zenon DEF Holding
  <2>5. try'[m]["retry"] = "none"
    BY <2>3, Zenon DEF By
  <2> QED
    BY <2>0, <2>3, <2>4, <2>5, Zenon DEF EntryInv, EntryOk, Held
<1>3. CASE FirstServed
  <2> SUFFICES ASSUME NEW m \in Uplink PROVE EntryOk(m)'
    BY Zenon DEF EntryInv
  <2>1. \A c \in By : try'[m][c] = try[m][c] \/ (try[m][c] \in {"ok", "refused"} /\ try'[m][c] = "none")
    BY <1>3, <1>t, Zenon DEF FirstServed
  <2>2. \A c \in By : Holding(m, c)' <=> Holding(m, c)
    BY <2>1, Zenon DEF Holding
  <2>3. try'[m]["first"] # "none" => try'[m]["retry"] = "none"
    BY <2>1, Zenon DEF EntryInv, EntryOk, By
  <2>4. serveAt = "first" /\ UNCHANGED <<up, replays, asks, running, lapsed, entry, ack, refusing, withdrawing>>
    BY <1>3, Zenon DEF FirstServed, onLink, station
  <2> QED
    BY <2>1, <2>2, <2>3, <2>4, Zenon DEF EntryInv, EntryOk
<1>4. CASE AddServed
  <2>1. asks' = asks /\ serveAt = "add" /\ \A m \in Uplink : Same(m)
    BY <1>4, Zenon DEF AddServed, onLink, station, Same
  <2> QED
    BY <2>1, EntrySame, Zenon DEF EntryInv
<1>5. CASE ServeLate
  <2> SUFFICES ASSUME NEW m \in Uplink PROVE EntryOk(m)'
    BY Zenon DEF EntryInv
  <2>0. "late" \in By /\ try' = Starts(Held \ asks, "late") /\ asks' = {} /\ serveAt = "late"
        /\ UNCHANGED <<up, replays, running, lapsed, entry, ack, refusing, withdrawing>>
    BY <1>5, Zenon DEF ServeLate, onLink, station, By
  <2>1. /\ \A c \in By : m \notin Held \ asks \/ c # "late" => try'[m][c] = try[m][c]
        /\ m \in Held \ asks => try'[m]["late"] = IF try[m]["late"] = "none" THEN "begin" ELSE try[m]["late"]
    BY <2>0, StartsTo, ZenonT(40)
  <2>2. \A c \in By : try'[m][c] = try[m][c] \/ (try'[m][c] = "begin" /\ try[m][c] = "none" /\ m \in Held /\ c = "late")
    BY <2>1, Zenon
  <2>3. \A c \in By : Holding(m, c)' <=> Holding(m, c)
    BY <2>2, Zenon DEF Holding
  <2>4. try'[m]["first"] = try[m]["first"] /\ try'[m]["retry"] = try[m]["retry"]
    BY <2>2, Zenon DEF By
  <2> QED
    BY <2>0, <2>2, <2>3, <2>4, SMTT(40) DEF EntryInv, EntryOk, Held
<1>6. CASE StopServed
  <2>1. asks' = asks /\ serveAt = "served" /\ \A m \in Uplink : Same(m)
    BY <1>6, Zenon DEF StopServed, onLink, station, Same
  <2> QED
    BY <2>1, EntrySame, Zenon DEF EntryInv
<1>7. CASE UNCHANGED svars
  <2>1. asks' = asks /\ serveAt' = serveAt /\ \A m \in Uplink : Same(m)
    BY <1>7, Zenon DEF svars, poolServe, onLink, station, Same
  <2> QED
    BY <2>1, EntrySame, Zenon DEF EntryInv
<1> QED
  BY <1>1, <1>2, <1>3, <1>4, <1>5, <1>6, <1>7, NextIs, Zenon

-----------------------------------------------------------------------------
(* Where the offer is served *)

\* A step of a link that covers what was covered, and starts nothing before Serve.
LEMMA CoverKeeps ==
  ASSUME CoverInv, EntryInv, NEW l \in Uplink, serveAt' = serveAt, asks' = asks, asks \subseteq Uplink, replays \subseteq Uplink,
         \A m \in Uplink \ {l} : Same(m),
         serveAt = "idle" => l \notin running' \union lapsed' /\ \A b \in By : try'[l][b] = "none",
         replays' \subseteq replays \/ (replays' = replays \union {l} /\ (serveAt = "served" => Covered(l)')),
         serveAt # "stopped" /\ up'[l] = "up" /\ up[l] # "off" => up[l] = "up" /\ (Covered(l) => Covered(l)'),
         running' \subseteq Uplink, lapsed' \subseteq Uplink
  PROVE  CoverInv'
<1>1. \A m \in Uplink \ {l} : up'[m] = up[m] /\ (Covered(m) => Covered(m)')
  BY Zenon DEF Same, Covered
<1>2. serveAt = "idle" => running' = {} /\ lapsed' = {} /\ \A m \in Uplink : \A b \in By : try'[m][b] = "none"
  <2> SUFFICES ASSUME serveAt = "idle"
               PROVE  \A m \in Uplink : m \notin running' \union lapsed' /\ \A b \in By : try'[m][b] = "none"
    BY Zenon
  <2>1. \A m \in Uplink : m \notin running \union lapsed /\ \A b \in By : try[m][b] = "none"
    BY Zenon DEF CoverInv
  <2>2. \A m \in Uplink \ {l} : m \notin running' \union lapsed' /\ try'[m] = try[m]
    BY <2>1, Zenon DEF Same
  <2>3. \A m \in Uplink \ {l} : \A b \in By : try'[m][b] = "none"
    BY <2>1, <2>2, Zenon
  <2> QED
    BY <2>2, <2>3, Zenon
<1>3. \A m \in asks \union replays : m \in Uplink /\ up[m] # "off"
  BY Zenon DEF EntryInv, EntryOk
<1>4. serveAt # "stopped" => \A m \in asks \union replays : up'[m] = "up" => up[m] = "up" /\ (Covered(m) => Covered(m)')
  BY <1>1, <1>3, Zenon
<1>5. serveAt' \in {"first", "add", "late"} => \A m \in asks' : up'[m] = "up" => Covered(m)'
  BY <1>4, Zenon DEF CoverInv
<1>6. serveAt' = "served" => \A m \in replays' : up'[m] = "up" => Covered(m)'
  BY <1>4, Zenon DEF CoverInv
<1> QED
  BY <1>2, <1>5, <1>6, Zenon DEF CoverInv

\* A stage that covers the link.
Going == {"begin", "verdict", "accepted", "delay", "failed"}

\* A step that leaves the other parts of the pool's state covers what it covered.
LEMMA CoverLink ==
  ASSUME ServeType, EntryInv, CoverInv, NEW l \in Uplink, OfLink(l)
  PROVE  CoverInv'
<1>t. /\ up \in [Uplink -> {"off", "up", "done"}] /\ try \in [Uplink -> [By -> Stage]]
      /\ entry \in [Uplink -> By \union {"none"}] /\ ack \in [Uplink -> {"none", "accepted", "refused"}]
      /\ EntryOk(l) /\ asks \subseteq Uplink /\ replays \subseteq Uplink
  BY Zenon DEF ServeType, EntryInv
<1>0. serveAt' = serveAt /\ asks' = asks /\ \A m \in Uplink \ {l} : Same(m)
  BY Local, Zenon
<1>u. running' \subseteq Uplink /\ lapsed' \subseteq Uplink
  <2>1. [SNext]_svars
    BY Zenon DEF SNext, OfLink
  <2> QED
    BY <2>1, TypeStep, Zenon DEF ServeType
<1>i. serveAt = "idle" => l \notin running \union lapsed /\ \A b \in By : try[l][b] = "none"
  BY Zenon DEF CoverInv
<1>c. Covered(l) <=> l \in running \union refusing \union lapsed \/ \E b \in By : try[l][b] \in Going
  BY Zenon DEF Covered, Going
<1>d. Covered(l)' <=> l \in running' \union refusing' \union lapsed' \/ \E b \in By : try'[l][b] \in Going
  BY Zenon DEF Covered, Going
<1> DEFINE Keeps == /\ serveAt = "idle" => l \notin running' \union lapsed' /\ \A b \in By : try'[l][b] = "none"
                    /\ replays' \subseteq replays \/ (replays' = replays \union {l} /\ (serveAt = "served" => Covered(l)'))
                    /\ serveAt # "stopped" /\ up'[l] = "up" /\ up[l] # "off" => up[l] = "up" /\ (Covered(l) => Covered(l)')
<1> SUFFICES Keeps
  BY <1>t, <1>0, <1>u, CoverKeeps, Zenon
<1>1. CASE ServeLinkUp(l)
  BY <1>1, <1>t, <1>i, <1>c, <1>d, Zenon DEF ServeLinkUp, poolServe, onLink, station
<1>2. CASE ServeReplay(l)
  <2>1. /\ serveAt \notin {"late", "served"} => UNCHANGED try
        /\ serveAt \in {"late", "served"} => try' = Starts({l}, "replay")
        /\ replays' = replays \union {l} /\ UNCHANGED <<up, running, lapsed, refusing>>
    BY <1>2, Zenon DEF ServeReplay, station
  <2>2. "replay" \in By
    BY Zenon DEF By
  <2>3. ASSUME serveAt \in {"late", "served"}
        PROVE  /\ \A c \in By : l \notin {l} \/ c # "replay" => try'[l][c] = try[l][c]
               /\ l \in {l} => try'[l]["replay"] = IF try[l]["replay"] = "none" THEN "begin" ELSE try[l]["replay"]
    BY <2>1, <2>2, <2>3, StartsTo, Zenon
  <2>4. \A c \in By : try[l][c] \in Going => try'[l][c] \in Going
    BY <2>1, <2>3, Zenon DEF Going
  <2>5. serveAt = "served" => try'[l]["replay"] \in Going
    <3>1. try[l]["replay"] \in Stage \ {"ok", "refused", "failed"}
      BY <1>t, <2>2 DEF EntryOk, By
    <3> QED
      BY <2>3, <3>1, Zenon DEF Going, Stage
  <2>6. serveAt = "idle" => \A b \in By : try'[l][b] = "none"
    BY <1>i, <2>1, Zenon
  <2> QED
    BY <1>i, <1>c, <1>d, <2>1, <2>2, <2>4, <2>5, <2>6, Zenon
<1>3. CASE ServeLinkEnds(l)
  <2>1. up'[l] = "done" /\ replays' \subseteq replays /\ l \notin running' \union lapsed'
    BY <1>3, <1>t, Zenon DEF ServeLinkEnds
  <2>2. serveAt = "idle" => \A b \in By : try'[l][b] = "none"
    BY <1>3, <1>t, Zenon DEF ServeLinkEnds
  <2> QED
    BY <2>1, <2>2, Zenon
<1>4. CASE RetryFailed(l)
  <2>1. up[l] = "up" => try'[l]["retry"] \in Going /\ "retry" \in By
    BY <1>4, <1>t, Zenon DEF RetryFailed, By, Going
  <2>2. UNCHANGED <<up, replays>> /\ serveAt # "idle"
    BY <1>4, Zenon DEF RetryFailed
  <2> QED
    BY <1>d, <2>1, <2>2, Zenon
<1>5. CASE WatchAttaches(l)
  <2>1. try' = Starts({l}, "watch") /\ l \in lapsed /\ UNCHANGED <<up, replays>>
    BY <1>5, Zenon DEF WatchAttaches
  <2>2. "watch" \in By
    BY Zenon DEF By
  <2>3. /\ \A c \in By : l \notin {l} \/ c # "watch" => try'[l][c] = try[l][c]
        /\ l \in {l} => try'[l]["watch"] = IF try[l]["watch"] = "none" THEN "begin" ELSE try[l]["watch"]
    BY <2>1, <2>2, StartsTo, Zenon
  <2>4. try'[l]["watch"] \in Going
    <3>1. try[l]["watch"] \in Stage \ {"ok", "refused", "failed"}
      BY <1>t, <2>2 DEF EntryOk, By
    <3> QED
      BY <2>3, <3>1, Zenon DEF Going, Stage
  <2> QED
    BY <1>i, <1>d, <2>1, <2>2, <2>4, Zenon
<1>6. CASE Ages(l) \/ Renews(l)
  BY <1>6, <1>i, <1>c, <1>d, Zenon DEF Ages, Renews, poolServe, station
<1>7. CASE RenewWakes(l)
  <2>1. l \in running /\ (serveAt # "stopped" => l \in running' \union lapsed') /\ UNCHANGED <<up, replays>>
    BY <1>7, Zenon DEF RenewWakes
  <2> QED
    BY <1>i, <1>d, <2>1, Zenon
<1>8. CASE \E judged \in {"accepted", "refused", "silent"} : StationJudges(l, judged)
  <2>1. refusing \subseteq refusing' /\ UNCHANGED <<up, replays, running, lapsed, try>>
    BY <1>8, Zenon DEF StationJudges, poolServe
  <2> QED
    BY <1>i, <1>c, <1>d, <2>1, Zenon
<1>9. ASSUME NEW b \in By, ServeOn(l, b) PROVE Keeps
  <2>0. try[l][b] = "begin" /\ UNCHANGED <<up, replays, running, lapsed, refusing>>
    BY <1>9, Zenon DEF ServeOn
  <2>1. serveAt # "idle"
    BY <1>i, <2>0, Zenon
  <2>2. CASE Result(l, b, "failed")
    <3>1. PICK to \in {"failed", "delay"} : Tries(l, b, to)
      BY <2>2, ResultTo
    <3>2. try'[l][b] \in Going
      BY <3>1, TryTo DEF Going, Stage
    <3> QED
      BY <1>d, <2>0, <2>1, <3>2, Zenon
  <2>3. CASE Tries(l, b, "verdict")
    <3>1. try'[l][b] \in Going
      BY <2>3, TryTo, Zenon DEF Going, Stage
    <3> QED
      BY <1>d, <2>0, <2>1, <3>1, Zenon
  <2>4. CASE Result(l, b, "ok") /\ (serveAt = "stopped" \/ l \in running \/ entry[l] # "none")
    <3>1. CASE l \in running
      BY <1>d, <2>0, <2>1, <3>1, Zenon
    <3>2. CASE l \notin running /\ entry[l] # "none"
      <4>1. PICK c \in By : Holding(l, c)
        BY <1>t, <3>2, Zenon DEF EntryOk
      <4>2. c # b
        BY <2>0, <4>1, Zenon DEF Holding
      <4>3. PICK to \in Stage : Tries(l, b, to)
        BY <2>4, ResultTo DEF Stage
      <4>4. try'[l][c] = try[l][c]
        BY <4>2, <4>3, TryTo, Zenon
      <4>5. try'[l][c] \in Going
        BY <4>1, <4>4, Zenon DEF Holding, Going
      <4> QED
        BY <1>d, <2>0, <2>1, <4>5, Zenon
    <3>3. CASE l \notin running /\ entry[l] = "none" /\ serveAt = "stopped"
      BY <1>d, <2>0, <2>1, <3>3, Zenon
    <3> QED
      BY <2>4, <3>1, <3>2, <3>3, Zenon
  <2> QED
    BY <1>9, <2>2, <2>3, <2>4, Zenon DEF ServeOn
<1>10. ASSUME NEW b \in By, Registered(l, b) PROVE Keeps
  <2>0. try[l][b] = "verdict" /\ UNCHANGED <<up, replays, running, lapsed, refusing>>
    BY <1>10, Zenon DEF Registered
  <2>1. serveAt # "idle"
    BY <1>i, <2>0, Zenon
  <2>2. CASE Result(l, b, "failed")
    <3>1. PICK to \in {"failed", "delay"} : Tries(l, b, to)
      BY <2>2, ResultTo
    <3>2. try'[l][b] \in Going
      BY <3>1, TryTo DEF Going, Stage
    <3> QED
      BY <1>d, <2>0, <2>1, <3>2, Zenon
  <2>3. CASE Tries(l, b, "accepted")
    <3>1. try'[l][b] \in Going
      BY <2>3, TryTo, Zenon DEF Going, Stage
    <3> QED
      BY <1>d, <2>0, <2>1, <3>1, Zenon
  <2>4. CASE ack[l] = "refused"
    <3>1. l \in refusing'
      BY <1>t, <2>0, <2>4, Zenon DEF EntryOk
    <3> QED
      BY <1>d, <2>0, <2>1, <3>1, Zenon
  <2> QED
    BY <1>10, <2>2, <2>3, <2>4, Zenon DEF Registered
<1>11. ASSUME NEW b \in By, ServedOn(l, b) PROVE Keeps
  <2>1. try[l][b] = "accepted" /\ (serveAt # "stopped" => l \in running') /\ UNCHANGED <<up, replays>>
    BY <1>11, Zenon DEF ServedOn
  <2> QED
    BY <1>i, <1>d, <2>1, Zenon
<1>12. ASSUME NEW b \in By, AttachAgain(l, b) PROVE Keeps
  <2>1. try[l][b] = "delay" /\ Tries(l, b, "begin") /\ UNCHANGED <<up, replays>>
    BY <1>12, Zenon DEF AttachAgain
  <2>2. try'[l][b] \in Going
    BY <2>1, TryTo, Zenon DEF Going, Stage
  <2> QED
    BY <1>i, <1>d, <2>1, <2>2, Zenon
<1>13. CASE StopEnds(l)
  BY <1>13, Zenon DEF StopEnds
<1>14. CASE StopWithdraws(l)
  <2>1. serveAt = "stopped" /\ UNCHANGED replays
    BY <1>14, <1>t, Zenon DEF StopWithdraws, EntryOk
  <2> QED
    BY <2>1, Zenon
<1> HIDE DEF Keeps
<1> QED
  BY <1>1, <1>2, <1>3, <1>4, <1>5, <1>6, <1>7, <1>8, <1>9, <1>10, <1>11, <1>12, <1>13, <1>14, Zenon DEF OfLink

\* Every step keeps the links covered by Serve, or by their coming up.
LEMMA CoverStep ==
  ASSUME ServeType, EntryInv, CoverInv, [SNext]_svars
  PROVE  CoverInv'
<1>t. /\ up \in [Uplink -> {"off", "up", "done"}] /\ try \in [Uplink -> [By -> Stage]]
      /\ asks \subseteq Uplink /\ replays \subseteq Uplink
  BY Zenon DEF ServeType
<1>c. \A m \in Uplink : Covered(m) <=> m \in running \union refusing \union lapsed \/ \E b \in By : try[m][b] \in Going
  BY Zenon DEF Covered, Going
<1>d. \A m \in Uplink : Covered(m)' <=> m \in running' \union refusing' \union lapsed' \/ \E b \in By : try'[m][b] \in Going
  BY Zenon DEF Covered, Going
<1>1. CASE ServeFirst
  <2>0. /\ "first" \in By /\ try' = Starts(Held, "first") /\ serveAt = "idle" /\ serveAt' = "first" /\ asks' = Held
        /\ UNCHANGED up
    BY <1>1, Zenon DEF ServeFirst, By
  <2>1. \A m \in Uplink :
           /\ \A c \in By : m \notin Held \/ c # "first" => try'[m][c] = try[m][c]
           /\ m \in Held => try'[m]["first"] = IF try[m]["first"] = "none" THEN "begin" ELSE try[m]["first"]
    BY <2>0, StartsTo, Zenon
  <2>2. \A m \in Uplink : try[m]["first"] = "none"
    BY <2>0, Zenon DEF CoverInv
  <2>3. \A m \in asks' : m \in Uplink /\ Covered(m)'
    BY <1>d, <2>0, <2>1, <2>2, Zenon DEF Held, Going
  <2> QED
    BY <2>0, <2>3, Zenon DEF CoverInv
<1>2. CASE FirstServed
  <2>1. \A m \in Uplink : \A c \in By : try[m][c] \in Going => try'[m][c] \in Going
    BY <1>2, <1>t, Zenon DEF FirstServed, Going
  <2>2. serveAt = "first" /\ serveAt' \in {"add", "stopped"} /\ UNCHANGED <<up, asks, running, lapsed, refusing>>
    BY <1>2, Zenon DEF FirstServed, station
  <2>3. \A m \in Uplink : Covered(m) => Covered(m)'
    BY <1>c, <1>d, <2>1, <2>2, Zenon
  <2> QED
    BY <1>t, <2>2, <2>3, Zenon DEF CoverInv
<1>3. CASE AddServed
  <2>1. serveAt = "add" /\ serveAt' \in {"late", "stopped"} /\ UNCHANGED <<up, asks, running, lapsed, refusing, try>>
    BY <1>3, Zenon DEF AddServed, station
  <2>3. \A m \in Uplink : Covered(m) => Covered(m)'
    BY <1>c, <1>d, <2>1, Zenon
  <2> QED
    BY <1>t, <2>1, <2>3, Zenon DEF CoverInv
<1>4. CASE ServeLate
  <2>0. /\ "late" \in By /\ try' = Starts(Held \ asks, "late") /\ serveAt = "late" /\ serveAt' = "served"
        /\ UNCHANGED <<up, replays, running, lapsed, refusing>>
    BY <1>4, Zenon DEF ServeLate, By, station
  <2>1. \A m \in Uplink :
           /\ \A c \in By : m \notin Held \ asks \/ c # "late" => try'[m][c] = try[m][c]
           /\ m \in Held \ asks => try'[m]["late"] = IF try[m]["late"] = "none" THEN "begin" ELSE try[m]["late"]
    BY <2>0, StartsTo, Zenon
  <2>2. \A m \in Held \ asks : m \in Uplink /\ try'[m]["late"] \in Going
    <3>1. \A m \in Uplink : try[m]["late"] \in Stage \ {"ok", "refused", "failed"}
      BY <1>t, <2>0, Zenon DEF EntryInv, EntryOk, By
    <3> QED
      BY <2>1, <3>1, Zenon DEF Going, Stage, Held
  <2>3. \A m \in Uplink \ (Held \ asks) : \A c \in By : try'[m][c] = try[m][c]
    BY <2>1, Zenon
  <2>4. ASSUME NEW m \in replays, up[m] = "up" PROVE Covered(m)'
    <3>1. m \in Uplink /\ m \in Held
      BY <1>t, <2>4, Zenon DEF Held
    <3>2. CASE m \notin asks
      BY <1>d, <2>0, <2>2, <3>1, <3>2, Zenon
    <3>3. CASE m \in asks
      <4>1. Covered(m)
        BY <2>0, <2>4, <3>3, Zenon DEF CoverInv
      <4> QED
        BY <1>c, <1>d, <2>0, <2>3, <3>1, <3>3, <4>1
    <3> QED
      BY <3>2, <3>3, Zenon
  <2> QED
    BY <2>0, <2>4, Zenon DEF CoverInv
<1>5. CASE StopServed
  BY <1>5, Zenon DEF StopServed, CoverInv
<1>6. CASE UNCHANGED svars
  BY <1>6, Zenon DEF svars, poolServe, onLink, station, CoverInv, Covered
<1> QED
  BY <1>1, <1>2, <1>3, <1>4, <1>5, <1>6, CoverLink, NextIs, Zenon

-----------------------------------------------------------------------------
(* What the stations route *)

\* A frame that is no ADVERTISE adds none; one that withdraws leaves no route.
LEMMA AppendOther ==
  ASSUME NEW fs \in Seq(Frame), NEW f \in Frame, f # "advertise"
  PROVE  /\ Adverts(Append(fs, f)) = Adverts(fs)
         /\ f = "unadvertise" => \A l, routes : EndsClean(Append(fs, f), l, routes)
<1>1. /\ Len(Append(fs, f)) = Len(fs) + 1 /\ Len(fs) \in Nat /\ Append(fs, f)[Len(fs) + 1] = f
      /\ Append(fs, f) # <<>> /\ \A k \in 1..Len(fs) : Append(fs, f)[k] = fs[k]
  OBVIOUS
<1>2. Adverts(Append(fs, f)) = Adverts(fs)
  BY <1>1 DEF Adverts
<1> QED
  BY <1>1, <1>2, Zenon DEF EndsClean

\* An ADVERTISE sent where nothing is left is the one, after a withdrawal if any.
LEMMA AppendAdvert ==
  ASSUME NEW fs \in Seq(Frame), Adverts(fs) = {}, NEW l, NEW routes
  PROVE  /\ Adverts(Append(fs, "advertise")) = {Len(fs) + 1}
         /\ EndsClean(fs, l, routes) => Placed(Append(fs, "advertise"), l, routes)
<1>1. /\ Len(Append(fs, "advertise")) = Len(fs) + 1 /\ Len(fs) \in Nat /\ (Len(fs) = 0 <=> fs = <<>>)
      /\ Append(fs, "advertise")[Len(fs) + 1] = "advertise"
      /\ \A k \in 1..Len(fs) : Append(fs, "advertise")[k] = fs[k]
  BY DEF Frame
<1>2. Adverts(Append(fs, "advertise")) = {Len(fs) + 1}
  BY <1>1 DEF Adverts
<1> QED
  BY <1>1, <1>2 DEF Placed, EndsClean

\* The station takes the first frame.
LEMMA TailAdverts ==
  ASSUME NEW fs \in Seq(Frame), fs # <<>>, NEW l, NEW routes, NEW routed,
         \A j, k \in Adverts(fs) : j = k
  PROVE  /\ Tail(fs) \in Seq(Frame)
         /\ \A j, k \in Adverts(Tail(fs)) : j = k
         /\ Adverts(Tail(fs)) # {} => Adverts(fs) # {} /\ Head(fs) # "advertise"
         /\ Head(fs) = "advertise" => Adverts(fs) # {}
         /\ EndsClean(fs, l, routes) /\ (Head(fs) = "unadvertise" => l \notin routed) => EndsClean(Tail(fs), l, routed)
         /\ Placed(fs, l, routes) /\ (Head(fs) = "unadvertise" => l \notin routed) => Placed(Tail(fs), l, routed)
         /\ Placed(fs, l, routes) /\ Head(fs) = "advertise" => Tail(fs) = <<>> /\ l \notin routes
<1>1. /\ Tail(fs) \in Seq(Frame) /\ Len(fs) \in Nat \ {0} /\ Len(Tail(fs)) = Len(fs) - 1 /\ Head(fs) = fs[1]
      /\ (Tail(fs) = <<>> <=> Len(fs) = 1)
      /\ \A k \in 1..Len(fs) - 1 : Tail(fs)[k] = fs[k + 1]
  <2>1. Tail(fs) \in Seq(Frame) /\ Len(fs) \in Nat \ {0} /\ Len(Tail(fs)) = Len(fs) - 1
    OBVIOUS
  <2>2. Head(fs) = fs[1] /\ \A k \in 1..Len(fs) - 1 : Tail(fs)[k] = fs[k + 1]
    BY <2>1
  <2>3. Tail(fs) = <<>> <=> Len(Tail(fs)) = 0
    BY <2>1
  <2> QED
    BY <2>1, <2>2, <2>3
<1>2. \A k \in Adverts(Tail(fs)) : k \in Nat \ {0} /\ k + 1 \in Adverts(fs)
  BY <1>1 DEF Adverts
<1>3. Head(fs) = "advertise" => 1 \in Adverts(fs)
  BY <1>1 DEF Adverts
<1>4. \A j, k \in Adverts(Tail(fs)) : j = k
  BY <1>2
<1>5. Adverts(Tail(fs)) # {} => Adverts(fs) # {} /\ Head(fs) # "advertise"
  BY <1>2, <1>3
<1>6. EndsClean(fs, l, routes) /\ (Head(fs) = "unadvertise" => l \notin routed) => EndsClean(Tail(fs), l, routed)
  BY <1>1 DEF EndsClean
<1>7. ASSUME Placed(fs, l, routes), Head(fs) = "unadvertise" => l \notin routed, NEW k \in Adverts(Tail(fs))
      PROVE  k = Len(Tail(fs)) /\ (k = 1 => l \notin routed) /\ (k > 1 => Tail(fs)[k - 1] = "unadvertise")
  <2>1. k \in Nat \ {0} /\ k + 1 = Len(fs) /\ fs[k] = "unadvertise"
    <3>1. k \in Nat \ {0} /\ k + 1 \in Adverts(fs)
      BY <1>2, <1>7, Zenon
    <3>2. k + 1 = Len(fs) /\ (k + 1 > 1 => fs[(k + 1) - 1] = "unadvertise")
      BY <1>7, <3>1, Zenon DEF Placed
    <3> QED
      BY <3>1, <3>2
  <2>2. k > 1 => k - 1 \in 1..Len(fs) - 1 /\ Tail(fs)[k - 1] = fs[(k - 1) + 1] /\ (k - 1) + 1 = k
    BY <1>1, <2>1
  <2>3. k = 1 => l \notin routed
    BY <1>1, <1>7, <2>1, Zenon
  <2>4. k > 1 => Tail(fs)[k - 1] = "unadvertise"
    <3> SUFFICES ASSUME k > 1 PROVE Tail(fs)[k - 1] = "unadvertise"
      BY Zenon
    <3>1. Tail(fs)[k - 1] = fs[(k - 1) + 1] /\ (k - 1) + 1 = k
      BY <2>2, Zenon
    <3>2. Tail(fs)[k - 1] = fs[k]
      BY <3>1, Zenon
    <3> QED
      BY <2>1, <3>2, Zenon
  <2>5. k = Len(Tail(fs))
    <3>1. Len(Tail(fs)) = Len(fs) - 1
      BY <1>1, Zenon
    <3>2. Len(fs) \in Nat
      BY <1>1, Zenon
    <3>3. k = Len(fs) - 1
      BY <2>1, <3>2
    <3> QED
      BY <3>1, <3>3, Zenon
  <2> QED
    BY <2>3, <2>4, <2>5, Zenon
<1>8. Placed(fs, l, routes) /\ Head(fs) = "advertise" => Tail(fs) = <<>> /\ l \notin routes
  BY <1>1, <1>3, Zenon DEF Placed
<1> QED
  BY <1>1, <1>3, <1>4, <1>5, <1>6, <1>7, <1>8, Zenon DEF Placed

\* A link whose streams, entry and routes stay keeps RouteOk, when the same
\* attempts wait for an answer.
LEMMA RouteQuiet ==
  ASSUME NEW l, RouteOk(l), Awaited(l)' <=> Awaited(l),
         entry'[l] = entry[l], ack'[l] = ack[l], control'[l] = control[l],
         l \in running' <=> l \in running, l \in renewing' <=> l \in renewing,
         l \in withdrawing' <=> l \in withdrawing,
         l \in balks' <=> l \in balks, l \in raced' <=> l \in raced, l \in route' <=> l \in route
  PROVE  RouteOk(l)'
<1>1. \A fs : EndsClean(fs, l, route') <=> EndsClean(fs, l, route)
  BY Zenon DEF EndsClean
<1>2. \A fs : Placed(fs, l, route') <=> Placed(fs, l, route)
  BY Zenon DEF Placed
<1> QED
  BY <1>1, <1>2, Zenon DEF RouteOk

\* A link nothing happens to keeps its route in order.
LEMMA RouteSame ==
  ASSUME NEW m, RouteOk(m), Same(m)
  PROVE  RouteOk(m)'
<1>1. Awaited(m)' <=> Awaited(m)
  BY Zenon DEF Awaited, Same
<1> QED
  BY <1>1, RouteQuiet, Zenon DEF Same

\* A link's own steps keep its route in order.
LEMMA RouteLink ==
  ASSUME ServeType, EntryInv, RouteInv, NEW l \in Uplink, OfLink(l)
  PROVE  RouteOk(l)'
<1>t. /\ up \in [Uplink -> {"off", "up", "done"}] /\ try \in [Uplink -> [By -> Stage]]
      /\ entry \in [Uplink -> By \union {"none"}] /\ ack \in [Uplink -> {"none", "accepted", "refused"}]
      /\ control \in [Uplink -> Seq(Frame)] /\ control[l] \in Seq(Frame)
      /\ EntryOk(l) /\ RouteOk(l)
  BY Zenon DEF ServeType, EntryInv, RouteInv
<1>f. /\ "renewal" \in Frame /\ "unadvertise" \in Frame /\ "advertise" \in Frame
      /\ "renewal" # "advertise" /\ "unadvertise" # "advertise"
  BY Zenon DEF Frame
<1>r. l \in running => ~Awaited(l) /\ Adverts(control[l]) = {} /\ entry[l] # "none"
  BY <1>t, Zenon DEF EntryOk, Holding, Awaited, RouteOk
<1>1. CASE ServeLinkUp(l) \/ Ages(l)
  <2>1. /\ UNCHANGED <<try, entry, ack, control, running, renewing, withdrawing, balks, raced, route>>
    BY <1>1, Zenon DEF ServeLinkUp, Ages, poolServe, onLink, station
  <2>2. Awaited(l)' <=> Awaited(l)
    BY <2>1, Zenon DEF Awaited
  <2> QED
    BY <1>t, <2>1, <2>2, RouteQuiet, Zenon
<1>2. CASE ServeReplay(l) \/ WatchAttaches(l)
  <2>0. "replay" \in By /\ "watch" \in By
    BY Zenon DEF By
  <2>1. \/ UNCHANGED try \/ try' = Starts({l}, "replay") \/ try' = Starts({l}, "watch")
    BY <1>2, Zenon DEF ServeReplay, WatchAttaches
  <2>2. ASSUME NEW b \in By, try' = Starts({l}, b) PROVE Awaited(l)' <=> Awaited(l)
    <3>1. /\ \A c \in By : l \notin {l} \/ c # b => try'[l][c] = try[l][c]
          /\ l \in {l} => try'[l][b] = IF try[l][b] = "none" THEN "begin" ELSE try[l][b]
      BY <2>2, StartsTo, Zenon
    <3>2. \A c \in By : try'[l][c] = "verdict" <=> try[l][c] = "verdict"
      BY <3>1, Zenon
    <3> QED
      BY <3>2, Zenon DEF Awaited
  <2>3. Awaited(l)' <=> Awaited(l)
    BY <2>0, <2>1, <2>2, Zenon DEF Awaited
  <2>4. UNCHANGED <<entry, ack, control, running, renewing, withdrawing, balks, raced, route>>
    BY <1>2, Zenon DEF ServeReplay, WatchAttaches, onLink, station
  <2> QED
    BY <1>t, <2>3, <2>4, RouteQuiet, Zenon
<1>3. CASE ServeLinkEnds(l)
  <2>1. control'[l] = <<>> /\ l \notin route' /\ l \notin renewing' /\ ack'[l] = "none"
    BY <1>3, <1>t, Zenon DEF ServeLinkEnds
  <2>2. Adverts(<<>>) = {}
    BY DEF Adverts
  <2> QED
    BY <2>1, <2>2, Zenon DEF RouteOk, EndsClean, Placed
<1>4. CASE RetryFailed(l)
  <2>1. \A b \in By : try'[l][b] = "verdict" <=> try[l][b] = "verdict"
    BY <1>4, <1>t, Zenon DEF RetryFailed, EntryOk, By
  <2>2. UNCHANGED <<entry, ack, control, running, renewing, withdrawing, balks, raced, route>>
    BY <1>4, Zenon DEF RetryFailed, onLink, station
  <2>3. Awaited(l)' <=> Awaited(l)
    BY <2>1, Zenon DEF Awaited
  <2> QED
    BY <1>t, <2>2, <2>3, RouteQuiet, Zenon
<1>5. CASE RenewWakes(l)
  <2>0. l \in running /\ UNCHANGED <<try, ack, control, raced, route, withdrawing>>
    BY <1>5, Zenon DEF RenewWakes
  <2>1. Awaited(l)' <=> Awaited(l)
    BY <2>0, Zenon DEF Awaited
  <2>2. CASE UNCHANGED <<entry, running, lapsed, balks>>
    BY <1>t, <2>0, <2>1, <2>2, Zenon DEF RouteOk
  <2>3. CASE balks' = balks \union {l} /\ UNCHANGED renewing
    <3>1. l \notin renewing
      BY <1>5, Zenon DEF RenewWakes
    <3>2. l \in balks' \union raced' /\ l \notin renewing'
      BY <2>3, <3>1, Zenon
    <3>3. /\ Adverts(control'[l]) # {} => ack'[l] = "none" /\ Awaited(l)'
          /\ \A j, k \in Adverts(control'[l]) : j = k
      BY <1>t, <2>0, <2>1, Zenon DEF RouteOk
    <3> QED
      BY <3>2, <3>3, Zenon DEF RouteOk
  <2> QED
    BY <1>5, <2>2, <2>3, Zenon DEF RenewWakes
<1>6. CASE Renews(l)
  <2>0. l \in renewing \union orphan /\ l \notin renewing' /\ UNCHANGED <<try, ack, entry, route, balks, withdrawing>> /\ running' = running
    BY <1>6, <1>t, Zenon DEF Renews, poolServe
  <2>1. Awaited(l)' <=> Awaited(l)
    BY <2>0, Zenon DEF Awaited
  <2>2. CASE UNCHANGED <<control, raced>>
    BY <1>t, <2>0, <2>1, <2>2, Zenon DEF RouteOk
  <2>3. CASE Sends(l, "renewal") /\ raced' = IF l \in orphan THEN raced \union {l} ELSE raced
    <3>1. control'[l] = control[l] \/ control'[l] = Append(control[l], "renewal")
      <4>1. CASE up[l] = "up"
        BY <1>f, <2>3, <4>1, SendsTo, Zenon
      <4>2. CASE up[l] # "up"
        BY <2>3, <4>2, Zenon DEF Sends
      <4> QED
        BY <4>1, <4>2, Zenon
    <3>2. Adverts(control'[l]) = Adverts(control[l])
      BY <1>t, <1>f, <3>1, AppendOther, Zenon
    <3>3. l \notin raced' => l \in running
      BY <1>t, <2>0, <2>3, Zenon DEF RouteOk
    <3>4. l \in running => Placed(control'[l], l, route')
      BY <1>r, <3>2, Zenon DEF Placed
    <3>5. /\ Adverts(control'[l]) # {} => ack'[l] = "none" /\ Awaited(l)'
          /\ \A j, k \in Adverts(control'[l]) : j = k
      BY <1>t, <2>0, <2>1, <3>2, Zenon DEF RouteOk
    <3> QED
      BY <1>r, <2>0, <2>1, <3>3, <3>4, <3>5, Zenon DEF RouteOk
  <2> QED
    BY <1>6, <2>2, <2>3, Zenon DEF Renews
<1>7. ASSUME NEW judged \in {"accepted", "refused", "silent"}, StationJudges(l, judged) PROVE RouteOk(l)'
  <2>0. /\ control[l] # <<>> /\ control'[l] = Tail(control[l])
        /\ UNCHANGED <<try, entry, running, renewing, raced, withdrawing>>
    BY <1>7, <1>t, Zenon DEF StationJudges, poolServe
  <2>1. Awaited(l)' <=> Awaited(l)
    BY <2>0, Zenon DEF Awaited
  <2>2. /\ \A j, k \in Adverts(Tail(control[l])) : j = k
        /\ Adverts(Tail(control[l])) # {} => Adverts(control[l]) # {} /\ Head(control[l]) # "advertise"
        /\ Head(control[l]) = "advertise" => Adverts(control[l]) # {}
        /\ EndsClean(control[l], l, route) /\ (Head(control[l]) = "unadvertise" => l \notin route') => EndsClean(Tail(control[l]), l, route')
        /\ Placed(control[l], l, route) /\ (Head(control[l]) = "unadvertise" => l \notin route') => Placed(Tail(control[l]), l, route')
        /\ Placed(control[l], l, route) /\ Head(control[l]) = "advertise" => Tail(control[l]) = <<>> /\ l \notin route
    BY <1>t, <2>0, TailAdverts, Zenon DEF RouteOk
  <2>3. /\ balks \subseteq balks'
        /\ Head(control[l]) = "unadvertise" => l \notin route' \/ l \in balks'
        /\ Head(control[l]) = "advertise" /\ judged = "refused" => route' = route
        /\ ack'[l] = ack[l] \/ (Head(control[l]) = "advertise" /\ ack'[l] = judged)
    BY <1>7, <1>t, Zenon DEF StationJudges
  <2>4. Adverts(control'[l]) # {} => ack'[l] = "none" /\ Awaited(l)'
    BY <1>t, <2>0, <2>1, <2>2, <2>3, Zenon DEF RouteOk
  <2>5. ASSUME l \notin balks' \union raced'
        PROVE  /\ entry'[l] = "none" /\ l \notin withdrawing' => EndsClean(control'[l], l, route')
               /\ Placed(control'[l], l, route')
               /\ Awaited(l)' /\ ack'[l] = "refused" => control'[l] = <<>> /\ l \notin route'
    <3>1. l \notin balks \union raced /\ (Head(control[l]) = "unadvertise" => l \notin route')
      BY <2>0, <2>3, <2>5, Zenon
    <3>2. /\ entry[l] = "none" /\ l \notin withdrawing => EndsClean(control[l], l, route)
          /\ Placed(control[l], l, route)
          /\ Awaited(l) /\ ack[l] = "refused" => control[l] = <<>> /\ l \notin route
      BY <1>t, <3>1, Zenon DEF RouteOk
    <3>3. Awaited(l)' /\ ack'[l] = "refused" => control'[l] = <<>> /\ l \notin route'
      <4> SUFFICES ASSUME Awaited(l)', ack'[l] = "refused" PROVE control'[l] = <<>> /\ l \notin route'
        BY Zenon
      <4>1. Head(control[l]) = "advertise" /\ judged = "refused"
        BY <2>0, <2>1, <2>3, <3>2, Zenon
      <4> QED
        BY <2>0, <2>2, <2>3, <3>2, <4>1, Zenon
    <3> QED
      BY <2>0, <2>2, <3>1, <3>2, <3>3, Zenon
  <2> QED
    BY <1>t, <2>0, <2>2, <2>4, <2>5, Zenon DEF RouteOk
<1>8. ASSUME NEW b \in By, ServeOn(l, b) PROVE RouteOk(l)'
  <2>0. try[l][b] = "begin" /\ up[l] = "up" /\ UNCHANGED <<running, renewing, withdrawing, balks, raced, route>>
    BY <1>8, <1>t, Zenon DEF ServeOn, EntryOk
  <2>1. CASE (Result(l, b, "ok") \/ Result(l, b, "failed")) /\ UNCHANGED <<entry, ack, control>>
    <3>1. PICK to \in Stage \ {"verdict", "accepted"} : Tries(l, b, to)
      BY <2>1, ResultTo DEF Stage
    <3>2. try'[l][b] = to /\ \A c \in By \ {b} : try'[l][c] = try[l][c]
      BY <3>1, TryTo, Zenon
    <3>3. \A c \in By : try'[l][c] = "verdict" <=> try[l][c] = "verdict"
      BY <2>0, <3>2, Zenon
    <3>4. Awaited(l)' <=> Awaited(l)
      BY <3>3, Zenon DEF Awaited
    <3> QED
      BY <1>t, <2>0, <2>1, <3>4, RouteQuiet, Zenon
  <2>2. CASE /\ serveAt # "stopped" /\ l \notin running /\ entry[l] = "none"
             /\ entry' = [entry EXCEPT ![l] = b] /\ ack' = [ack EXCEPT ![l] = "none"]
             /\ Sends(l, "advertise") /\ Tries(l, b, "verdict")
    <3>1. try'[l][b] = "verdict"
      BY <2>2, TryTo, Zenon DEF Stage
    <3>2. control'[l] = Append(control[l], "advertise")
      BY <1>f, <2>0, <2>2, SendsTo, Zenon
    <3>3. entry'[l] = b /\ b # "none" /\ ack'[l] = "none"
      BY <1>t, <2>2, Zenon DEF By
    <3>4. Adverts(control[l]) = {}
      BY <1>t, <2>2, Zenon DEF RouteOk, Awaited, EntryOk, Holding, By
    <3>5. /\ Adverts(control'[l]) = {Len(control[l]) + 1}
          /\ EndsClean(control[l], l, route) => Placed(control'[l], l, route)
      BY <1>t, <3>2, <3>4, AppendAdvert, Zenon
    <3>6. l \notin balks' \union raced' => Placed(control'[l], l, route')
      <4>1. l \notin withdrawing
        BY <1>t, <2>2, Zenon DEF EntryOk
      <4> QED
        BY <1>t, <2>0, <2>2, <3>5, <4>1, Zenon DEF RouteOk
    <3>7. Awaited(l)'
      BY <3>1, Zenon DEF Awaited
    <3>8. \A j, k \in Adverts(control'[l]) : j = k
      BY <3>5, Zenon
    <3>9. l \in renewing' => l \in running'
      BY <1>t, <2>0, Zenon DEF RouteOk
    <3> QED
      BY <3>3, <3>6, <3>7, <3>8, <3>9, Zenon DEF RouteOk
  <2> QED
    BY <1>8, <2>1, <2>2, Zenon DEF ServeOn
<1>9. ASSUME NEW b \in By, Registered(l, b) PROVE RouteOk(l)'
  <2>0. /\ try[l][b] = "verdict" /\ ack'[l] = "none" /\ Awaited(l) /\ Holding(l, b)
        /\ UNCHANGED <<running, renewing, balks, raced, route>>
    BY <1>9, <1>t, Zenon DEF Registered, Awaited, Holding
  <2>r. l \in renewing' => l \in running'
    BY <1>t, <2>0, Zenon DEF RouteOk
  <2>1. CASE ack[l] = "accepted" /\ UNCHANGED <<entry, control>>
    <3>1. Adverts(control'[l]) = {} /\ entry'[l] # "none"
      BY <1>t, <2>0, <2>1, Zenon DEF RouteOk, EntryOk, By
    <3> QED
      BY <2>0, <2>r, <3>1, Zenon DEF RouteOk, Placed
  <2>2. CASE ack[l] = "refused" /\ UNCHANGED control
    <3>1. Adverts(control'[l]) = {}
      BY <1>t, <2>0, <2>2, Zenon DEF RouteOk
    <3>2. l \notin balks' \union raced' => control'[l] = <<>> /\ l \notin route'
      BY <1>t, <2>0, <2>2, Zenon DEF RouteOk
    <3> QED
      BY <2>0, <2>r, <3>1, <3>2, Zenon DEF RouteOk, Placed, EndsClean
  <2>3. CASE control' = [control EXCEPT ![l] = Withdraw(@)]
    <3>1. control'[l] = Withdraw(control[l])
      BY <1>t, <2>3, Zenon
    <3>2. /\ Withdraw(control[l]) \in Seq(Frame) /\ Len(Withdraw(control[l])) = Len(control[l]) + 1
          /\ Withdraw(control[l])[Len(control[l]) + 1] = "unadvertise"
          /\ \A k \in 1..Len(control[l]) + 1 : Withdraw(control[l])[k] # "advertise"
      BY <1>t, WithdrawIs, Zenon
    <3>3. Adverts(control'[l]) = {}
      BY <3>1, <3>2, Zenon DEF Adverts
    <3>4. Len(control[l]) \in Nat
      BY <1>t
    <3>5. Withdraw(control[l]) # <<>>
      BY <3>2, <3>4
    <3>6. EndsClean(control'[l], l, route')
      BY <3>1, <3>2, <3>5, Zenon DEF EndsClean
    <3> QED
      BY <2>0, <2>r, <3>3, <3>6, Zenon DEF RouteOk, Placed
  <2> QED
    BY <1>9, <2>1, <2>2, <2>3, Zenon DEF Registered
<1>10. ASSUME NEW b \in By, ServedOn(l, b) PROVE RouteOk(l)'
  <2>0. /\ try[l][b] = "accepted" /\ up[l] = "up" /\ entry[l] = b /\ b # "none" /\ l \notin running
        /\ UNCHANGED <<ack, renewing, control, balks, raced, route>>
    BY <1>10, <1>t, Zenon DEF ServedOn, station, EntryOk, Holding, By
  <2>1. Adverts(control[l]) = {}
    <3>1. ~Awaited(l)
      BY <1>t, <2>0, Zenon DEF Awaited, EntryOk, Holding
    <3> QED
      BY <1>t, <3>1, Zenon DEF RouteOk
  <2>2. PICK to \in Stage \ {"verdict", "accepted"} : Tries(l, b, to)
    BY <1>10, ResultTo DEF Stage, ServedOn
  <2>3. try'[l][b] = to /\ \A c \in By \ {b} : try'[l][c] = try[l][c]
    BY <2>2, TryTo, Zenon
  <2>4. ~Awaited(l)'
    <3>1. \A c \in By \ {b} : try[l][c] # "verdict"
      BY <1>t, <2>0, Zenon DEF EntryOk, Holding
    <3>2. \A c \in By : try'[l][c] # "verdict"
      BY <2>2, <2>3, <3>1, Zenon
    <3> QED
      BY <3>2, Zenon DEF Awaited
  <2>5. CASE serveAt = "stopped"
    <3>1. l \in withdrawing' /\ UNCHANGED running
      BY <1>10, <2>5, Zenon DEF ServedOn
    <3>2. l \in renewing' => l \in running'
      BY <1>t, <2>0, <3>1, Zenon DEF RouteOk
    <3> QED
      BY <2>0, <2>1, <2>4, <3>1, <3>2, Zenon DEF RouteOk, Placed
  <2>6. CASE serveAt # "stopped"
    <3>1. running' = running \union {l} /\ UNCHANGED entry
      BY <1>10, <2>6, Zenon DEF ServedOn
    <3> QED
      BY <2>0, <2>1, <2>4, <3>1, Zenon DEF RouteOk, Placed
  <2> QED
    BY <2>5, <2>6, Zenon
<1>11. ASSUME NEW b \in By, AttachAgain(l, b) PROVE RouteOk(l)'
  <2>1. try[l][b] = "delay" /\ Tries(l, b, "begin") /\ "begin" \in Stage
        /\ UNCHANGED <<entry, ack, control, running, renewing, withdrawing, balks, raced, route>>
    BY <1>11, Zenon DEF AttachAgain, onLink, station, Stage
  <2>2. try'[l][b] = "begin" /\ \A c \in By \ {b} : try'[l][c] = try[l][c]
    BY <2>1, TryTo, Zenon
  <2>3. \A c \in By : try'[l][c] = "verdict" <=> try[l][c] = "verdict"
    BY <2>1, <2>2, Zenon
  <2>4. Awaited(l)' <=> Awaited(l)
    BY <2>3, Zenon DEF Awaited
  <2> QED
    BY <1>t, <2>1, <2>4, RouteQuiet, Zenon
<1>12. CASE StopEnds(l)
  <2>0. /\ l \in running /\ l \in withdrawing' /\ l \notin renewing'
        /\ UNCHANGED <<try, ack, control, balks, raced, route>>
    BY <1>12, Zenon DEF StopEnds, station
  <2>1. ~Awaited(l)' /\ Adverts(control'[l]) = {}
    BY <1>r, <2>0, Zenon DEF Awaited
  <2> QED
    BY <2>0, <2>1, Zenon DEF RouteOk, Placed
<1>13. CASE StopWithdraws(l)
  <2>0. /\ l \in withdrawing /\ Sends(l, "unadvertise")
        /\ UNCHANGED <<try, ack, entry, running, renewing, balks, raced, route>>
    BY <1>13, Zenon DEF StopWithdraws, poolServe
  <2>1. up[l] = "up" /\ \A b \in By : ~Holding(l, b)
    BY <1>t, <2>0, Zenon DEF EntryOk, By
  <2>2. ~Awaited(l) /\ ~Awaited(l)'
    BY <2>0, <2>1, Zenon DEF Awaited, Holding
  <2>3. control'[l] = Append(control[l], "unadvertise")
    BY <1>f, <2>0, <2>1, SendsTo, Zenon
  <2>4. /\ Adverts(Append(control[l], "unadvertise")) = Adverts(control[l])
        /\ \A x, routes : EndsClean(Append(control[l], "unadvertise"), x, routes)
    BY <1>t, <1>f, AppendOther, Zenon
  <2>5. Adverts(control'[l]) = {} /\ EndsClean(control'[l], l, route')
    BY <1>t, <2>2, <2>3, <2>4, Zenon DEF RouteOk
  <2>6. l \in renewing' => l \in running'
    BY <1>t, <2>0, Zenon DEF RouteOk
  <2> QED
    BY <2>2, <2>5, <2>6, Zenon DEF RouteOk, Placed
<1> QED
  BY <1>1, <1>2, <1>3, <1>4, <1>5, <1>6, <1>7, <1>8, <1>9, <1>10, <1>11, <1>12, <1>13, Zenon DEF OfLink

\* Every step keeps every route in order.
LEMMA RouteStep ==
  ASSUME ServeType, EntryInv, RouteInv, [SNext]_svars
  PROVE  RouteInv'
<1>t. /\ try \in [Uplink -> [By -> Stage]] /\ control \in [Uplink -> Seq(Frame)]
  BY Zenon DEF ServeType
<1>1. ASSUME NEW l \in Uplink, OfLink(l) PROVE RouteInv'
  BY <1>1, Local, RouteSame, RouteLink, Zenon DEF RouteInv
<1>2. CASE ServeFirst \/ FirstServed \/ AddServed \/ ServeLate
  <2> SUFFICES ASSUME NEW m \in Uplink PROVE RouteOk(m)'
    BY Zenon DEF RouteInv
  <2>0. "first" \in By /\ "late" \in By
    BY Zenon DEF By
  <2>1. \/ try' = Starts(Held, "first") \/ try' = Starts(Held \ asks, "late") \/ UNCHANGED try \/ FirstServed
    BY <1>2, Zenon DEF ServeFirst, AddServed, ServeLate
  <2>2. ASSUME NEW b \in By, NEW ls, try' = Starts(ls, b) PROVE Awaited(m)' <=> Awaited(m)
    <3>1. /\ \A c \in By : m \notin ls \/ c # b => try'[m][c] = try[m][c]
          /\ m \in ls => try'[m][b] = IF try[m][b] = "none" THEN "begin" ELSE try[m][b]
      BY <2>2, StartsTo, Zenon
    <3>2. \A c \in By : try'[m][c] = "verdict" <=> try[m][c] = "verdict"
      BY <3>1, Zenon
    <3> QED
      BY <3>2, Zenon DEF Awaited
  <2>3. ASSUME FirstServed PROVE Awaited(m)' <=> Awaited(m)
    <3>1. \A c \in By : try'[m][c] = "verdict" <=> try[m][c] = "verdict"
      BY <2>3, <1>t, Zenon DEF FirstServed
    <3> QED
      BY <3>1, Zenon DEF Awaited
  <2>4. Awaited(m)' <=> Awaited(m)
    BY <2>0, <2>1, <2>2, <2>3, Zenon DEF Awaited
  <2>5. UNCHANGED <<entry, ack, control, running, renewing, withdrawing, balks, raced, route>>
    BY <1>2, Zenon DEF ServeFirst, FirstServed, AddServed, ServeLate, onLink, station
  <2> QED
    BY <2>4, <2>5, RouteQuiet, Zenon DEF RouteInv
<1>3. CASE StopServed
  <2>1. \A m \in Uplink : Same(m)
    BY <1>3, Zenon DEF StopServed, onLink, station, Same
  <2> QED
    BY <2>1, RouteSame, Zenon DEF RouteInv
<1>4. CASE UNCHANGED svars
  <2>1. \A m \in Uplink : Same(m)
    BY <1>4, Zenon DEF svars, poolServe, onLink, station, Same
  <2> QED
    BY <2>1, RouteSame, Zenon DEF RouteInv
<1> QED
  BY <1>1, <1>2, <1>3, <1>4, NextIs, Zenon

-----------------------------------------------------------------------------
ServeInv == ServeType /\ EntryInv /\ CoverInv /\ RouteInv

\* The initial states satisfy the invariant.
LEMMA ServeInit == SInit => ServeInv
<1> SUFFICES ASSUME SInit PROVE ServeInv
  BY Zenon
<1>1. ServeType
  BY DEF SInit, ServeType, Stage
<1>2. \A l \in Uplink : /\ \A b \in By : try[l][b] = "none"
                        /\ entry[l] = "none" /\ ack[l] = "none" /\ control[l] = <<>> /\ up[l] = "off"
  BY Zenon DEF SInit
<1>3. EntryInv
  BY <1>2, Zenon DEF EntryInv, EntryOk, Holding, SInit, By
<1>4. CoverInv
  BY <1>2, Zenon DEF SInit, CoverInv
<1>5. RouteInv
  <2>1. Adverts(<<>>) = {}
    BY DEF Adverts
  <2> QED
    BY <1>2, <2>1, Zenon DEF SInit, RouteInv, RouteOk, EndsClean, Placed
<1> QED
  BY <1>1, <1>3, <1>4, <1>5, Zenon DEF ServeInv

\* Every step keeps the invariant.
LEMMA ServeStep == ServeInv /\ [SNext]_svars => ServeInv'
BY TypeStep, EntryStep, CoverStep, RouteStep, Zenon DEF ServeInv

\* The offer is served on every link until Stop: pool.Serve, replay, the retries
\* and watch leave no link that is up without it, or its refusal, its lapse or a
\* try under way, however links come and go.
THEOREM OfferIsEverywhere == SSpec => []ServedEverywhere
<1>1. ServeInv => ServedEverywhere
  <2> SUFFICES ASSUME ServeInv, serveAt = "served", NEW l \in replays, up[l] = "up"
               PROVE  l \in running \union refusing \union lapsed \/ \E b \in By : try[l][b] # "none"
    BY Zenon DEF ServedEverywhere
  <2>1. Covered(l)
    BY Zenon DEF ServeInv, CoverInv
  <2> QED
    BY <2>1, Zenon DEF Covered
<1> QED
  BY <1>1, ServeInit, ServeStep, PTL DEF SSpec

\* What was refused, given up or stopped leaves no route at a station, on every
\* link the property does not except: its station may keep a route, or a
\* renewal was sent after its Served ended.
THEOREM NoRouteIsLeft == SSpec => []NoRouteUnserved
<1>1. ServeInv => NoRouteUnserved
  <2> SUFFICES ASSUME ServeInv, NEW l \in Uplink, Still(l), l \in route, l \notin running \union balks \union raced
               PROVE  FALSE
    BY Zenon DEF NoRouteUnserved
  <2>1. EntryOk(l) /\ RouteOk(l)
    BY Zenon DEF ServeInv, EntryInv, RouteInv
  <2>2. control[l] = <<>> /\ l \notin withdrawing /\ \A b \in By : ~Holding(l, b)
    BY Zenon DEF Still, Holding
  <2>3. entry[l] = "none"
    BY <2>1, <2>2, Zenon DEF EntryOk
  <2>4. EndsClean(control[l], l, route)
    BY <2>1, <2>2, <2>3, Zenon DEF RouteOk
  <2> QED
    BY <2>2, <2>4, Zenon DEF EndsClean
<1> QED
  BY <1>1, ServeInit, ServeStep, PTL DEF SSpec
-----------------------------------------------------------------------------
\* The inductive invariant of a Call.  Nothing of it was sent before it reaches
\* a candidate, a handler has run only when its answer is what the Call has, and
\* nothing went out clear that had to be sealed.
CallInv ==
    /\ callAt \in [Caller -> {"idle", "reach", "sent", "reseal"}]
    /\ entered \in [Caller -> {0, 1}]
    /\ sealedOnce \in [Caller -> BOOLEAN]
    /\ DOMAIN request = Caller
    /\ \A c \in Caller : callAt[c] \in {"idle", "reach"} => entered[c] = 0 /\ sealedOnce[c] = FALSE
    /\ \A c \in Caller : request[c].kind \notin {"result", "clearResult"} => entered[c] = 0
    /\ \A c \in Caller : callAt[c] = "reseal" => request[c].kind = "sealedRefused"
    /\ leaked = FALSE

\* A CALL that goes out is sealed, or is the first of a Call not required to be.
LEMMA GoesKeeps ==
  ASSUME CallInv, NEW c \in Caller, NEW key, Goes(c, key), UNCHANGED entered, entered[c] = 0,
         key = 0 => sealedOnce[c] = FALSE /\ ~required[c]
  PROVE  CallInv'
<1>1. /\ request' = [request EXCEPT ![c] = [kind |-> "wire", key |-> key]]
      /\ callAt' = [callAt EXCEPT ![c] = "sent"]
      /\ leaked' = (leaked \/ (key = 0 /\ (sealedOnce[c] \/ required[c])))
      /\ sealedOnce' = [sealedOnce EXCEPT ![c] = sealedOnce[c] \/ key # 0]
  BY Zenon DEF Goes
<1>2. leaked' = FALSE
  BY <1>1, Zenon DEF CallInv
<1>3. sealedOnce' \in [Caller -> BOOLEAN] /\ \A d \in Caller : d # c => sealedOnce'[d] = sealedOnce[d]
  BY <1>1, Zenon DEF CallInv
<1>4. /\ DOMAIN request' = Caller /\ callAt' \in [Caller -> {"idle", "reach", "sent", "reseal"}]
      /\ callAt'[c] = "sent" /\ request'[c].kind = "wire"
      /\ \A d \in Caller : d # c => callAt'[d] = callAt[d] /\ request'[d] = request[d]
  BY <1>1, Zenon DEF CallInv
<1> QED
  BY <1>2, <1>3, <1>4 DEF CallInv

\* A Call that returned leaves nothing behind.
LEMMA ReturnedKeeps ==
  ASSUME CallInv, NEW c \in Caller, Returned(c), UNCHANGED leaked
  PROVE  CallInv'
<1>1. /\ callAt' = [callAt EXCEPT ![c] = "idle"]
      /\ request' = [request EXCEPT ![c] = NoReply]
      /\ entered' = [entered EXCEPT ![c] = 0] /\ sealedOnce' = [sealedOnce EXCEPT ![c] = FALSE]
  BY Zenon DEF Returned
<1> QED
  BY <1>1, Zenon DEF CallInv, NoReply

\* A step that leaves what the invariant speaks of as it is.
LEMMA CallQuiet ==
  ASSUME CallInv, UNCHANGED <<callAt, request, history>>
  PROVE  CallInv'
BY Zenon DEF CallInv, history

\* Every step keeps the invariant.
LEMMA CallStep == CallInv /\ [CNext]_cvars => CallInv'
<1> SUFFICES ASSUME CallInv, [CNext]_cvars PROVE CallInv'
  BY Zenon
<1>1. ASSUME NEW n \in Node, Rotates(n) \/ Retires(n) \/ Restarts(n) \/ Renewed(n) PROVE CallInv'
  BY <1>1, CallQuiet, Zenon DEF Rotates, Retires, Restarts, Renewed, callState
<1>2. ASSUME NEW c \in Caller, NEW who, NEW conf, Begins(c, who, conf) PROVE CallInv'
  <2>1. callAt[c] = "idle" /\ callAt' = [callAt EXCEPT ![c] = "reach"] /\ UNCHANGED <<request, history>>
    BY <1>2, Zenon DEF Begins
  <2> QED
    BY <2>1, Zenon DEF CallInv, history
<1>3. ASSUME NEW c \in Caller, NEW n \in Node, Answers(c, n) PROVE CallInv'
  <2>1. request[c].kind = "wire" /\ callAt[c] = "sent" /\ UNCHANGED <<callAt, sealedOnce, leaked>>
    BY <1>3, Zenon DEF Answers
  <2>2. entered[c] = 0
    BY <2>1, Zenon DEF CallInv
  <2>3. \/ /\ UNCHANGED entered
           /\ \E key : request' = [request EXCEPT ![c] = [kind |-> "sealedRefused", key |-> key]]
        \/ /\ UNCHANGED entered
           /\ \E key : request' = [request EXCEPT ![c] = [kind |-> "sealedRequired", key |-> key]]
        \/ /\ entered' = [entered EXCEPT ![c] = entered[c] + 1]
           /\ \E kind \in {"clearResult", "result"} : \E key : request' = [request EXCEPT ![c] = [kind |-> kind, key |-> key]]
    BY <1>3, Zenon DEF Answers
  <2> QED
    BY <2>1, <2>2, <2>3 DEF CallInv
<1>4. ASSUME NEW c \in Caller, Reaches(c) PROVE CallInv'
  <2>1. /\ callAt[c] = "reach" /\ cands[c] # <<>> /\ ~NoKEMKey(c) /\ Goes(c, Head(cands[c]).key)
        /\ UNCHANGED entered
    BY <1>4, Zenon DEF Reaches
  <2>2. entered[c] = 0 /\ sealedOnce[c] = FALSE
    BY <2>1, Zenon DEF CallInv
  <2>3. Head(cands[c]).key = 0 => ~required[c]
    BY <2>1, Zenon DEF NoKEMKey
  <2> QED
    BY <2>1, <2>2, <2>3, GoesKeeps, Zenon
<1>5. ASSUME NEW c \in Caller, Unreached(c) PROVE CallInv'
  BY <1>5, CallQuiet, Zenon DEF Unreached
<1>6. ASSUME NEW c \in Caller, NoProvider(c) \/ Replied(c) \/ TimesOut(c) \/ Required(c) \/ RefusedAgain(c) PROVE CallInv'
  BY <1>6, ReturnedKeeps, Zenon DEF NoProvider, Replied, TimesOut, Required, RefusedAgain
<1>7. ASSUME NEW c \in Caller, Adopts(c) PROVE CallInv'
  <2>1. request[c].kind = "sealedRequired" /\ request[c].key # 0 /\ Goes(c, request[c].key) /\ UNCHANGED entered
    BY <1>7, Zenon DEF Adopts, adoptedKey
  <2>2. entered[c] = 0
    BY <2>1, Zenon DEF CallInv
  <2> QED
    BY <2>1, <2>2, GoesKeeps, Zenon
<1>8. ASSUME NEW c \in Caller, ResealBegins(c) PROVE CallInv'
  <2>1. /\ callAt[c] = "sent" /\ request[c].kind = "sealedRefused"
        /\ callAt' = [callAt EXCEPT ![c] = "reseal"] /\ UNCHANGED <<request, history>>
    BY <1>8, Zenon DEF ResealBegins, Refusal, history
  <2> QED
    BY <2>1, Zenon DEF CallInv, history
<1>9. ASSUME NEW c \in Caller, Reseals(c) PROVE CallInv'
  <2>1. CASE Returned(c) /\ UNCHANGED leaked
    BY <2>1, ReturnedKeeps, Zenon
  <2>2. ASSUME NEW fresh, NEW key \in resealKey(request[c].key, fresh), Goes(c, key), UNCHANGED entered
        PROVE  CallInv'
    <3>1. key # 0
      BY <2>2, Zenon DEF resealKey
    <3>2. callAt[c] = "reseal"
      BY <1>9, Zenon DEF Reseals
    <3>3. entered[c] = 0
      BY <3>2, Zenon DEF CallInv
    <3> QED
      BY <2>2, <3>1, <3>3, GoesKeeps, Zenon
  <2> QED
    BY <1>9, <2>1, <2>2, Zenon DEF Reseals
<1>10. CASE UNCHANGED cvars
  BY <1>10, CallQuiet, Zenon DEF cvars, callState
<1> QED
  BY <1>1, <1>2, <1>3, <1>4, <1>5, <1>6, <1>7, <1>8, <1>9, <1>10, Zenon DEF CNext

\* The initial states satisfy the invariant.
LEMMA CallInit == CInit => CallInv
<1> SUFFICES ASSUME CInit PROVE CallInv
  BY Zenon
<1>1. /\ callAt = [c \in Caller |-> "idle"] /\ request = [c \in Caller |-> NoReply]
      /\ entered = [c \in Caller |-> 0] /\ sealedOnce = [c \in Caller |-> FALSE] /\ leaked = FALSE
  BY Zenon DEF CInit
<1> QED
  BY <1>1, Zenon DEF CallInv, NoReply

\* "One Call enters a provider's handler at most once": the claim of pool/call.go,
\* for any callers, providers and keys.
THEOREM HandlersRunOnce == CSpec => []HandlerOnce
<1>1. CallInv => HandlerOnce
  BY DEF CallInv, HandlerOnce
<1> QED
  BY CallInit, CallStep, <1>1, PTL DEF CSpec

\* The fallback of a seal is never the clear: whatever keys are rotated, retired,
\* lost, renewed or learnt meanwhile, and whether the refusal named a key or its
\* provider holds none, for any callers, providers and keys.
THEOREM SealedStaysSealed == CSpec => []NeverClearAgain
<1>1. CallInv => NeverClearAgain
  BY Zenon DEF CallInv, NeverClearAgain
<1> QED
  BY CallInit, CallStep, <1>1, PTL DEF CSpec
=============================================================================
