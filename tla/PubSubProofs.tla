---------------------------- MODULE PubSubProofs ----------------------------
(***************************************************************************)
(* A subscription over any number of links keeps the promise of            *)
(* SubscriptionPromise: every step of the pool is a step of the promise, or*)
(* leaves what the promise speaks of as it is.  None of the links is       *)
(* forgotten, however they come up while Subscribe runs.  The newest notice*)
(* is never given up for an event, for any size of the queues.  A group's  *)
(* keys are pulled again in time and kept as long as their events.  And a  *)
(* publication's seq is its own, and it is delivered once.                 *)
(***************************************************************************)
EXTENDS PoolSubscription, Groups, Publications, TLAPS

Stages == {"none", "begin", "asking", "accepted", "ok", "err"}
Busy == {"begin", "asking", "accepted"}

\* The inductive invariant: the links that cover are attached ones that came up,
\* a subscription that ended or is interrupted is covered by none, and a link's
\* subscription is closed only by the end of its link.
CoverType ==
    /\ poolLink \in [Link -> {"off", "up", "failed", "done", "gone"}]
    /\ linkSub \in [Link -> {"none", "open", "closed"}]
    /\ attempt \in [Link -> [Who -> Stages]]
    /\ cover \subseteq onLinks /\ onLinks \subseteq Link
    /\ interrupted \in BOOLEAN /\ ended \in BOOLEAN /\ closed \in BOOLEAN

CoverInv ==
    /\ CoverType
    /\ ended => onLinks = {} /\ ~interrupted
    /\ interrupted => cover = {}
    /\ \A l \in onLinks : poolLink[l] # "off"
    /\ \A l \in Link : linkSub[l] = "closed" => poolLink[l] \in {"done", "gone"}
    /\ \A l \in Link, w \in Who : attempt[l][w] \in Busy => poolLink[l] # "off"

\* The initial states satisfy the invariant.
LEMMA CoverInit == PInit => CoverInv
<1> SUFFICES ASSUME PInit PROVE CoverInv
  BY Zenon
<1>1. /\ poolLink = [l \in Link |-> "off"] /\ linkSub = [l \in Link |-> "none"]
      /\ attempt = [l \in Link |-> [w \in Who |-> "none"]]
      /\ onLinks = {} /\ cover = {}
  BY Zenon DEF PInit
<1>2. interrupted = FALSE /\ ended = FALSE /\ closed = FALSE
  BY Zenon DEF PInit
<1>3. /\ poolLink \in [Link -> {"off", "up", "failed", "done", "gone"}]
      /\ linkSub \in [Link -> {"none", "open", "closed"}]
      /\ attempt \in [Link -> [Who -> Stages]]
  BY <1>1, Zenon DEF Stages
<1>4. \A l \in Link : linkSub[l] # "closed" /\ \A w \in Who : attempt[l][w] \notin Busy
  BY <1>1, Zenon DEF Busy
<1> QED
  BY <1>1, <1>2, <1>3, <1>4, Zenon DEF CoverInv, CoverType

\* end takes the links from the subscription, whatever else its caller does.
LEMMA EndKeeps ==
  ASSUME CoverInv, End, UNCHANGED <<poolLink, closed>>,
         attempt' \in [Link -> [Who -> Stages]],
         \A l \in Link, w \in Who : attempt'[l][w] \in Busy => attempt[l][w] \in Busy \/ poolLink[l] # "off"
  PROVE  CoverInv'
  BY Zenon DEF CoverInv, CoverType, End

\* A step that leaves the links, the cover and the end alone, and
\* begins to attach only on links that came up.
LEMMA QuietKeeps ==
  ASSUME CoverInv, UNCHANGED <<poolLink, linkSub, cov, ended>>, closed' \in BOOLEAN,
         attempt' \in [Link -> [Who -> Stages]],
         \A l \in Link, w \in Who : attempt'[l][w] \in Busy => attempt[l][w] \in Busy \/ poolLink[l] # "off"
  PROVE  CoverInv'
  BY Zenon DEF CoverInv, CoverType, cov

\* A result leaves no attempt under way that was not.
LEMMA ResultsAccept ==
  ASSUME CoverInv, NEW l \in Link, NEW w \in Who, NEW to \in Stages \ Busy, Results(l, w, to)
  PROVE  /\ attempt' \in [Link -> [Who -> Stages]]
         /\ \A k \in Link, v \in Who : attempt'[k][v] \in Busy => attempt[k][v] \in Busy \/ poolLink[k] # "off"
  BY Zenon DEF Results, Attempts, CoverInv, CoverType, Stages, Busy

\* Every step keeps the invariant.
LEMMA CoverStep == CoverInv /\ [PNext]_pvars => CoverInv'
<1> SUFFICES ASSUME CoverInv, [PNext]_pvars PROVE CoverInv'
  BY Zenon
<1>t. attempt \in [Link -> [Who -> Stages]] /\ closed \in BOOLEAN
  BY Zenon DEF CoverInv, CoverType
<1>1. ASSUME NEW l \in Link, LinkUp(l) PROVE CoverInv'
  BY <1>1, Zenon DEF LinkUp, CoverInv, CoverType, cov
<1>2. ASSUME NEW l \in Link, Replay(l) PROVE CoverInv'
  <2>1. UNCHANGED <<poolLink, linkSub, cov, ended, closed>>
    BY <1>2, Zenon DEF Replay
  <2>2. attempt' = attempt \/ attempt' = [attempt EXCEPT ![l]["replay"] = "begin"]
    BY <1>2, Zenon DEF Replay
  <2>3. /\ attempt' \in [Link -> [Who -> Stages]]
        /\ \A k \in Link, v \in Who : attempt'[k][v] \in Busy => attempt[k][v] \in Busy \/ poolLink[k] # "off"
    BY <1>2, <2>2, <1>t DEF Stages, Busy, Replay, Links
  <2> QED
    BY <2>1, <2>3, <1>t, QuietKeeps, Zenon
<1>3. ASSUME NEW l \in Link, LinkGone(l) PROVE CoverInv'
  BY <1>3, Zenon DEF LinkGone, CoverInv, CoverType, cov
<1>4. ASSUME NEW l \in Link, LinkErr(l) PROVE CoverInv'
  BY <1>4, Zenon DEF LinkErr, CoverInv, CoverType, cov
<1>4a. ASSUME NEW l \in Link, LinkClosed(l) PROVE CoverInv'
  BY <1>4a, Zenon DEF LinkClosed, CoverInv, CoverType, cov
<1>5. CASE SubscribeRound
  <2>1. CASE End /\ UNCHANGED <<poolLink, closed, attempt>>
    BY <2>1, <1>t, EndKeeps, Zenon
  <2>2. CASE /\ UNCHANGED <<poolLink, linkSub, cov, ended, closed>>
             /\ attempt' = [l \in Link |-> IF l \in Links THEN [attempt[l] EXCEPT !["round"] = "begin"] ELSE attempt[l]]
    <3>1. /\ attempt' \in [Link -> [Who -> Stages]]
          /\ \A k \in Link, v \in Who : attempt'[k][v] \in Busy => attempt[k][v] \in Busy \/ poolLink[k] # "off"
      BY <2>2, <1>t, Zenon DEF Stages, Busy, Links
    <3> QED
      BY <2>2, <3>1, <1>t, QuietKeeps, Zenon
  <2> QED
    BY <1>5, <2>1, <2>2, Zenon DEF SubscribeRound
<1>6. CASE FirstAttached
  <2>1. /\ attempt' = [l \in Link |-> [attempt[l] EXCEPT !["round"] = IF @ \in {"ok", "err"} THEN "none" ELSE @]]
        /\ UNCHANGED <<poolLink, closed>>
        /\ End \/ UNCHANGED <<linkSub, cov, ended>>
    BY <1>6, Zenon DEF FirstAttached
  <2>2. /\ attempt' \in [Link -> [Who -> Stages]]
        /\ \A k \in Link, v \in Who : attempt'[k][v] \in Busy => attempt[k][v] \in Busy \/ poolLink[k] # "off"
    BY <2>1, <1>t, Zenon DEF Stages, Busy
  <2> QED
    BY <2>1, <2>2, <1>t, EndKeeps, QuietKeeps, Zenon
<1>7. CASE AddToPool
  <2>1. UNCHANGED <<poolLink, closed, attempt>> /\ (End \/ UNCHANGED <<linkSub, cov, ended>>)
    BY <1>7, Zenon DEF AddToPool
  <2> QED
    BY <2>1, <1>t, EndKeeps, QuietKeeps, Zenon
<1>8. CASE AttachLate
  <2>1. /\ attempt' = [l \in Link |-> IF l \in Links \ round THEN [attempt[l] EXCEPT !["late"] = "begin"] ELSE attempt[l]]
        /\ UNCHANGED <<poolLink, linkSub, cov, ended, closed>>
    BY <1>8, Zenon DEF AttachLate, links
  <2>2. /\ attempt' \in [Link -> [Who -> Stages]]
        /\ \A k \in Link, v \in Who : attempt'[k][v] \in Busy => attempt[k][v] \in Busy \/ poolLink[k] # "off"
    BY <2>1, <1>t, Zenon DEF Stages, Busy, Links
  <2> QED
    BY <2>1, <2>2, <1>t, QuietKeeps, Zenon
<1>9. ASSUME NEW l \in Link, NEW w \in Who, AttachBegins(l, w) PROVE CoverInv'
  <2>1. UNCHANGED <<poolLink, cov, ended, closed>> /\ attempt[l][w] = "begin"
    BY <1>9, Zenon DEF AttachBegins
  <2>2. Results(l, w, "ok") \/ Attempts(l, w, "asking")
    BY <1>9, Zenon DEF AttachBegins
  <2>3. /\ attempt' \in [Link -> [Who -> Stages]]
        /\ \A k \in Link, v \in Who : attempt'[k][v] \in Busy => attempt[k][v] \in Busy \/ poolLink[k] # "off"
    BY <2>1, <2>2, <1>t DEF Stages, Busy, Results, Attempts
  <2>4. linkSub' = linkSub \/ linkSub' = [linkSub EXCEPT ![l] = "open"]
    BY <1>9, Zenon DEF AttachBegins
  <2> QED
    BY <2>1, <2>3, <2>4, Zenon DEF CoverInv, CoverType, cov
<1>10. ASSUME NEW l \in Link, NEW w \in Who, AttachAnswered(l, w) PROVE CoverInv'
  <2>1. UNCHANGED <<poolLink, cov, ended, closed>> /\ attempt[l][w] = "asking"
    BY <1>10, Zenon DEF AttachAnswered
  <2>2. Results(l, w, "err") \/ Attempts(l, w, "accepted")
    BY <1>10, Zenon DEF AttachAnswered
  <2>3. /\ attempt' \in [Link -> [Who -> Stages]]
        /\ \A k \in Link, v \in Who : attempt'[k][v] \in Busy => attempt[k][v] \in Busy \/ poolLink[k] # "off"
    BY <2>1, <2>2, <1>t DEF Stages, Busy, Results, Attempts
  <2>4. linkSub' = linkSub \/ linkSub' = [linkSub EXCEPT ![l] = "none"]
    BY <1>10, Zenon DEF AttachAnswered
  <2> QED
    BY <2>1, <2>3, <2>4, Zenon DEF CoverInv, CoverType, cov
<1>11. ASSUME NEW l \in Link, NEW w \in Who, AttachCovers(l, w) PROVE CoverInv'
  <2>1. /\ attempt' \in [Link -> [Who -> Stages]]
        /\ \A k \in Link, v \in Who : attempt'[k][v] \in Busy => attempt[k][v] \in Busy \/ poolLink[k] # "off"
    BY <1>11, <1>t, Zenon DEF AttachCovers, Stages, Busy, Results, Attempts
  <2>2. UNCHANGED <<poolLink, ended, closed>> /\ attempt[l][w] = "accepted"
    BY <1>11, Zenon DEF AttachCovers
  <2>3. CASE linkSub' = [linkSub EXCEPT ![l] = "none"] /\ UNCHANGED cov
    BY <2>1, <2>2, <2>3, Zenon DEF CoverInv, CoverType, cov
  <2>r. poolLink[l] # "off"
    BY <2>2, Zenon DEF CoverInv, Busy
  <2>4. CASE /\ ~ended /\ onLinks' = onLinks \union {l} /\ interrupted' = FALSE /\ UNCHANGED linkSub
             /\ cover' = (cover \ {k \in onLinks : poolLink[k] # "up"}) \union {l}
    BY <2>1, <2>2, <2>4, <2>r, Zenon DEF CoverInv, CoverType, cov
  <2> QED
    BY <1>11, <2>3, <2>4, Zenon DEF AttachCovers
<1>12. ASSUME NEW l \in Link, Forward(l) PROVE CoverInv'
  BY <1>12, <1>t, QuietKeeps, Zenon DEF Forward
<1>13. ASSUME NEW l \in Link, ForwardEnds(l) PROVE CoverInv'
  <2>1. linkSub' = [linkSub EXCEPT ![l] = "none"] /\ UNCHANGED <<poolLink, attempt, ended, closed>>
    BY <1>13, Zenon DEF ForwardEnds
  <2>2. CASE UNCHANGED cov
    BY <2>1, <2>2, Zenon DEF CoverInv, CoverType, cov
  <2>3. CASE l \in onLinks /\ onLinks' = onLinks \ {l} /\ cover' = cover \ {l} /\ interrupted' = Emptied({l})
    BY <2>1, <2>3, Zenon DEF CoverInv, CoverType, cov, Emptied
  <2> QED
    BY <1>13, <2>2, <2>3, Zenon DEF ForwardEnds
<1>14. CASE OpenTakes \/ OpenPasses \/ Reads
  BY <1>14, <1>t, QuietKeeps, Zenon DEF OpenTakes, OpenPasses, Reads, links
<1>15. CASE Unsubscribe
  BY <1>15, <1>t, EndKeeps, Zenon DEF Unsubscribe
<1>16. CASE Close
  BY <1>16, <1>t, QuietKeeps, Zenon DEF Close, links
<1>17. CASE CloseEnds
  <2>1. UNCHANGED <<poolLink, closed, attempt>> /\ (End \/ UNCHANGED <<linkSub, cov, ended>>)
    BY <1>17, Zenon DEF CloseEnds
  <2> QED
    BY <2>1, <1>t, EndKeeps, QuietKeeps, Zenon
<1>18. CASE UNCHANGED pvars
  BY <1>18, <1>t, QuietKeeps, Zenon DEF pvars, links
<1> QED
  BY <1>1, <1>2, <1>3, <1>4, <1>4a, <1>5, <1>6, <1>7, <1>8, <1>9, <1>10, <1>11, <1>12, <1>13, <1>14, <1>15, <1>16,
     <1>17, <1>18, Zenon DEF PNext, Progress

-----------------------------------------------------------------------------
\* The end of the subscription is the end of the promise.
LEMMA EndIsOver == ASSUME End, UNCHANGED closed PROVE P!Over
<1>1. ended' = TRUE /\ cover' = {} /\ UNCHANGED noticed
  BY Zenon DEF End
<1> QED
  BY <1>1, Zenon DEF P!Over

\* A step that changes neither the cover nor a link leaves the promise as it is.
LEMMA QuietIsUnseen ==
  ASSUME UNCHANGED <<poolLink, cover, interrupted, ended, noticed, closed>> PROVE UNCHANGED P!PromiseVars
  BY Zenon DEF P!PromiseVars

\* The promise's view of the links that cover.
Dark == cover # {} /\ \A l \in cover : poolLink[l] # "up"

\* The notices owed by a step: the last of them is the newest.
LEMMA OwedIsNoticed ==
  ASSUME NEW kinds, Owe(kinds)
  PROVE  /\ kinds = <<>> => UNCHANGED noticed
         /\ kinds # <<>> => noticed' = kinds[Len(kinds)]
  BY Zenon DEF Owe, queues

\* A gap owed is the last of what is owed.
LEMMA GapIsLast ==
  ASSUME NEW owed \in Seq({"interrupted", "gap"})
  PROVE  owed \o <<"gap">> # <<>> /\ (owed \o <<"gap">>)[Len(owed \o <<"gap">>)] = "gap"
<1>1. <<"gap">> \in Seq({"interrupted", "gap"}) /\ Len(<<"gap">>) = 1 /\ <<"gap">>[1] = "gap"
  OBVIOUS
<1>2. Len(owed) \in Nat
  OBVIOUS
<1>3. Len(owed \o <<"gap">>) = Len(owed) + 1
  BY <1>1
<1>4. (owed \o <<"gap">>)[Len(owed) + 1] = "gap"
  BY <1>1, <1>2
<1>5. Len(<<>>) = 0
  BY Zenon
<1> QED
  BY <1>2, <1>3, <1>4, <1>5

\* Every step of the pool is a step of the promise, or a stutter.
LEMMA PromiseStep == CoverInv /\ [PNext]_pvars => [P!PromiseNext]_(P!PromiseVars)
<1> SUFFICES ASSUME CoverInv, [PNext]_pvars PROVE P!PromiseNext \/ UNCHANGED P!PromiseVars
  BY Zenon
<1>e. End /\ UNCHANGED closed => P!PromiseNext
  BY EndIsOver, Zenon DEF P!PromiseNext
<1>1. ASSUME NEW l \in Link, LinkUp(l) PROVE UNCHANGED P!PromiseVars
  <2>1. poolLink' = [poolLink EXCEPT ![l] = "up"] /\ poolLink[l] = "off" /\ UNCHANGED <<cover, interrupted, ended, noticed, closed>>
    BY <1>1, Zenon DEF LinkUp, cov, queues
  <2>2. \A k \in cover : poolLink'[k] = poolLink[k]
    BY <2>1, Zenon DEF CoverInv, CoverType
  <2> QED
    BY <2>1, <2>2, Zenon DEF P!PromiseVars
<1>3. ASSUME NEW l \in Link, LinkGone(l) PROVE UNCHANGED P!PromiseVars
  <2>1. poolLink' = [poolLink EXCEPT ![l] = "gone"] /\ poolLink[l] = "done" /\ UNCHANGED <<cover, interrupted, ended, noticed, closed>>
    BY <1>3, Zenon DEF LinkGone, cov, queues
  <2>2. \A k \in cover : poolLink'[k] # "up" <=> poolLink[k] # "up"
    BY <2>1, Zenon DEF CoverInv, CoverType
  <2> QED
    BY <2>1, <2>2, Zenon DEF P!PromiseVars
<1>3a. ASSUME NEW l \in Link, LinkClosed(l) PROVE UNCHANGED P!PromiseVars
  <2>1. poolLink' = [poolLink EXCEPT ![l] = "done"] /\ poolLink[l] = "failed" /\ UNCHANGED <<cover, interrupted, ended, noticed, closed>>
    BY <1>3a, Zenon DEF LinkClosed, cov, queues
  <2>2. \A k \in cover : poolLink'[k] # "up" <=> poolLink[k] # "up"
    BY <2>1, Zenon DEF CoverInv, CoverType
  <2> QED
    BY <2>1, <2>2, Zenon DEF P!PromiseVars
<1>4. ASSUME NEW l \in Link, LinkErr(l) PROVE P!PromiseNext \/ UNCHANGED P!PromiseVars
  <2>1. poolLink' = [poolLink EXCEPT ![l] = "failed"] /\ poolLink[l] = "up" /\ UNCHANGED <<cover, interrupted, ended, noticed, closed>>
    BY <1>4, Zenon DEF LinkErr, cov, queues
  <2>2. \A k \in cover : poolLink[k] # "up" => poolLink'[k] # "up"
    BY <2>1, Zenon DEF CoverInv, CoverType
  <2>3. CASE Dark' /\ ~Dark
    <3>1. cover # {} /\ ~ended /\ ~interrupted
      BY <2>1, <2>3, Zenon DEF Dark, CoverInv, CoverType
    <3>2. P!LastLinkEnds
      BY <2>1, <2>3, <3>1, Zenon DEF P!LastLinkEnds, Dark
    <3> QED
      BY <3>2, Zenon DEF P!PromiseNext
  <2>4. CASE Dark' <=> Dark
    BY <2>1, <2>4, Zenon DEF P!PromiseVars, Dark
  <2> QED
    BY <2>1, <2>2, <2>3, <2>4, Zenon DEF Dark
<1>11. ASSUME NEW l \in Link, NEW w \in Who, AttachCovers(l, w) PROVE P!PromiseNext \/ UNCHANGED P!PromiseVars
  <2> DEFINE gone == {k \in onLinks : poolLink[k] # "up"}
             kinds == InterruptedOwed(gone) \o IF Emptied(gone) THEN <<"gap">> ELSE <<>>
  <2>1. UNCHANGED <<poolLink, ended, closed>>
    BY <1>11, Zenon DEF AttachCovers
  <2>2. CASE UNCHANGED cov /\ UNCHANGED queues
    BY <2>1, <2>2, QuietIsUnseen, Zenon DEF cov, queues
  <2>3. CASE /\ ~ended /\ cover' = (cover \ gone) \union {l} /\ interrupted' = FALSE /\ Owe(kinds)
    <3>1. cover' # {} /\ ~ended' /\ ~interrupted'
      BY <2>1, <2>3, Zenon
    <3>2. cover \subseteq gone <=> \A k \in cover : poolLink[k] # "up"
      BY Zenon DEF CoverInv, CoverType
    <3>o. InterruptedOwed(gone) \in Seq({"interrupted", "gap"})
      <4>1. <<>> \in Seq({"interrupted", "gap"}) /\ <<"interrupted">> \in Seq({"interrupted", "gap"})
        OBVIOUS
      <4> QED
        BY <4>1, Zenon DEF InterruptedOwed
    <3>3. CASE interrupted
      <4>1. cover = {} /\ kinds = InterruptedOwed(gone) \o <<"gap">>
        BY <3>3, Zenon DEF CoverInv, Emptied
      <4>2. noticed' = "gap"
        BY <2>3, <3>o, <4>1, GapIsLast, OwedIsNoticed, Zenon
      <4>3. P!Gap
        BY <2>1, <2>3, <3>1, <3>3, <4>2, Zenon DEF P!Gap
      <4> QED
        BY <4>3, Zenon DEF P!PromiseNext
    <3>4. CASE ~interrupted /\ cover = {}
      <4>1. kinds = <<>>
        BY <3>4 DEF InterruptedOwed, Emptied
      <4>2. UNCHANGED noticed
        BY <2>3, <4>1, OwedIsNoticed, Zenon
      <4>3. P!Accepted
        BY <2>1, <2>3, <3>1, <3>4, <4>2, Zenon DEF P!Accepted
      <4> QED
        BY <4>3, Zenon DEF P!PromiseNext
    <3>5. CASE ~interrupted /\ cover # {} /\ cover \subseteq gone
      <4>1. kinds = InterruptedOwed(gone) \o <<"gap">>
        BY <3>5, Zenon DEF Emptied
      <4>2. noticed' = "gap"
        BY <2>3, <3>o, <4>1, GapIsLast, OwedIsNoticed, Zenon
      <4>3. P!InterruptedThenGap
        BY <2>1, <2>3, <3>1, <3>2, <3>5, <4>2, Zenon DEF P!InterruptedThenGap
      <4> QED
        BY <4>3, Zenon DEF P!PromiseNext
    <3>6. CASE ~interrupted /\ cover # {} /\ ~(cover \subseteq gone)
      <4>1. kinds = <<>>
        BY <3>6 DEF InterruptedOwed, Emptied
      <4>2. UNCHANGED noticed
        BY <2>3, <4>1, OwedIsNoticed, Zenon
      <4>3. ~Dark /\ ~Dark'
        BY <2>1, <2>3, <3>2, <3>6, Zenon DEF Dark, CoverInv, CoverType
      <4> QED
        BY <2>1, <2>3, <3>1, <3>6, <4>2, <4>3, Zenon DEF P!PromiseVars, Dark
    <3> QED
      BY <3>3, <3>4, <3>5, <3>6, Zenon
  <2> QED
    BY <1>11, <2>2, <2>3, Zenon DEF AttachCovers
<1>13. ASSUME NEW l \in Link, ForwardEnds(l) PROVE P!PromiseNext \/ UNCHANGED P!PromiseVars
  <2>1. UNCHANGED <<poolLink, ended, closed>> /\ linkSub[l] = "closed"
    BY <1>13, Zenon DEF ForwardEnds
  <2>2. CASE UNCHANGED cov /\ UNCHANGED queues
    BY <2>1, <2>2, QuietIsUnseen, Zenon DEF cov, queues
  <2>3. CASE /\ l \in onLinks /\ cover' = cover \ {l} /\ interrupted' = Emptied({l}) /\ Owe(InterruptedOwed({l}))
    <3>1. poolLink[l] # "up" /\ ~ended
      BY <2>1, <2>3, Zenon DEF CoverInv, CoverType
    <3>2. CASE cover = {l}
      <4>1. ~interrupted /\ interrupted' /\ Dark /\ ~Dark'
        BY <2>1, <2>3, <3>1, <3>2, Zenon DEF Emptied, Dark, CoverInv
      <4>2. noticed' = IF closed THEN noticed ELSE "interrupted"
        <5>1. CASE closed
          <6>1. InterruptedOwed({l}) = <<>>
            BY <5>1, Zenon DEF InterruptedOwed
          <6> QED
            BY <5>1, <6>1, <2>3, OwedIsNoticed, Zenon
        <5>2. CASE ~closed
          <6>1. InterruptedOwed({l}) = <<"interrupted">>
            BY <5>2, <3>2, Zenon DEF InterruptedOwed
          <6> QED
            BY <5>2, <6>1, <2>3, OwedIsNoticed
        <5> QED
          BY <5>1, <5>2, Zenon
      <4>3. P!Interrupted
        BY <2>1, <3>1, <3>2, <4>1, <4>2, Zenon DEF P!Interrupted, Dark
      <4> QED
        BY <4>3, Zenon DEF P!PromiseNext
    <3>3. CASE cover # {l}
      <4>1. ~(cover # {} /\ cover \subseteq {l})
        BY <3>3, Zenon
      <4>2. InterruptedOwed({l}) = <<>> /\ (interrupted' <=> interrupted)
        BY <4>1, <2>3, Zenon DEF InterruptedOwed, Emptied
      <4>3. UNCHANGED noticed
        BY <4>2, <2>3, OwedIsNoticed, Zenon
      <4>4. (cover' = {} <=> cover = {}) /\ (Dark' <=> Dark)
        BY <2>1, <2>3, <3>1, <4>1, Zenon DEF Dark
      <4> QED
        BY <2>1, <4>2, <4>3, <4>4, Zenon DEF P!PromiseVars, Dark
    <3> QED
      BY <3>2, <3>3, Zenon
  <2> QED
    BY <1>13, <2>2, <2>3, Zenon DEF ForwardEnds
<1>16. CASE Close
  <2>1. P!Closes
    BY <1>16, Zenon DEF Close, P!Closes, cov, queues, links
  <2> QED
    BY <2>1, Zenon DEF P!PromiseNext
<1>20. CASE SubscribeRound \/ FirstAttached \/ AddToPool \/ CloseEnds
  <2>1. UNCHANGED <<poolLink, closed>> /\ (End \/ (UNCHANGED cov /\ UNCHANGED ended /\ UNCHANGED queues))
    BY <1>20, Zenon DEF SubscribeRound, FirstAttached, AddToPool, CloseEnds
  <2> QED
    BY <2>1, <1>e, QuietIsUnseen, Zenon DEF cov, queues
<1>21. CASE Unsubscribe
  BY <1>21, <1>e, Zenon DEF Unsubscribe
<1>22. ASSUME NEW l \in Link, NEW w \in Who, Replay(l) \/ AttachBegins(l, w) \/ AttachAnswered(l, w) \/ Forward(l)
       PROVE  UNCHANGED P!PromiseVars
  <2>1. UNCHANGED <<poolLink, cover, interrupted, ended, noticed, closed>>
    BY <1>22, Zenon DEF Replay, AttachBegins, AttachAnswered, Forward, cov, queues
  <2> QED
    BY <2>1, QuietIsUnseen, Zenon
<1>23. CASE AttachLate \/ OpenTakes \/ OpenPasses \/ Reads \/ UNCHANGED pvars
  <2>1. UNCHANGED <<poolLink, cover, interrupted, ended, noticed, closed>>
    BY <1>23, Zenon DEF AttachLate, OpenTakes, OpenPasses, Reads, pvars, links, cov, queues
  <2> QED
    BY <2>1, QuietIsUnseen, Zenon
<1>24. "round" \in Who
  BY Zenon DEF Who
<1> QED
  BY <1>1, <1>3, <1>3a, <1>4, <1>11, <1>13, <1>16, <1>20, <1>21, <1>22, <1>23, <1>24, Zenon DEF PNext, Progress

\* The subscription of a pool implements the promise its documentation makes, for
\* any number of links, queues and attaches under way (pool/pubsub.go, and the
\* comments of Delivery in pool/delivery.go).
THEOREM PromiseKept == PSpec => Promise
<1>1. PInit => P!PromiseInit
  <2> SUFFICES ASSUME PInit PROVE P!PromiseInit
    BY Zenon
  <2>1. cover = {} /\ interrupted = FALSE /\ ended = FALSE /\ closed = FALSE /\ noticed = "none"
    BY Zenon DEF PInit
  <2> QED
    BY <2>1, Zenon DEF P!PromiseInit
<1> QED
  BY <1>1, CoverInit, CoverStep, PromiseStep, PTL DEF PSpec, Promise, P!Promise
-----------------------------------------------------------------------------
\* Why no link is forgotten: a link attached or being attached to was asked, one
\* of the first round is asked or about to be, and so is, once Subscribe returned,
\* a replayed link that is up; the replay finds the subscription in the pool.
AskedInv ==
    /\ ~ended => onLinks \union attaching \subseteq asked
    /\ ~ended /\ subAt \in {"round", "add", "late"} => \A l \in round : attempt[l]["round"] = "begin" \/ l \in asked
    /\ ~ended /\ subAt = "held" =>
          \A l \in replayed : poolLink[l] = "up" => l \in asked \/ \E w \in Who : attempt[l][w] = "begin"
    /\ ~ended /\ subAt \in {"late", "held"} => inPool
    /\ replayed \subseteq Link /\ round \subseteq Link
    /\ \A l \in replayed : poolLink[l] # "off"

\* The initial states satisfy the invariant.
LEMMA AskedInit == PInit => AskedInv
<1> SUFFICES ASSUME PInit PROVE AskedInv
  BY Zenon
<1>1. /\ attempt = [l \in Link |-> [w \in Who |-> "none"]] /\ subAt = "idle"
      /\ onLinks = {} /\ replayed = {} /\ round = {}
  BY Zenon DEF PInit
<1>2. attaching = {}
  BY <1>1, Zenon DEF attaching
<1> QED
  BY <1>1, <1>2, Zenon DEF AskedInv

\* end leaves nothing to ask for.
LEMMA EndAsks ==
  ASSUME AskedInv, End, UNCHANGED <<poolLink, replayed>>
  PROVE  AskedInv'
<1>1. ended' = TRUE /\ round' = {}
  BY Zenon DEF End
<1> QED
  BY <1>1, Zenon DEF AskedInv

\* A step of the links and attaches, which asks the links it begins with.
LEMMA AttachAsks ==
  ASSUME CoverInv, AskedInv, UNCHANGED <<replayed, subAt, round, ended, inPool>>, asked \subseteq asked',
         \A l \in Link : /\ poolLink'[l] = "off" => poolLink[l] = "off"
                         /\ poolLink'[l] = "up" => poolLink[l] = "up" \/ l \notin replayed,
         ~ended => onLinks' \union attaching' \subseteq asked',
         \A l \in Link, w \in Who : attempt[l][w] = "begin" => attempt'[l][w] = "begin" \/ l \in asked' \/ ended
  PROVE  AskedInv'
<1>w. "round" \in Who
  BY Zenon DEF Who
<1>1. (~ended /\ subAt \in {"round", "add", "late"} => \A l \in round : attempt[l]["round"] = "begin" \/ l \in asked)'
  BY <1>w, Zenon DEF AskedInv
<1>2. (~ended /\ subAt = "held" =>
          \A l \in replayed : poolLink[l] = "up" => l \in asked \/ \E w \in Who : attempt[l][w] = "begin")'
  <2> SUFFICES ASSUME ~ended, subAt = "held", NEW l \in replayed, poolLink'[l] = "up", l \notin asked'
               PROVE  \E w \in Who : attempt'[l][w] = "begin"
    BY Zenon
  <2>1. l \in Link /\ poolLink[l] = "up" /\ l \notin asked
    BY Zenon DEF AskedInv
  <2>2. PICK w \in Who : attempt[l][w] = "begin"
    BY <2>1, Zenon DEF AskedInv
  <2> QED
    BY <2>1, <2>2, Zenon
<1>3. (\A l \in replayed : poolLink[l] # "off")'
  BY Zenon DEF AskedInv
<1> QED
  BY <1>1, <1>2, <1>3, Zenon DEF AskedInv

\* Every step keeps the invariant.
LEMMA AskedStep == CoverInv /\ AskedInv /\ [PNext]_pvars => AskedInv'
<1> SUFFICES ASSUME CoverInv, AskedInv, [PNext]_pvars PROVE AskedInv'
  BY Zenon
<1>t. /\ attempt \in [Link -> [Who -> Stages]] /\ poolLink \in [Link -> {"off", "up", "failed", "done", "gone"}]
      /\ onLinks \subseteq Link
  BY Zenon DEF CoverInv, CoverType
<1>a. ~ended => onLinks \union attaching \subseteq asked
  BY Zenon DEF AskedInv
<1>w. "round" \in Who /\ "late" \in Who /\ "replay" \in Who
  BY Zenon DEF Who
<1>1. ASSUME NEW l \in Link, LinkUp(l) \/ LinkErr(l) \/ LinkClosed(l) \/ LinkGone(l) PROVE AskedInv'
  <2>1. UNCHANGED <<replayed, subAt, round, ended, inPool, asked, onLinks, attempt>>
    BY <1>1, Zenon DEF LinkUp, LinkErr, LinkClosed, LinkGone, cov
  <2>2. \/ poolLink[l] = "off" /\ poolLink' = [poolLink EXCEPT ![l] = "up"]
        \/ poolLink[l] = "up" /\ poolLink' = [poolLink EXCEPT ![l] = "failed"]
        \/ poolLink[l] = "failed" /\ poolLink' = [poolLink EXCEPT ![l] = "done"]
        \/ poolLink[l] = "done" /\ poolLink' = [poolLink EXCEPT ![l] = "gone"]
    BY <1>1, Zenon DEF LinkUp, LinkErr, LinkClosed, LinkGone
  <2>3. \A k \in Link : /\ poolLink'[k] = "off" => poolLink[k] = "off"
                        /\ poolLink'[k] = "up" => poolLink[k] = "up" \/ k \notin replayed
    BY <2>2, <1>t, Zenon DEF AskedInv
  <2>4. attaching' = attaching
    BY <2>1, Zenon DEF attaching
  <2> QED
    BY <2>1, <2>3, <2>4, <1>a, AttachAsks, Zenon
<1>2. ASSUME NEW l \in Link, Replay(l) PROVE AskedInv'
  <2>1. /\ poolLink[l] # "off" /\ replayed' = replayed \union {l}
        /\ UNCHANGED <<poolLink, asked, subAt, round, onLinks, ended, inPool>>
    BY <1>2, <1>t, Zenon DEF Replay, cov, Links
  <2>2. \/ inPool /\ attempt' = [attempt EXCEPT ![l]["replay"] = "begin"]
        \/ ~inPool /\ attempt' = attempt
    BY <1>2, Zenon DEF Replay
  <2>3. attaching' \subseteq attaching
    BY <2>2, <1>t DEF attaching
  <2>4. \A k \in Link, w \in Who : attempt[k][w] = "begin" => attempt'[k][w] = "begin"
    BY <2>2, <1>t
  <2>5. ASSUME ~ended, subAt = "held", NEW k \in replayed', poolLink[k] = "up", k \notin asked
        PROVE  \E w \in Who : attempt'[k][w] = "begin"
    <3>1. CASE k = l
      <4>1. inPool
        BY <2>5, Zenon DEF AskedInv
      <4> QED
        BY <4>1, <3>1, <2>2, <1>t, <1>w, Zenon
    <3>2. CASE k # l
      <4>1. k \in replayed /\ k \in Link
        BY <3>2, <2>1, <2>5, Zenon DEF AskedInv
      <4>2. PICK w \in Who : attempt[k][w] = "begin"
        BY <4>1, <2>5, Zenon DEF AskedInv
      <4> QED
        BY <4>1, <4>2, <2>4, Zenon
    <3> QED
      BY <3>1, <3>2, Zenon
  <2> QED
    BY <2>1, <2>3, <2>4, <2>5, <1>w, Zenon DEF AskedInv
<1>5. CASE SubscribeRound
  <2>1. CASE End /\ UNCHANGED <<poolLink, replayed>>
    BY <2>1, EndAsks, Zenon
  <2>2. CASE /\ round' = Links /\ subAt' = "round" /\ UNCHANGED <<poolLink, replayed, onLinks, asked, ended, inPool>>
             /\ attempt' = [l \in Link |-> IF l \in Links THEN [attempt[l] EXCEPT !["round"] = "begin"] ELSE attempt[l]]
    <3>1. \A l \in Links : l \in Link /\ attempt'[l]["round"] = "begin"
      BY <2>2, <1>t, <1>w, Zenon DEF Links
    <3>2. attaching' \subseteq attaching
      BY <2>2, <1>t, Zenon DEF attaching
    <3> QED
      BY <2>2, <3>1, <3>2, Zenon DEF AskedInv
  <2> QED
    BY <1>5, <2>1, <2>2, Zenon DEF SubscribeRound, cov
<1>6. CASE FirstAttached
  <2>1. /\ attempt' = [l \in Link |-> [attempt[l] EXCEPT !["round"] = IF @ \in {"ok", "err"} THEN "none" ELSE @]]
        /\ UNCHANGED <<poolLink, replayed, inPool>> /\ subAt = "round"
        /\ End \/ (subAt' = "add" /\ UNCHANGED <<onLinks, asked, ended, round>>)
    BY <1>6, Zenon DEF FirstAttached, cov
  <2>2. attaching' \subseteq attaching
    BY <2>1, <1>t, Zenon DEF attaching
  <2>3. \A k \in Link : attempt[k]["round"] = "begin" => attempt'[k]["round"] = "begin"
    BY <2>1, <1>t, <1>w, Zenon
  <2> QED
    BY <2>1, <2>2, <2>3, EndAsks, Zenon DEF AskedInv
<1>7. CASE AddToPool
  <2>1. /\ UNCHANGED <<poolLink, replayed, attempt>> /\ subAt = "add"
        /\ End \/ (inPool' = TRUE /\ subAt' = "late" /\ UNCHANGED <<onLinks, asked, ended, round>>)
    BY <1>7, Zenon DEF AddToPool, cov
  <2>2. attaching' = attaching
    BY <2>1, Zenon DEF attaching
  <2> QED
    BY <2>1, <2>2, EndAsks, Zenon DEF AskedInv
<1>8. CASE AttachLate
  <2>1. /\ attempt' = [l \in Link |-> IF l \in Links \ round THEN [attempt[l] EXCEPT !["late"] = "begin"] ELSE attempt[l]]
        /\ UNCHANGED <<poolLink, replayed, asked, onLinks, ended, inPool>>
        /\ subAt = "late" /\ subAt' = "held" /\ round' = {}
    BY <1>8, Zenon DEF AttachLate, links, cov
  <2>2. attaching' \subseteq attaching
    BY <2>1, <1>t, Zenon DEF attaching
  <2>3. ASSUME ~ended, NEW l \in replayed, poolLink[l] = "up", l \notin asked
        PROVE  \E w \in Who : attempt'[l][w] = "begin"
    <3>1. l \in Links /\ l \in Link
      BY <2>3, Zenon DEF Links, AskedInv
    <3>2. CASE l \in round
      <4>1. attempt[l]["round"] = "begin"
        BY <3>2, <2>1, <2>3, Zenon DEF AskedInv
      <4> QED
        BY <4>1, <3>1, <3>2, <2>1, <1>w, Zenon
    <3>3. CASE l \notin round
      <4>1. attempt'[l]["late"] = "begin"
        BY <3>1, <3>3, <2>1, <1>t, <1>w, Zenon
      <4> QED
        BY <4>1, <1>w, Zenon
    <3> QED
      BY <3>2, <3>3, Zenon
  <2> QED
    BY <2>1, <2>2, <2>3, Zenon DEF AskedInv
<1>9. ASSUME NEW l \in Link, NEW w \in Who, AttachBegins(l, w) PROVE AskedInv'
  <2>1. UNCHANGED <<poolLink, replayed, subAt, round, onLinks, ended, inPool>>
    BY <1>9, Zenon DEF AttachBegins, cov
  <2>2. CASE (ended \/ l \in onLinks \union attaching) /\ Results(l, w, "ok") /\ asked' = asked
    <3>1. attaching' \subseteq attaching
      BY <2>2, <1>t, Zenon DEF attaching, Results, Attempts
    <3>2. \A k \in Link, v \in Who : attempt[k][v] = "begin" => attempt'[k][v] = "begin" \/ k \in asked' \/ ended
      BY <2>2, <1>t, <1>a, Zenon DEF Results, Attempts
    <3> QED
      BY <2>1, <2>2, <3>1, <3>2, <1>a, AttachAsks, Zenon
  <2>3. CASE Attempts(l, w, "asking") /\ asked' = asked \union {l}
    <3>1. attaching' \subseteq attaching \union {l}
      BY <2>3, <1>t, Zenon DEF attaching, Attempts
    <3>2. \A k \in Link, v \in Who : attempt[k][v] = "begin" => attempt'[k][v] = "begin" \/ k \in asked'
      BY <2>3, <1>t, Zenon DEF Attempts
    <3> QED
      BY <2>1, <2>3, <3>1, <3>2, <1>a, AttachAsks, Zenon
  <2> QED
    BY <1>9, <2>2, <2>3, Zenon DEF AttachBegins
<1>10. ASSUME NEW l \in Link, NEW w \in Who, AttachAnswered(l, w) \/ AttachCovers(l, w) PROVE AskedInv'
  <2>1. UNCHANGED <<poolLink, replayed, subAt, round, ended, inPool, asked>> /\ attempt[l][w] \in {"asking", "accepted"}
    BY <1>10, Zenon DEF AttachAnswered, AttachCovers
  <2>2. PICK to \in Stages : attempt' = [attempt EXCEPT ![l][w] = to]
    BY <1>10, Zenon DEF AttachAnswered, AttachCovers, Results, Attempts, Stages
  <2>3. l \in attaching
    BY <2>1, Zenon DEF attaching
  <2>4. onLinks' \subseteq onLinks \union {l}
    BY <1>10, Zenon DEF AttachAnswered, AttachCovers, cov
  <2>5. attaching' \subseteq attaching
    BY <2>2, <2>3, <1>t, Zenon DEF attaching
  <2>6. \A k \in Link, v \in Who : attempt[k][v] = "begin" => attempt'[k][v] = "begin"
    BY <2>1, <2>2, <1>t, Zenon
  <2>7. ~ended => onLinks' \union attaching' \subseteq asked'
    BY <2>1, <2>3, <2>4, <2>5, <1>a, Zenon
  <2> QED
    BY <2>1, <2>6, <2>7, AttachAsks, Zenon
<1>12. ASSUME NEW l \in Link, Forward(l) \/ ForwardEnds(l) PROVE AskedInv'
  <2>1. UNCHANGED <<poolLink, replayed, subAt, round, ended, inPool, asked, attempt>> /\ onLinks' \subseteq onLinks
    BY <1>12, Zenon DEF Forward, ForwardEnds, cov
  <2>2. attaching' = attaching
    BY <2>1, Zenon DEF attaching
  <2> QED
    BY <2>1, <2>2, <1>a, AttachAsks, Zenon
<1>14. CASE OpenTakes \/ OpenPasses \/ Reads \/ Close \/ UNCHANGED pvars
  <2>1. UNCHANGED <<poolLink, replayed, subAt, round, ended, inPool, asked, attempt, onLinks>>
    BY <1>14, Zenon DEF OpenTakes, OpenPasses, Reads, Close, pvars, links, cov
  <2>2. attaching' = attaching
    BY <2>1, Zenon DEF attaching
  <2> QED
    BY <2>1, <2>2, <1>a, AttachAsks, Zenon
<1>15. CASE Unsubscribe
  BY <1>15, EndAsks, Zenon DEF Unsubscribe
<1>17. CASE CloseEnds
  <2>1. UNCHANGED <<poolLink, replayed>> /\ (End \/ (ended /\ UNCHANGED <<ended, round>>))
    BY <1>17, Zenon DEF CloseEnds
  <2> QED
    BY <2>1, EndAsks DEF AskedInv
<1> QED
  BY <1>1, <1>2, <1>5, <1>6, <1>7, <1>8, <1>9, <1>10, <1>12, <1>14, <1>15, <1>17, Zenon DEF PNext, Progress

\* subscribe, addSubscription and replay: whichever of Subscribe and a link's
\* coming up is first, one of them asks the link, for any number of links.
THEOREM LinksRemembered == PSpec => []NoLinkForgotten
<1>1. CoverInv /\ AskedInv => NoLinkForgotten
  BY Zenon DEF AskedInv, NoLinkForgotten
<1> QED
  BY <1>1, CoverInit, CoverStep, AskedInit, AskedStep, PTL DEF PSpec
-----------------------------------------------------------------------------
\* The inductive invariant behind EndsWithPool: a Subscribe that failed ended its
\* subscription, one that goes on left it to the pool, and every link of the
\* first round has an attempt, whose result firstAttached reads.
RestInv ==
    /\ subAt \in {"idle", "round", "add", "late", "held", "none"} /\ round \subseteq Link
    /\ subAt = "none" => ended
    /\ subAt \in {"late", "held"} => inPool \/ ended
    /\ subAt = "round" => \A l \in round : attempt[l]["round"] # "none"

\* A step that leaves subscribe, the round and the pool's list alone.
LEMMA RestQuiet ==
    ASSUME RestInv, UNCHANGED <<subAt, round, inPool>>, ended => ended',
           subAt = "round" => \A l \in round : attempt'[l]["round"] # "none"
    PROVE  RestInv'
  BY Zenon DEF RestInv

\* Every step keeps it.
LEMMA RestStep == CoverInv /\ RestInv /\ [PNext]_pvars => RestInv'
<1> SUFFICES ASSUME CoverInv, RestInv, [PNext]_pvars PROVE RestInv'
  BY Zenon
<1>t. attempt \in [Link -> [Who -> Stages]] /\ round \subseteq Link
  BY Zenon DEF CoverInv, CoverType, RestInv
<1>w. "round" \in Who /\ "late" \in Who /\ "replay" \in Who /\ "late" # "round" /\ "replay" # "round"
  BY Zenon DEF Who
<1>1. ASSUME NEW l \in Link, LinkUp(l) \/ LinkErr(l) \/ LinkClosed(l) \/ LinkGone(l) \/ Forward(l) \/ ForwardEnds(l) PROVE RestInv'
  <2>1. UNCHANGED <<subAt, round, attempt, ended, inPool>>
    BY <1>1, Zenon DEF LinkUp, LinkErr, LinkClosed, LinkGone, Forward, ForwardEnds
  <2> QED
    BY <2>1, RestQuiet, Zenon DEF RestInv
<1>2. ASSUME NEW l \in Link, Replay(l) PROVE RestInv'
  <2>1. /\ UNCHANGED <<subAt, round, ended, inPool>>
        /\ attempt' = attempt \/ attempt' = [attempt EXCEPT ![l]["replay"] = "begin"]
    BY <1>2, Zenon DEF Replay
  <2>2. \A k \in Link : attempt'[k]["round"] = attempt[k]["round"]
    BY <2>1, <1>t, <1>w
  <2> QED
    BY <2>1, <2>2, <1>t, RestQuiet, Zenon DEF RestInv
<1>3. CASE SubscribeRound
  <2>1. CASE /\ round' = Links /\ subAt' = "round"
             /\ attempt' = [l \in Link |-> IF l \in Links THEN [attempt[l] EXCEPT !["round"] = "begin"] ELSE attempt[l]]
    <3>1. Links \subseteq Link /\ \A l \in Links : attempt'[l]["round"] = "begin"
      BY <2>1, <1>t, <1>w, Zenon DEF Links
    <3> QED
      BY <2>1, <3>1, Zenon DEF RestInv
  <2>2. CASE End /\ subAt' = "none"
    BY <2>2, Zenon DEF RestInv, End
  <2> QED
    BY <1>3, <2>1, <2>2, Zenon DEF SubscribeRound
<1>4. CASE FirstAttached
  <2>1. \/ subAt' = "add" /\ UNCHANGED round
        \/ End /\ subAt' = "none"
    BY <1>4, Zenon DEF FirstAttached
  <2> QED
    BY <2>1, <1>t, Zenon DEF RestInv, End
<1>5. CASE AddToPool
  <2>1. \/ inPool' = TRUE /\ subAt' = "late" /\ UNCHANGED round
        \/ End /\ subAt' = "none"
    BY <1>5, Zenon DEF AddToPool
  <2> QED
    BY <2>1, <1>t, Zenon DEF RestInv, End
<1>6. CASE AttachLate
  <2>1. subAt = "late" /\ subAt' = "held" /\ round' = {} /\ UNCHANGED <<inPool, ended>>
    BY <1>6, Zenon DEF AttachLate
  <2> QED
    BY <2>1, Zenon DEF RestInv
<1>7. ASSUME NEW l \in Link, NEW w \in Who, AttachBegins(l, w) \/ AttachAnswered(l, w) \/ AttachCovers(l, w)
      PROVE  RestInv'
  <2>1. UNCHANGED <<subAt, round, ended, inPool>>
    BY <1>7, Zenon DEF AttachBegins, AttachAnswered, AttachCovers
  <2>2. PICK to \in Stages : /\ attempt' = [attempt EXCEPT ![l][w] = to]
                             /\ w = "round" /\ subAt = "round" => to # "none"
    BY <1>7, Zenon DEF AttachBegins, AttachAnswered, AttachCovers, Results, Attempts, Stages
  <2>3. ASSUME subAt = "round", NEW k \in round PROVE attempt'[k]["round"] # "none"
    <3>1. k \in Link /\ attempt[k]["round"] # "none"
      BY <2>3, <1>t, Zenon DEF RestInv
    <3>2. CASE k = l /\ w = "round"
      BY <3>1, <3>2, <2>2, <2>3, <1>t, <1>w, Zenon
    <3>3. CASE ~(k = l /\ w = "round")
      BY <3>1, <3>3, <2>2, <1>t, <1>w, Zenon
    <3> QED
      BY <3>2, <3>3, Zenon
  <2> QED
    BY <2>1, <2>3, RestQuiet, Zenon
<1>8. CASE OpenTakes \/ OpenPasses \/ Reads \/ Close \/ UNCHANGED pvars
  <2>1. UNCHANGED <<subAt, round, attempt, ended, inPool>>
    BY <1>8, Zenon DEF OpenTakes, OpenPasses, Reads, Close, pvars
  <2> QED
    BY <2>1, RestQuiet, Zenon DEF RestInv
<1>9. CASE Unsubscribe
  BY <1>9, Zenon DEF Unsubscribe, End, RestInv
<1>10. CASE CloseEnds
  <2>1. UNCHANGED <<subAt, attempt>> /\ (End \/ (ended /\ UNCHANGED <<ended, round>>))
    BY <1>10, Zenon DEF CloseEnds
  <2> QED
    BY <2>1, <1>t, Zenon DEF End, RestInv
<1> QED
  BY <1>1, <1>2, <1>3, <1>4, <1>5, <1>6, <1>7, <1>8, <1>9, <1>10, Zenon DEF PNext, Progress

\* Close: whatever of Subscribe, the attaches and the replays it finds under way,
\* they all come to an end only with the subscription ended, for any number of
\* links.
THEOREM SubscriptionsEndWithPool == PSpec => []EndsWithPool
<1>1. PInit => RestInv
  BY Zenon DEF PInit, RestInv
<1>2. CoverInv /\ RestInv => EndsWithPool
  <2> SUFFICES ASSUME CoverInv, RestInv, closed, subAt # "idle", Resting, ~ended PROVE FALSE
    BY Zenon DEF EndsWithPool
  <2>1. subAt = "round"
    BY Zenon DEF RestInv, Resting
  <2>2. PICK l \in round : attempt[l]["round"] # "err"
    BY <2>1, Zenon DEF Resting
  <2>3. l \in Link /\ attempt[l]["round"] \in Stages /\ "round" \in Who
    BY Zenon DEF RestInv, CoverInv, CoverType, Who
  <2>4. attempt[l]["round"] \notin {"none", "ok", "begin", "asking", "accepted"}
    BY <2>1, <2>3, Zenon DEF RestInv, Resting
  <2> QED
    BY <2>2, <2>3, <2>4, Zenon DEF Stages
<1> QED
  BY <1>1, <1>2, CoverInit, CoverStep, RestStep, PTL DEF PSpec
-----------------------------------------------------------------------------
\* What is kept of a queue: its deliveries are no more than it holds, and after
\* the newest notice come only events.
Queue(ch) == ch \in Seq(Deliveries) /\ Len(ch) <= Buffer
Newest(ch) == \E i \in DOMAIN ch : ch[i] = "newest"
Plain(ch) == \A i \in DOMAIN ch : ch[i] = "event"
Ordered(ch) == \A i, j \in DOMAIN ch : i < j /\ ch[i] = "newest" => ch[j] = "event"

\* The inductive invariant: a delivery passes the queues in order, so what is
\* upstream of the newest notice is events alone, and giving up the oldest
\* delivery of a full queue for a notice never gives up the newest.
QueueInv ==
    /\ Queue(opening) /\ Queue(hand) /\ Queue(events) /\ Len(hand) <= 1
    /\ grouped \in BOOLEAN /\ taken \in BOOLEAN
    /\ ~grouped => opening = <<>> /\ hand = <<>>
    /\ Ordered(opening) /\ Ordered(events)
    /\ Newest(events) => Plain(hand) /\ Plain(opening)
    /\ Newest(hand) => Plain(opening)
    /\ (~ended /\ noticed # "none") => (taken \/ Newest(opening) \/ Newest(hand) \/ Newest(events))

\* A queue that is not full has room for one more.
LEMMA RoomLeft ==
  ASSUME NEW n \in Nat, n <= Buffer, n # Buffer
  PROVE  n + 1 <= Buffer
  BY BufferHolds

\* A queue told that a newer notice exists holds no newest one.
LEMMA OlderIs ==
  ASSUME NEW ch, Queue(ch)
  PROVE  Queue(Older(ch)) /\ Len(Older(ch)) = Len(ch) /\ ~Newest(Older(ch)) /\ Ordered(Older(ch))
<1>1. ch \in Seq(Deliveries) /\ Len(ch) \in Nat /\ DOMAIN ch = 1..Len(ch)
  BY DEF Queue
<1>2. \A i \in 1..Len(ch) : (IF ch[i] = "newest" THEN "older" ELSE ch[i]) \in Deliveries \ {"newest"}
  BY <1>1 DEF Deliveries
<1>3. Older(ch) = [i \in 1..Len(ch) |-> IF ch[i] = "newest" THEN "older" ELSE ch[i]]
  BY <1>1, Zenon DEF Older
<1>4. Older(ch) \in Seq(Deliveries) /\ Len(Older(ch)) = Len(ch) /\ DOMAIN Older(ch) = 1..Len(ch)
  BY <1>1, <1>2, <1>3
<1>5. \A i \in 1..Len(ch) : Older(ch)[i] # "newest"
  BY <1>2, <1>3, Zenon
<1> QED
  BY <1>4, <1>5, Zenon DEF Queue, Newest, Ordered

\* A delivery pushed on a queue without the newest notice.
LEMMA PushIs ==
  ASSUME NEW ch, NEW d \in Deliveries, Queue(ch), ~Newest(ch)
  PROVE  /\ Queue(push(ch, d)) /\ Ordered(push(ch, d))
         /\ Newest(push(ch, d)) <=> d = "newest"
<1> DEFINE rest == IF Len(ch) = Buffer THEN Tail(ch) ELSE ch
<1>1. ch \in Seq(Deliveries) /\ Len(ch) \in Nat /\ Len(ch) <= Buffer /\ DOMAIN ch = 1..Len(ch)
  BY DEF Queue
<1>a. ASSUME Len(ch) = Buffer
      PROVE  /\ rest \in Seq(Deliveries) /\ Len(rest) \in Nat /\ Len(rest) + 1 <= Buffer
             /\ \A i \in 1..Len(rest) : rest[i] # "newest"
  <2>1. Len(ch) \in Nat \ {0} /\ ch # <<>>
    BY <1>1, <1>a, BufferHolds, Zenon
  <2>2. /\ Tail(ch) \in Seq(Deliveries) /\ Len(Tail(ch)) = Len(ch) - 1
        /\ \A i \in 1..(Len(ch) - 1) : Tail(ch)[i] = ch[i + 1] /\ i + 1 \in 1..Len(ch)
    BY <1>1, <2>1
  <2>3. \A i \in 1..Len(Tail(ch)) : Tail(ch)[i] # "newest"
    BY <1>1, <2>1, <2>2, Zenon DEF Newest
  <2>4. Len(Tail(ch)) \in Nat /\ Len(Tail(ch)) + 1 <= Buffer
    BY <1>a, <2>1, <2>2
  <2> QED
    BY <1>a, <2>2, <2>3, <2>4, Zenon
<1>b. ASSUME Len(ch) # Buffer
      PROVE  /\ rest \in Seq(Deliveries) /\ Len(rest) \in Nat /\ Len(rest) + 1 <= Buffer
             /\ \A i \in 1..Len(rest) : rest[i] # "newest"
  <2>1. Len(ch) + 1 <= Buffer
    BY <1>1, <1>b, RoomLeft, Zenon
  <2>2. \A i \in 1..Len(ch) : ch[i] # "newest"
    BY <1>1, Zenon DEF Newest
  <2> QED
    BY <1>1, <1>b, <2>1, <2>2, Zenon
<1>2. /\ rest \in Seq(Deliveries) /\ Len(rest) \in Nat /\ Len(rest) + 1 <= Buffer
      /\ \A i \in 1..Len(rest) : rest[i] # "newest"
  BY <1>a, <1>b, Zenon
<1> HIDE DEF rest
<1>3. push(ch, d) = Append(rest, d)
  BY Zenon DEF push, rest
<1>4. /\ push(ch, d) \in Seq(Deliveries) /\ Len(push(ch, d)) = Len(rest) + 1
      /\ DOMAIN push(ch, d) = 1..(Len(rest) + 1)
      /\ \A i \in 1..Len(rest) : push(ch, d)[i] = rest[i]
      /\ push(ch, d)[Len(rest) + 1] = d
  BY <1>2, <1>3
<1>5. \A i \in 1..(Len(rest) + 1) : i = Len(rest) + 1 \/ i \in 1..Len(rest)
  BY <1>2
<1>6. Newest(push(ch, d)) <=> d = "newest"
  BY <1>2, <1>4, <1>5 DEF Newest
<1>7. Ordered(push(ch, d))
  BY <1>2, <1>4, <1>5 DEF Ordered
<1> QED
  BY <1>2, <1>4, <1>6, <1>7, Zenon DEF Queue

\* An event pushed on a queue never displaces the newest notice.
LEMMA QueuedIs ==
  ASSUME NEW ch, Queue(ch), Ordered(ch)
  PROVE  /\ Queue(queued(ch)) /\ Ordered(queued(ch))
         /\ Newest(queued(ch)) <=> Newest(ch)
         /\ Plain(ch) => Plain(queued(ch))
<1>1. ch \in Seq(Deliveries) /\ Len(ch) \in Nat /\ Len(ch) <= Buffer /\ DOMAIN ch = 1..Len(ch)
  BY DEF Queue
<1>2. CASE queued(ch) = ch
  BY <1>2, Zenon
<1>3. CASE Len(ch) # Buffer /\ queued(ch) = Append(ch, "event")
  <2>1. /\ queued(ch) \in Seq(Deliveries) /\ Len(queued(ch)) = Len(ch) + 1
        /\ DOMAIN queued(ch) = 1..(Len(ch) + 1)
        /\ \A i \in 1..Len(ch) : queued(ch)[i] = ch[i]
        /\ queued(ch)[Len(ch) + 1] = "event"
    BY <1>1, <1>3 DEF Deliveries
  <2>2. \A i \in 1..(Len(ch) + 1) : i = Len(ch) + 1 \/ i \in 1..Len(ch)
    BY <1>1
  <2>3. Queue(queued(ch))
    <3>1. Len(ch) + 1 <= Buffer
      BY <1>1, <1>3, RoomLeft, Zenon
    <3> QED
      BY <2>1, <3>1, Zenon DEF Queue
  <2>4. Newest(queued(ch)) <=> Newest(ch)
    BY <1>1, <2>1, <2>2 DEF Newest
  <2>5. Plain(ch) => Plain(queued(ch))
    BY <1>1, <2>1, <2>2, Zenon DEF Plain
  <2>6. Ordered(queued(ch))
    BY <1>1, <2>1, <2>2, Zenon DEF Ordered
  <2> QED
    BY <2>3, <2>4, <2>5, <2>6, Zenon
<1> QED
  BY <1>2, <1>3, Zenon DEF queued

\* What is left of a queue when its first delivery is taken.
LEMMA TailIs ==
  ASSUME NEW ch, Queue(ch), Ordered(ch), ch # <<>>
  PROVE  /\ Head(ch) \in Deliveries
         /\ Queue(Tail(ch)) /\ Ordered(Tail(ch))
         /\ Newest(ch) <=> (Head(ch) = "newest" \/ Newest(Tail(ch)))
         /\ Head(ch) = "newest" => Plain(Tail(ch))
         /\ Plain(ch) => Head(ch) = "event" /\ Plain(Tail(ch))
<1>1. ch \in Seq(Deliveries) /\ Len(ch) \in Nat \ {0} /\ Len(ch) <= Buffer /\ DOMAIN ch = 1..Len(ch)
  BY DEF Queue
<1>2. /\ Tail(ch) \in Seq(Deliveries) /\ Len(Tail(ch)) = Len(ch) - 1 /\ Head(ch) = ch[1] /\ Head(ch) \in Deliveries
      /\ DOMAIN Tail(ch) = 1..(Len(ch) - 1)
      /\ \A i \in 1..(Len(ch) - 1) : Tail(ch)[i] = ch[i + 1]
  BY <1>1
<1>3. \A i \in 1..Len(ch) : i = 1 \/ i - 1 \in 1..(Len(ch) - 1)
  BY <1>1
<1>4. \A i \in 1..(Len(ch) - 1) : i + 1 \in 1..Len(ch) /\ 1 < i + 1
  BY <1>1
<1>5. Queue(Tail(ch))
  BY <1>1, <1>2, BufferHolds DEF Queue
<1>6. Ordered(Tail(ch))
  BY <1>1, <1>2, <1>4 DEF Ordered
<1>7. Newest(ch) <=> (Head(ch) = "newest" \/ Newest(Tail(ch)))
  <2>1. ASSUME Newest(ch) PROVE Head(ch) = "newest" \/ Newest(Tail(ch))
    <3>1. PICK i \in 1..Len(ch) : ch[i] = "newest"
      BY <1>1, <2>1, Zenon DEF Newest
    <3>2. CASE i # 1
      <4>1. i - 1 \in 1..(Len(ch) - 1) /\ Tail(ch)[i - 1] = ch[i]
        BY <1>1, <1>2, <3>1, <3>2
      <4> QED
        BY <4>1, <3>1, <1>2, Zenon DEF Newest
    <3> QED
      BY <3>1, <3>2, <1>2, Zenon
  <2>2. ASSUME Head(ch) = "newest" \/ Newest(Tail(ch)) PROVE Newest(ch)
    BY <2>2, <1>1, <1>2, <1>4 DEF Newest
  <2> QED
    BY <2>1, <2>2, Zenon
<1>8. Head(ch) = "newest" => Plain(Tail(ch))
  BY <1>1, <1>2, <1>4 DEF Ordered, Plain
<1>9. Plain(ch) => Head(ch) = "event" /\ Plain(Tail(ch))
  BY <1>1, <1>2, <1>4 DEF Plain
<1> QED
  BY <1>2, <1>5, <1>6, <1>7, <1>8, <1>9, Zenon

\* The empty queue.
LEMMA EmptyIs == Queue(<<>>) /\ Plain(<<>>) /\ ~Newest(<<>>) /\ Ordered(<<>>) /\ Len(<<>>) = 0
  BY BufferHolds DEF Queue, Plain, Newest, Ordered, Deliveries

\* A queue of one delivery.
LEMMA OneIs ==
  ASSUME NEW d \in Deliveries
  PROVE  /\ Queue(<<d>>) /\ Len(<<d>>) = 1 /\ <<d>>[1] = d
         /\ Newest(<<d>>) <=> d = "newest"
         /\ Plain(<<d>>) <=> d = "event"
<1>1. DOMAIN <<d>> = {1} /\ <<d>>[1] = d /\ Len(<<d>>) = 1 /\ <<d>> \in Seq(Deliveries)
  OBVIOUS
<1> QED
  BY <1>1, BufferHolds DEF Queue, Newest, Plain

\* The initial states satisfy the invariant.
LEMMA QueueInit == PInit => QueueInv
<1> SUFFICES ASSUME PInit PROVE QueueInv
  BY Zenon
<1>1. opening = <<>> /\ hand = <<>> /\ events = <<>> /\ noticed = "none" /\ grouped \in BOOLEAN /\ taken = FALSE
  BY Zenon DEF PInit
<1>2. taken \in BOOLEAN
  BY <1>1, Zenon
<1>3. Len(hand) <= 1
  BY <1>1
<1>4. /\ Queue(opening) /\ Queue(hand) /\ Queue(events)
      /\ Ordered(opening) /\ Ordered(events)
      /\ ~Newest(events) /\ ~Newest(hand)
  BY <1>1, EmptyIs, Zenon
<1> QED
  BY <1>1, <1>2, <1>3, <1>4, Zenon DEF QueueInv

\* A step that leaves the queues alone and does not bring an ended subscription back.
LEMMA QueueQuiet ==
  ASSUME QueueInv, UNCHANGED queues, ended' = ended
  PROVE  QueueInv'
  BY Zenon DEF QueueInv, queues, Queue, Newest, Plain, Ordered

\* The subscription's end keeps the invariant.
LEMMA EndQueues == ASSUME QueueInv, End PROVE QueueInv'
<1>1. ended' /\ opening' = <<>> /\ hand' = <<>> /\ events' = <<>> /\ grouped' = grouped /\ taken' = FALSE
  BY Zenon DEF End
<1>2. taken' \in BOOLEAN
  BY <1>1, Zenon
<1>3. Len(hand') <= 1
  BY <1>1
<1>4. /\ Queue(opening') /\ Queue(hand') /\ Queue(events')
      /\ Ordered(opening') /\ Ordered(events')
      /\ ~Newest(events') /\ ~Newest(hand')
  BY <1>1, EmptyIs, Zenon
<1> QED
  BY <1>1, <1>2, <1>3, <1>4, Zenon DEF QueueInv, Queue, Newest, Plain, Ordered

\* The notices owed get in, the newest last.
LEMMA OweKeeps ==
  ASSUME QueueInv, NEW kinds, Owe(kinds), ended' = ended
  PROVE  QueueInv'
<1>q. CASE UNCHANGED queues
  BY <1>q, QueueQuiet, Zenon
<1>n. CASE ~UNCHANGED queues
  <2> DEFINE deliver(ch) == IF Len(kinds) = 1 THEN push(Older(ch), "newest")
                                              ELSE push(push(Older(ch), "older"), "newest")
  <2>1. ASSUME NEW ch, Queue(ch) PROVE Queue(deliver(ch)) /\ Ordered(deliver(ch)) /\ Newest(deliver(ch))
    <3>1. Queue(Older(ch)) /\ ~Newest(Older(ch))
      BY <2>1, OlderIs, Zenon
    <3>2. "older" \in Deliveries /\ "newest" \in Deliveries /\ "older" # "newest"
      BY Zenon DEF Deliveries
    <3>3. Queue(push(Older(ch), "older")) /\ ~Newest(push(Older(ch), "older"))
      BY <3>1, <3>2, PushIs, Zenon
    <3> QED
      BY <3>1, <3>2, <3>3, PushIs, Zenon
  <2>2. /\ opening' = (IF grouped THEN deliver(opening) ELSE opening)
        /\ hand' = Older(hand)
        /\ events' = (IF grouped THEN Older(events) ELSE deliver(events))
        /\ taken' = FALSE /\ grouped' = grouped
    BY <1>n, Zenon DEF Owe
  <2> HIDE DEF deliver
  <2>3. taken' \in BOOLEAN
    BY <2>2, Zenon
  <2>4. Queue(opening) /\ Queue(hand) /\ Queue(events) /\ Len(hand) <= 1 /\ grouped \in BOOLEAN /\ Ordered(opening)
    BY Zenon DEF QueueInv
  <2>5. Queue(hand') /\ Len(hand') = Len(hand) /\ ~Newest(hand')
    BY <2>2, <2>4, OlderIs, Zenon
  <2>6. Len(hand') <= 1
    BY <2>4, <2>5, Zenon
  <2>7. Queue(Older(events)) /\ ~Newest(Older(events)) /\ Ordered(Older(events))
    BY <2>4, OlderIs, Zenon
  <2>8. CASE grouped
    <3>1. Queue(opening') /\ Ordered(opening') /\ Newest(opening') /\ Queue(events') /\ ~Newest(events') /\ Ordered(events')
      BY <2>1, <2>2, <2>4, <2>7, <2>8, Zenon
    <3> QED
      BY <3>1, <2>2, <2>3, <2>5, <2>6, <2>8, <2>4, Zenon DEF QueueInv, Queue, Newest, Plain, Ordered
  <2>9. CASE ~grouped
    <3>1. opening = <<>> /\ hand = <<>>
      BY <2>9, Zenon DEF QueueInv
    <3>2. opening' = <<>> /\ Queue(events') /\ Ordered(events') /\ Newest(events')
      BY <3>1, <2>1, <2>2, <2>4, <2>9, Zenon
    <3>3. hand' = <<>>
      BY <2>5, <3>1, <2>2, EmptyIs DEF Queue
    <3> QED
      <4>1. Queue(opening') /\ Queue(hand') /\ Ordered(opening') /\ Plain(opening') /\ Plain(hand')
        BY <3>2, <3>3, EmptyIs, Zenon
      <4> QED
        BY <4>1, <3>2, <3>3, <2>2, <2>3, <2>6, <2>4, Zenon DEF QueueInv, Queue, Newest, Plain, Ordered
  <2> QED
    BY <2>8, <2>9, Zenon
<1> QED
  BY <1>q, <1>n, Zenon

\* Every step keeps the invariant.
LEMMA QueueStep == QueueInv /\ [PNext]_pvars => QueueInv'
<1> SUFFICES ASSUME QueueInv, [PNext]_pvars PROVE QueueInv'
  BY Zenon
<1>t. /\ Queue(opening) /\ Queue(hand) /\ Queue(events) /\ Len(hand) <= 1
      /\ grouped \in BOOLEAN /\ taken \in BOOLEAN /\ Ordered(opening) /\ Ordered(events)
  BY Zenon DEF QueueInv
<1>1. ASSUME NEW l \in Link, LinkUp(l) \/ Replay(l) \/ LinkGone(l) \/ LinkErr(l) \/ LinkClosed(l) PROVE QueueInv'
  BY <1>1, QueueQuiet, Zenon DEF LinkUp, Replay, LinkGone, LinkErr, LinkClosed
<1>2. CASE SubscribeRound \/ FirstAttached \/ AddToPool \/ AttachLate \/ Close \/ CloseEnds \/ Unsubscribe
  <2>1. End \/ (UNCHANGED queues /\ ended' = ended)
    BY <1>2, Zenon DEF SubscribeRound, FirstAttached, AddToPool, AttachLate, Close, CloseEnds, Unsubscribe
  <2> QED
    BY <2>1, EndQueues, QueueQuiet, Zenon
<1>3. ASSUME NEW l \in Link, NEW w \in Who, AttachBegins(l, w) \/ AttachAnswered(l, w) PROVE QueueInv'
  BY <1>3, QueueQuiet, Zenon DEF AttachBegins, AttachAnswered
<1>4. ASSUME NEW l \in Link, NEW w \in Who, AttachCovers(l, w) PROVE QueueInv'
  <2>1. ended' = ended /\ (UNCHANGED queues \/ \E kinds : Owe(kinds))
    BY <1>4, Zenon DEF AttachCovers
  <2> QED
    BY <2>1, OweKeeps, QueueQuiet, Zenon
<1>5. ASSUME NEW l \in Link, ForwardEnds(l) PROVE QueueInv'
  <2>1. ended' = ended /\ (UNCHANGED queues \/ \E kinds : Owe(kinds))
    BY <1>5, Zenon DEF ForwardEnds
  <2> QED
    BY <2>1, OweKeeps, QueueQuiet, Zenon
<1>6. ASSUME NEW l \in Link, Forward(l) PROVE QueueInv'
  <2>1. UNCHANGED <<ended, grouped, hand, noticed, taken>>
    BY <1>6, Zenon DEF Forward
  <2>2. CASE grouped /\ opening' = queued(opening) /\ events' = events
    <3>1. /\ Queue(opening') /\ Ordered(opening') /\ (Newest(opening) => Newest(opening'))
          /\ Plain(opening) => Plain(opening')
      BY <2>2, <1>t, QueuedIs, Zenon
    <3> QED
      BY <3>1, <2>1, <2>2, <1>t, ZenonT(40) DEF QueueInv, Queue, Newest, Plain, Ordered
  <2>3. CASE events' = queued(events) /\ opening' = opening
    <3>1. Queue(events') /\ Ordered(events') /\ (Newest(events) <=> Newest(events'))
      BY <2>3, <1>t, QueuedIs, Zenon
    <3> QED
      BY <3>1, <2>1, <2>3, <1>t, Zenon DEF QueueInv, Queue, Newest, Plain, Ordered
  <2>4. CASE UNCHANGED <<opening, events>>
    BY <2>1, <2>4, QueueQuiet, Zenon DEF queues
  <2> QED
    BY <1>6, <2>2, <2>3, <2>4, Zenon DEF Forward
<1>7. CASE OpenTakes
  <2>1. /\ opening # <<>> /\ hand = <<>> /\ hand' = <<Head(opening)>> /\ opening' = Tail(opening)
        /\ UNCHANGED <<ended, grouped, events, noticed, taken>>
    BY <1>7, Zenon DEF OpenTakes
  <2>2. /\ Head(opening) \in Deliveries
        /\ Queue(opening') /\ Ordered(opening')
        /\ Newest(opening) <=> (Head(opening) = "newest" \/ Newest(opening'))
        /\ Head(opening) = "newest" => Plain(opening')
        /\ Plain(opening) => Head(opening) = "event" /\ Plain(opening')
    BY <2>1, <1>t, TailIs, Zenon
  <2>3. /\ Queue(hand') /\ Len(hand') = 1
        /\ Newest(hand') <=> Head(opening) = "newest"
        /\ Plain(hand') <=> Head(opening) = "event"
    BY <2>1, <2>2, OneIs, Zenon
  <2>4. Len(hand') <= 1
    BY <2>3
  <2>5. ~Newest(hand) /\ grouped
    BY <2>1, EmptyIs, Zenon DEF QueueInv
  <2>6. Newest(events) => Plain(hand') /\ Plain(opening')
    BY <2>2, <2>3, Zenon DEF QueueInv
  <2>7. Newest(hand') => Plain(opening')
    BY <2>2, <2>3, Zenon
  <2>8. (~ended /\ noticed # "none") => (taken \/ Newest(opening') \/ Newest(hand') \/ Newest(events))
    BY <2>2, <2>3, <2>5, Zenon DEF QueueInv
  <2>9. grouped' /\ grouped' \in BOOLEAN /\ taken' \in BOOLEAN /\ Queue(events') /\ Ordered(events')
    BY <2>1, <2>5, <1>t, Zenon
  <2> QED
    BY <2>1, <2>2, <2>3, <2>4, <2>6, <2>7, <2>8, <2>9, Zenon DEF QueueInv, Queue, Newest, Plain, Ordered
<1>8. CASE OpenPasses
  <2>1. /\ hand # <<>> /\ hand' = <<>>
        /\ events' = (IF ended THEN events ELSE IF hand[1] = "event" THEN queued(events) ELSE push(events, hand[1]))
        /\ UNCHANGED <<ended, grouped, opening, noticed, taken>>
    BY <1>8, Zenon DEF OpenPasses
  <2>2. /\ Queue(hand') /\ ~Newest(hand') /\ Plain(hand')
    BY <2>1, EmptyIs, Zenon
  <2>3. Len(hand') <= 1
    BY <2>1
  <2>4. hand[1] \in Deliveries /\ DOMAIN hand = {1}
    <3>1. hand \in Seq(Deliveries) /\ Len(hand) \in Nat /\ DOMAIN hand = 1..Len(hand)
      BY <1>t DEF Queue
    <3>2. Len(hand) = 1
      BY <3>1, <2>1, <1>t
    <3>3. 1..1 = {1} /\ 1 \in 1..1
      OBVIOUS
    <3>4. \A i \in 1..Len(hand) : hand[i] \in Deliveries
      BY <3>1
    <3> QED
      BY <3>1, <3>2, <3>3, <3>4, Zenon
  <2>5. (Newest(hand) <=> hand[1] = "newest") /\ (Plain(hand) <=> hand[1] = "event")
    BY <2>4, Zenon DEF Newest, Plain
  <2>6. CASE ended
    BY <2>6, <2>1, <2>2, <2>3, <1>t, Zenon DEF QueueInv, Queue, Newest, Plain, Ordered
  <2>7. CASE ~ended /\ hand[1] = "event"
    <3>1. Queue(events') /\ Ordered(events') /\ (Newest(events) <=> Newest(events'))
      BY <2>1, <2>7, <1>t, QueuedIs, Zenon
    <3>2. ~Newest(hand)
      BY <2>5, <2>7, Zenon
    <3> QED
      BY <3>1, <3>2, <2>1, <2>2, <2>3, <1>t, ZenonT(40) DEF QueueInv, Queue, Newest, Plain, Ordered
  <2>8. CASE ~ended /\ hand[1] # "event"
    <3>1. ~Newest(events)
      BY <2>5, <2>8, Zenon DEF QueueInv
    <3>2. Queue(events') /\ Ordered(events') /\ (Newest(events') <=> Newest(hand))
      BY <2>1, <2>4, <2>5, <2>8, <3>1, <1>t, PushIs, Zenon
    <3> QED
      BY <3>1, <3>2, <2>1, <2>2, <2>3, <1>t, ZenonT(40) DEF QueueInv, Queue, Newest, Plain, Ordered
  <2> QED
    BY <2>6, <2>7, <2>8, Zenon
<1>9. CASE Reads
  <2>1. /\ events # <<>> /\ events' = Tail(events)
        /\ taken' = (taken \/ Head(events) = "newest")
        /\ UNCHANGED <<ended, grouped, opening, hand, noticed>>
    BY <1>9, Zenon DEF Reads
  <2>2. /\ Queue(events') /\ Ordered(events')
        /\ Newest(events) <=> (Head(events) = "newest" \/ Newest(events'))
    BY <2>1, <1>t, TailIs, Zenon
  <2>3. taken' \in BOOLEAN
    BY <2>1, Zenon
  <2> QED
    BY <2>1, <2>2, <2>3, <1>t, Zenon DEF QueueInv, Queue, Newest, Plain, Ordered
<1>10. CASE UNCHANGED pvars
  BY <1>10, QueueQuiet, Zenon DEF pvars
<1> QED
  BY <1>1, <1>2, <1>3, <1>4, <1>5, <1>6, <1>7, <1>8, <1>9, <1>10, Zenon DEF PNext, Progress

\* The newest notice always gets in, for any number of links and any length of
\* the queues: it waits in one of them, or the reader took it.
THEOREM NoticesGetIn == PSpec => []NewestNoticeKept
<1>1. QueueInv => NewestNoticeKept
  BY Zenon DEF QueueInv, NewestNoticeKept, Newest
<1> QED
  BY <1>1, QueueInit, QueueStep, PTL DEF PSpec
-----------------------------------------------------------------------------
GroupRec == [joined : Nat \ {0}, policy : {"none", "off", "preferred", "required"}, epochs : SUBSET Nat,
             unknown : Int, since : Int, spent : Int, backoff : Int, wake : Nat]

PullRec == [by : {"join", "publish", "repull", "open"}, g : GroupRec, id : Nat \union {Unissued}, asked : Nat]

KeyringType ==
  /\ now \in Nat /\ joins \in Nat
  /\ group = NoGroup \/ group \in GroupRec
  /\ pulling = NoPull \/ pulling \in PullRec

\* A pull works on the group it was asked for until that one is left, and no
\* other is joined meanwhile; a closed keyring holds none.
KeyringInv ==
  /\ KeyringType
  /\ shut => group = NoGroup
  /\ pulling # NoPull /\ group # NoGroup =>
       pulling.by # "join" /\ group.joined = pulling.g.joined /\ group.wake = pulling.g.wake
  /\ RepullPending /\ NoEarlyExpiry

\* A group and a pull are not the marks that there is none.
LEMMA NotHeld ==
  /\ \A g \in GroupRec : g # NoGroup /\ g.joined \in Nat \ {0} /\ g.wake \in Nat /\ g.epochs \subseteq Nat
  /\ \A p \in PullRec : p # NoPull
<1>1. \A g \in GroupRec : g.joined \in Nat \ {0} /\ g.wake \in Nat /\ g.epochs \subseteq Nat
  BY Zenon DEF GroupRec
<1>2. NoGroup.joined = 0
  BY Zenon DEF NoGroup
<1>3. \A p \in PullRec : p.by \in {"join", "publish", "repull", "open"}
  BY Zenon DEF PullRec
<1>4. NoPull.by = "none"
  BY Zenon DEF NoPull
<1> QED
  BY <1>1, <1>2, <1>3, <1>4, Zenon

\* The lesser and the greater of two integers.
LEMMA MinMax ==
  ASSUME NEW a \in Int, NEW b \in Int
  PROVE  Min({a, b}) \in Int /\ Max({a, b}) \in Int
BY DEF Min, Max

\* A group stays a group whatever its timer, its epochs and its back-off become.
LEMMA Kept ==
  ASSUME NEW g \in GroupRec
  PROVE  /\ \A w \in Nat : [g EXCEPT !.wake = w] \in GroupRec
         /\ \A e \in SUBSET Nat : [g EXCEPT !.epochs = e] \in GroupRec
         /\ \A b \in Int : [g EXCEPT !.backoff = b] \in GroupRec
BY Zenon DEF GroupRec

\* Expiry only drops epochs.
LEMMA LiveSmall == \A epochs \in SUBSET Nat : live(epochs) \in SUBSET Nat
BY Zenon DEF live

\* What a timer set again makes of a group that is held, or is not.
LEMMA WakeInKeeps ==
  ASSUME NEW g \in GroupRec, NEW delay, wakeIn(g, delay), group = NoGroup \/ group \in GroupRec,
         shut => group = NoGroup
  PROVE  /\ ~IsHeld(g) => group' = group
         /\ IsHeld(g) => /\ group' \in GroupRec /\ OwnTimer(group)' # {}
<1>1. CASE shut
  BY <1>1, Zenon DEF wakeIn, IsHeld
<1>2. CASE ~shut
  <2>1. timers' = (timers \ OwnTimer(g)) \union {[of |-> g.joined, wake |-> g.wake + 1, at |-> now + delay]}
        /\ group' = IF IsHeld(g) THEN [g EXCEPT !.wake = g.wake + 1] ELSE group
    BY <1>2, Zenon DEF wakeIn
  <2>2. g.wake + 1 \in Nat
    BY NotHeld
  <2>3. [g EXCEPT !.wake = g.wake + 1] \in GroupRec
        /\ [g EXCEPT !.wake = g.wake + 1].joined = g.joined /\ [g EXCEPT !.wake = g.wake + 1].wake = g.wake + 1
    BY <2>2, Zenon DEF GroupRec
  <2>4. ASSUME IsHeld(g) PROVE group' \in GroupRec /\ OwnTimer(group)' # {}
    <3>1. group'.joined = g.joined /\ group'.wake = g.wake + 1 /\ group' \in GroupRec
      BY <2>1, <2>3, <2>4, Zenon
    <3> DEFINE t == [of |-> g.joined, wake |-> g.wake + 1, at |-> now + delay]
    <3>2. t \in timers' /\ t.of = group'.joined /\ t.wake = group'.wake
      BY <2>1, <3>1, Zenon
    <3> HIDE DEF t
    <3>3. t \in OwnTimer(group)'
      BY <3>2, Zenon DEF OwnTimer
    <3> QED
      BY <3>1, <3>3, Zenon
  <2> QED
    BY <2>1, <2>4, Zenon
<1> QED
  BY <1>1, <1>2, Zenon

\* Backing off leaves a held group with its timer set.
LEMMA BackOffKeeps ==
  ASSUME NEW g \in GroupRec, backOff(g), group = NoGroup \/ group \in GroupRec, shut => group = NoGroup
  PROVE  /\ ~IsHeld(g) => group' = group
         /\ IsHeld(g) => /\ group' \in GroupRec /\ OwnTimer(group)' # {}
<1> DEFINE b == Min({g.backoff * 2, Max({Rotation \div 3, FirstBackoff})})
           k == [g EXCEPT !.epochs = live(g.epochs), !.backoff = b]
<1>1. b \in Int
  <2>1. Rotation \div 3 \in Int /\ FirstBackoff \in Int /\ g.backoff * 2 \in Int
    BY GroupTimes DEF GroupRec
  <2>2. Max({Rotation \div 3, FirstBackoff}) \in Int
    BY <2>1, MinMax, Zenon
  <2> QED
    BY <2>1, <2>2, MinMax, Zenon
<1>2. wakeIn(k, g.backoff)
  BY Zenon DEF backOff
<1>3. k \in GroupRec /\ k.joined = g.joined
  <2>1. live(g.epochs) \in SUBSET Nat
    BY LiveSmall, NotHeld, Zenon
  <2> HIDE DEF b
  <2> QED
    BY <1>1, <2>1, Zenon DEF GroupRec
<1> HIDE DEF k
<1>4. IsHeld(k) <=> IsHeld(g)
  BY <1>3, Zenon DEF IsHeld
<1> QED
  BY <1>2, <1>3, <1>4, WakeInKeeps, Zenon

\* Scheduling leaves a held group with its timer set.
LEMMA ScheduleKeeps ==
  ASSUME NEW g \in GroupRec, schedule(g), group = NoGroup \/ group \in GroupRec, shut => group = NoGroup
  PROVE  /\ ~IsHeld(g) => group' = group
         /\ IsHeld(g) => /\ group' \in GroupRec /\ OwnTimer(group)' # {}
<1> DEFINE k == [g EXCEPT !.backoff = FirstBackoff, !.epochs = live(g.epochs)]
<1>1. \E delay : wakeIn(k, delay)
  BY Zenon DEF schedule
<1>2. k \in GroupRec /\ k.joined = g.joined
  <2>1. live(g.epochs) \in SUBSET Nat /\ FirstBackoff \in Int
    BY LiveSmall, NotHeld, GroupTimes
  <2> QED
    BY <2>1, Zenon DEF GroupRec
<1> HIDE DEF k
<1>3. IsHeld(k) <=> IsHeld(g)
  BY <1>2, Zenon DEF IsHeld
<1> QED
  BY <1>1, <1>2, <1>3, WakeInKeeps, Zenon

\* The epochs a distributor answers with.
LEMMA AnsweredEpochs ==
  ASSUME NEW t \in Nat, NEW id \in Nat \union {Unissued}
  PROVE  Current(t) \subseteq Nat /\ ByID(id, t) \subseteq Nat
<1>1. t \div Rotation \in Nat /\ t \div Rotation + 1 \in Nat
  BY GroupTimes
<1>2. Current(t) \subseteq Nat
  BY <1>1, Zenon DEF Current
<1> QED
  BY <1>2, Zenon DEF ByID

\* Merging an answer leaves a group's join and its timer as they were.
LEMMA MergeKeeps ==
  ASSUME NEW g \in GroupRec, NEW policy \in {"off", "required"}, NEW epochs \in SUBSET Nat
  PROVE  merge(g, policy, epochs) \in GroupRec /\ merge(g, policy, epochs).joined = g.joined
         /\ merge(g, policy, epochs).wake = g.wake
<1> DEFINE p == IF policy # "off" \/ ~Seen(g.policy) THEN policy ELSE g.policy
<1>1. p \in {"none", "off", "preferred", "required"} /\ g.epochs \union epochs \in SUBSET Nat
  BY Zenon DEF GroupRec
<1>2. merge(g, policy, epochs) = [g EXCEPT !.policy = p, !.epochs = g.epochs \union epochs]
  BY Zenon DEF merge
<1> HIDE DEF p
<1> QED
  BY <1>1, <1>2, Zenon DEF GroupRec

\* Dropping spent epochs leaves a group's join and its timer as they were.
LEMMA SpendKeeps ==
  ASSUME NEW g \in GroupRec, now \in Nat
  PROVE  spend(g) \in GroupRec /\ spend(g).joined = g.joined /\ spend(g).wake = g.wake
<1>1. CASE g.spent = 0 \/ now - g.since >= Rotation
  <2>1. spend(g) = [g EXCEPT !.since = now, !.spent = 1]
    BY <1>1, Zenon DEF spend
  <2>2. ASSUME NEW n \in Int, NEW m \in Int PROVE [g EXCEPT !.since = n, !.spent = m] \in GroupRec
    BY Zenon DEF GroupRec
  <2>3. ASSUME NEW n, NEW m PROVE [g EXCEPT !.since = n, !.spent = m].joined = g.joined
    BY Zenon DEF GroupRec
  <2>4. ASSUME NEW n, NEW m PROVE [g EXCEPT !.since = n, !.spent = m].wake = g.wake
    BY Zenon DEF GroupRec
  <2>5. now \in Int /\ 1 \in Int
    OBVIOUS
  <2>6. spend(g) \in GroupRec
    BY <2>1, <2>2, <2>5, Zenon
  <2>7. spend(g).joined = g.joined /\ spend(g).wake = g.wake
    BY <2>1, <2>3, <2>4
  <2> QED
    BY <2>6, <2>7, Zenon
<1>2. CASE ~(g.spent = 0 \/ now - g.since >= Rotation)
  <2>1. spend(g) = [g EXCEPT !.spent = g.spent + 1]
    BY <1>2, Zenon DEF spend
  <2> QED
    BY <2>1 DEF GroupRec
<1> QED
  BY <1>1, <1>2, Zenon

\* An epoch that is held is accepted as long as an event sealed under it lives.
LEMMA HeldIsAccepted ==
  ASSUME NEW id \in Nat, now \in Nat, Arrives(id)
  PROVE  acceptable(id)
<1>1. PICK stamped \in IssuedAt(id) .. PublishUntil(id) - 1 + SealDelay : stamped <= now /\ now <= stamped + EventLife
  BY DEF Arrives, Unissued
<1>2. IssuedAt(id) \in Int /\ {Rotation, EventLife, EpochTolerance, SealDelay} \subseteq Nat /\ SealDelay <= EpochTolerance + 1
  BY GroupTimes DEF IssuedAt
<1>3. PublishUntil(id) = IssuedAt(id) + Rotation /\ PublishUntil(id) \in Int
  BY <1>2 DEF PublishUntil
<1>4. AcceptUntil(id) = PublishUntil(id) + EventLife
  BY Zenon DEF AcceptUntil
<1> QED
  BY <1>1, <1>2, <1>3, <1>4 DEF acceptable

\* A pull that ended, of a group that was left or whose timer it set.
LEMMA PullEnds ==
  ASSUME KeyringInv, pulling # NoPull, pulling' = NoPull, UNCHANGED <<now, joins, shut>>,
         ~IsHeld(pulling.g) => group' = group \/ (pulling.by = "join" /\ ~shut /\ group' \in GroupRec /\ OwnTimer(group)' # {}),
         IsHeld(pulling.g) => group' \in GroupRec /\ OwnTimer(group)' # {},
         ~(event'.held /\ event'.reason = "epoch_expired")
  PROVE  KeyringInv'
<1>1. group # NoGroup => IsHeld(pulling.g)
  BY Zenon DEF KeyringInv, IsHeld
<1>2. KeyringType'
  BY Zenon DEF KeyringInv, KeyringType
<1>3. shut' => group' = NoGroup
  <2>1. ~IsHeld(pulling.g) \/ ~shut
    BY Zenon DEF KeyringInv, IsHeld
  <2> QED
    BY <2>1, Zenon DEF KeyringInv
<1>4. group' # NoGroup => OwnTimer(group)' # {}
  BY <1>1, Zenon
<1> QED
  BY <1>2, <1>3, <1>4, Zenon DEF KeyringInv, RepullPending, NoEarlyExpiry

\* A step that leaves the group as it is, and its timer or the pull under way.
LEMMA Stays ==
  ASSUME KeyringInv, KeyringType', group' = group, shut' = shut, pulling' = pulling,
         timers \subseteq timers', woken \subseteq woken',
         ~(event'.held /\ event'.reason = "epoch_expired")
  PROVE  KeyringInv'
<1>1. RepullPending'
  <2>1. OwnTimer(group) \subseteq OwnTimer(group)'
    BY Zenon DEF OwnTimer
  <2>2. IsHeld(pulling.g) => IsHeld(pulling.g)'
    BY Zenon DEF IsHeld
  <2> QED
    BY <2>1, <2>2, Zenon DEF KeyringInv, RepullPending
<1> QED
  BY <1>1, Zenon DEF KeyringInv, NoEarlyExpiry

\* A step that begins a pull of the group held.
LEMMA PullBegins ==
  ASSUME KeyringInv, pulling = NoPull, pulling' \in PullRec, UNCHANGED <<now, joins, shut>>,
         group' = NoGroup \/ group' \in GroupRec, shut => group' = NoGroup,
         group' # NoGroup => /\ group # NoGroup /\ group'.joined = group.joined /\ group'.wake = group.wake
                             /\ pulling'.by # "join" /\ pulling'.g = group',
         timers' = timers,
         woken' = woken \/ pulling'.by = "repull",
         ~(event'.held /\ event'.reason = "epoch_expired")
  PROVE  KeyringInv'
<1>1. KeyringType'
  BY Zenon DEF KeyringInv, KeyringType
<1>2. RepullPending'
  <2> SUFFICES ASSUME group' # NoGroup PROVE \/ OwnTimer(group)' # {}
                                             \/ \E w \in woken' : w.wake = group'.wake
                                             \/ pulling' # NoPull /\ pulling'.by \in {"publish", "repull"} /\ IsHeld(pulling.g)'
    BY Zenon DEF RepullPending
  <2>1. IsHeld(pulling.g)' /\ pulling' # NoPull
    BY NotHeld, Zenon DEF IsHeld
  <2>2. CASE woken' = woken
    <3>1. OwnTimer(group) = OwnTimer(group)'
      BY Zenon DEF OwnTimer
    <3> QED
      BY <2>2, <3>1, Zenon DEF KeyringInv, RepullPending
  <2>3. CASE pulling'.by = "repull"
    BY <2>1, <2>3, Zenon
  <2> QED
    BY <2>2, <2>3, Zenon
<1> QED
  BY <1>1, <1>2, Zenon DEF KeyringInv, NoEarlyExpiry

\* The pull an action begins.
LEMMA PullsIs ==
  ASSUME NEW by \in {"join", "publish", "repull", "open"}, NEW g \in GroupRec, NEW id \in Nat \union {Unissued},
         now \in Nat, Pulls(by, g, id)
  PROVE  pulling' \in PullRec /\ pulling'.by = by /\ pulling'.g = g
<1> DEFINE p == [by |-> by, g |-> g, id |-> id, asked |-> now]
<1>1. pulling' = p
  BY Zenon DEF Pulls
<1>2. p \in PullRec /\ p.by = by /\ p.g = g
  BY Zenon DEF PullRec
<1> HIDE DEF p
<1> QED
  BY <1>1, <1>2, Zenon

\* The end of a pull that failed.
LEMMA FailsKeep ==
  ASSUME KeyringInv, PullFails
  PROVE  KeyringInv'
<1>t. /\ KeyringType /\ pulling # NoPull /\ pulling \in PullRec /\ pulling.g \in GroupRec /\ pulling' = NoPull
      /\ UNCHANGED <<now, joins, shut>> /\ (group = NoGroup \/ group \in GroupRec) /\ (shut => group = NoGroup)
      /\ pulling.by \in {"join", "publish", "repull", "open"} /\ pulling.asked + EventLife \in Int
  BY GroupTimes DEF KeyringInv, KeyringType, PullFails, PullRec
<1>h. group # NoGroup => IsHeld(pulling.g) /\ pulling.by # "join" /\ pulling.g.wake = group.wake /\ pulling.g.joined = group.joined
  BY <1>t, Zenon DEF KeyringInv, IsHeld
<1>e. ~(event.held /\ event.reason = "epoch_expired")
  BY Zenon DEF KeyringInv, NoEarlyExpiry
<1>1. PICK reason \in {"no_distributor", "not_a_member", "unknown_epoch", "epoch_expired"} :
        Failed(pulling.g, reason)
  BY Zenon DEF PullFails
<1>2. CASE pulling.by = "join"
  <2>1. UNCHANGED <<group, timers, event>>
    BY <1>1, <1>2, Zenon DEF Failed
  <2>2. ~IsHeld(pulling.g)
    BY <1>h, <1>2, Zenon DEF IsHeld
  <2> QED
    BY <1>t, <1>e, <2>1, <2>2, PullEnds, Zenon
<1>3. CASE pulling.by = "publish"
  <2>1. backOff(pulling.g) /\ UNCHANGED event
    BY <1>1, <1>3, Zenon DEF Failed
  <2> QED
    BY <1>t, <1>e, <2>1, BackOffKeeps, PullEnds, Zenon
<1>4. CASE pulling.by = "repull"
  <2>1. RepullFailed(pulling.g) /\ UNCHANGED event
    BY <1>1, <1>4, Zenon DEF Failed
  <2> QED
    BY <1>t, <1>e, <2>1, BackOffKeeps, PullEnds, Zenon DEF RepullFailed
<1>5. CASE pulling.by = "open"
  <2>1. /\ event' = [id |-> pulling.id, reason |-> reason, held |-> FALSE] /\ UNCHANGED <<timers, woken>>
        /\ group' = IF ~IsHeld(pulling.g) THEN group
                    ELSE IF reason = "unknown_epoch" THEN [pulling.g EXCEPT !.unknown = pulling.asked + EventLife] ELSE pulling.g
    BY <1>1, <1>5, Zenon DEF Failed, Reports, PullFails
  <2>2. ~(event'.held /\ event'.reason = "epoch_expired")
    BY <2>1, Zenon
  <2>3. ASSUME group # NoGroup PROVE group' \in GroupRec /\ group'.joined = group.joined /\ group'.wake = group.wake
    <3>1. ASSUME NEW n \in Int PROVE /\ [pulling.g EXCEPT !.unknown = n] \in GroupRec
                                     /\ [pulling.g EXCEPT !.unknown = n].joined = pulling.g.joined
                                     /\ [pulling.g EXCEPT !.unknown = n].wake = pulling.g.wake
      BY <1>t, Zenon DEF GroupRec
    <3> QED
      BY <1>t, <1>h, <2>1, <2>3, <3>1, Zenon
  <2>4. group = NoGroup => group' = group
    BY <2>1, Zenon DEF IsHeld
  <2>5. ASSUME group' # NoGroup PROVE OwnTimer(group)' # {} \/ \E w \in woken' : w.wake = group'.wake
    <3>1. OwnTimer(group)' = OwnTimer(group)
      BY <2>1, <2>3, <2>4, <2>5, Zenon DEF OwnTimer
    <3>2. OwnTimer(group) # {} \/ \E w \in woken : w.wake = group.wake
      BY <1>5, <2>4, <2>5, Zenon DEF KeyringInv, RepullPending
    <3> QED
      BY <2>1, <2>3, <2>4, <2>5, <3>1, <3>2, Zenon
  <2> QED
    BY <1>t, <2>2, <2>3, <2>4, <2>5, Zenon DEF KeyringInv, KeyringType, RepullPending, NoEarlyExpiry
<1> QED
  BY <1>t, <1>2, <1>3, <1>4, <1>5, Zenon

\* The end of a pull that was answered.
LEMMA AnswersKeep ==
  ASSUME KeyringInv, PullAnswers
  PROVE  KeyringInv'
<1>t. /\ KeyringType /\ pulling # NoPull /\ pulling \in PullRec /\ pulling.g \in GroupRec /\ pulling' = NoPull
      /\ UNCHANGED <<now, joins, shut, woken>> /\ (group = NoGroup \/ group \in GroupRec) /\ (shut => group = NoGroup)
      /\ pulling.by \in {"join", "publish", "repull", "open"} /\ pulling.asked \in Nat
      /\ pulling.id \in Nat \union {Unissued}
  BY Zenon DEF KeyringInv, KeyringType, PullAnswers, PullRec
<1>h. group # NoGroup => IsHeld(pulling.g) /\ pulling.by # "join" /\ pulling.g.wake = group.wake /\ pulling.g.joined = group.joined
  BY <1>t, Zenon DEF KeyringInv, IsHeld
<1>e. ~(event.held /\ event.reason = "epoch_expired")
  BY Zenon DEF KeyringInv, NoEarlyExpiry
<1> DEFINE epochs == IF pulling.by = "open" THEN ByID(pulling.id, pulling.asked) ELSE Current(pulling.asked)
<1>1. epochs \in SUBSET Nat
  BY <1>t, AnsweredEpochs, Zenon
<1>2. PICK policy \in {"off", "required"} :
        CASE pulling.by = "join" ->
               IF shut THEN UNCHANGED <<group, timers, event>>
               ELSE \E at \in aheadWindow(Max(epochs)) :
                      /\ group' = [merge(pulling.g, policy, epochs) EXCEPT !.wake = 1, !.epochs = live(@)]
                      /\ timers' = timers \union
                           {[of |-> merge(pulling.g, policy, epochs).joined, wake |-> 1,
                             at |-> IF live(epochs) = {} THEN now + FirstBackoff
                                    ELSE now + Max({FirstBackoff, at - now})]}
                      /\ UNCHANGED event
          [] pulling.by = "publish" -> schedule(merge(pulling.g, policy, epochs)) /\ UNCHANGED event
          [] pulling.by = "repull" ->
               IF IsHeld(merge(pulling.g, policy, epochs))
               THEN schedule(merge(pulling.g, policy, epochs)) /\ UNCHANGED event
               ELSE UNCHANGED <<group, timers, event>>
          [] OTHER -> OpenAnswered(merge(pulling.g, policy, epochs), pulling.id)
  BY Zenon DEF PullAnswers
<1> DEFINE g == merge(pulling.g, policy, epochs)
<1>3. g \in GroupRec /\ g.joined = pulling.g.joined /\ g.wake = pulling.g.wake
  BY <1>t, <1>1, MergeKeeps, Zenon
<1> HIDE DEF g, epochs
<1>4. IsHeld(g) <=> IsHeld(pulling.g)
  BY <1>3, Zenon DEF IsHeld
<1>5. live(g.epochs) \in SUBSET Nat
  BY <1>3, NotHeld, LiveSmall, Zenon
<1>6. CASE pulling.by = "join"
  <2>0. group = NoGroup /\ ~IsHeld(pulling.g)
    BY <1>h, <1>6, Zenon DEF IsHeld
  <2>1. CASE shut
    <3>1. UNCHANGED <<group, timers, event>>
      BY <1>2, <1>6, <2>1, Zenon
    <3> QED
      BY <1>t, <1>e, <2>0, <3>1, PullEnds, Zenon
  <2>2. CASE ~shut
    <3>1. PICK at : /\ group' = [g EXCEPT !.wake = 1, !.epochs = live(@)]
                    /\ [of |-> g.joined, wake |-> 1, at |-> at] \in timers'
                    /\ UNCHANGED event
      BY <1>2, <1>6, <2>2, Zenon DEF g
    <3>2. ASSUME NEW es \in SUBSET Nat
          PROVE  /\ [g EXCEPT !.wake = 1, !.epochs = es] \in GroupRec
                 /\ [g EXCEPT !.wake = 1, !.epochs = es].joined = g.joined
                 /\ [g EXCEPT !.wake = 1, !.epochs = es].wake = 1
      BY <1>3, Zenon DEF GroupRec
    <3>3. group' \in GroupRec /\ group'.joined = g.joined /\ group'.wake = 1
      BY <1>5, <3>1, <3>2, Zenon
    <3> DEFINE t == [of |-> g.joined, wake |-> 1, at |-> at]
    <3>4. t \in timers' /\ t.of = group'.joined /\ t.wake = group'.wake
      BY <3>1, <3>3, Zenon
    <3> HIDE DEF t
    <3>5. t \in OwnTimer(group)'
      BY <3>4, Zenon DEF OwnTimer
    <3>6. OwnTimer(group)' # {}
      BY <3>5, Zenon
    <3> QED
      BY <1>t, <1>e, <1>6, <2>0, <2>2, <3>1, <3>3, <3>6, PullEnds, Zenon
  <2> QED
    BY <2>1, <2>2, Zenon
<1>7. CASE pulling.by = "publish"
  <2>1. schedule(g) /\ UNCHANGED event
    BY <1>2, <1>7, Zenon DEF g
  <2> QED
    BY <1>t, <1>e, <1>3, <1>4, <2>1, ScheduleKeeps, PullEnds, Zenon
<1>8. CASE pulling.by = "repull"
  <2>1. IF IsHeld(g) THEN schedule(g) /\ UNCHANGED event ELSE UNCHANGED <<group, timers, event>>
    BY <1>2, <1>8, Zenon DEF g
  <2> QED
    BY <1>t, <1>e, <1>3, <1>4, <2>1, ScheduleKeeps, PullEnds, Zenon
<1>9. CASE pulling.by = "open"
  <2>0. OpenAnswered(g, pulling.id)
    BY <1>2, <1>9, Zenon DEF g
  <2>1. /\ group' = IF IsHeld(g) THEN [g EXCEPT !.epochs = live(g.epochs)] ELSE group
        /\ event' = [id |-> pulling.id, reason |-> IF pulling.id \notin live(g.epochs) THEN "no_distributor" ELSE "opened", held |-> FALSE]
        /\ UNCHANGED timers
    BY <2>0, Zenon DEF OpenAnswered, Reports
  <2>2. ~(event'.held /\ event'.reason = "epoch_expired")
    BY <2>1, Zenon
  <2>3. ASSUME group # NoGroup PROVE group' \in GroupRec /\ group'.joined = group.joined /\ group'.wake = group.wake
    <3>1. ASSUME NEW es \in SUBSET Nat
          PROVE  /\ [g EXCEPT !.epochs = es] \in GroupRec
                 /\ [g EXCEPT !.epochs = es].joined = g.joined /\ [g EXCEPT !.epochs = es].wake = g.wake
      BY <1>3, Zenon DEF GroupRec
    <3>2. group' = [g EXCEPT !.epochs = live(g.epochs)]
      BY <1>4, <1>h, <2>1, <2>3, Zenon
    <3> QED
      BY <1>h, <1>3, <1>5, <2>3, <3>1, <3>2, Zenon
  <2>4. group = NoGroup => group' = group
    BY <2>1, Zenon DEF IsHeld
  <2>5. ASSUME group' # NoGroup PROVE OwnTimer(group)' # {} \/ \E w \in woken' : w.wake = group'.wake
    <3>1. OwnTimer(group)' = OwnTimer(group)
      BY <2>1, <2>3, <2>4, <2>5, Zenon DEF OwnTimer
    <3>2. OwnTimer(group) # {} \/ \E w \in woken : w.wake = group.wake
      BY <1>9, <2>4, <2>5, Zenon DEF KeyringInv, RepullPending
    <3> QED
      BY <1>t, <2>3, <2>4, <2>5, <3>1, <3>2, Zenon
  <2> QED
    BY <1>t, <2>2, <2>3, <2>4, <2>5, Zenon DEF KeyringInv, KeyringType, RepullPending, NoEarlyExpiry
<1> QED
  BY <1>t, <1>6, <1>7, <1>8, <1>9, Zenon

\* Every step keeps the invariant.
LEMMA KeyringStep == KeyringInv /\ [GNext]_gvars => KeyringInv'
<1> SUFFICES ASSUME KeyringInv, [GNext]_gvars PROVE KeyringInv'
  BY Zenon
<1>t. /\ KeyringType /\ now \in Nat /\ joins \in Nat
      /\ (group = NoGroup \/ group \in GroupRec) /\ (pulling = NoPull \/ pulling \in PullRec)
      /\ (shut => group = NoGroup)
  BY Zenon DEF KeyringInv, KeyringType
<1>e. ~(event.held /\ event.reason = "epoch_expired") /\ ~(NoEvent.held /\ NoEvent.reason = "epoch_expired")
  BY Zenon DEF KeyringInv, NoEarlyExpiry, NoEvent
<1>1. CASE Join
  <2>1. Joining \in GroupRec
    BY <1>t, GroupTimes DEF Joining, GroupRec
  <2>2. /\ group = NoGroup /\ pulling = NoPull /\ Pulls("join", Joining, 0) /\ joins' = joins + 1 /\ event' = NoEvent
        /\ UNCHANGED <<now, group, timers, woken, shut>>
    BY <1>1, Zenon DEF Join
  <2>3. pulling' \in PullRec /\ joins' \in Nat
    BY <1>t, <2>1, <2>2, PullsIs
  <2> QED
    BY <1>t, <1>e, <2>2, <2>3, Zenon DEF KeyringInv, KeyringType, RepullPending, NoEarlyExpiry
<1>2. CASE Leave \/ CloseKeyring
  <2>1. group' = NoGroup /\ UNCHANGED <<now, joins, pulling>> /\ (event' = NoEvent \/ event' = event)
    BY <1>2, Zenon DEF Leave, CloseKeyring, Drops
  <2> QED
    BY <1>t, <1>e, <2>1, Zenon DEF KeyringInv, KeyringType, RepullPending, NoEarlyExpiry
<1>3. CASE PublishEpoch
  <2>1. /\ pulling = NoPull /\ group # NoGroup /\ Pulls("publish", group, 0) /\ event' = NoEvent
        /\ UNCHANGED <<now, group, joins, timers, woken, shut>>
    BY <1>3, Zenon DEF PublishEpoch
  <2>2. pulling' \in PullRec /\ pulling'.by = "publish" /\ pulling'.g = group
    BY <1>t, <2>1, PullsIs, Zenon
  <2> QED
    BY <1>t, <1>e, <2>1, <2>2, PullBegins, Zenon
<1>4. CASE Passes
  <2>1. now' \in Nat /\ event' = NoEvent /\ UNCHANGED <<group, joins, timers, woken, pulling, shut>>
    BY <1>4, <1>t DEF Passes
  <2>2. KeyringType'
    BY <1>t, <2>1, Zenon DEF KeyringType
  <2> QED
    BY <1>e, <2>1, <2>2, Stays, Zenon
<1>5. ASSUME NEW id \in {Unissued} \union 0..MaxEpoch, OpenEpoch(id) PROVE KeyringInv'
  <2>0. Arrives(id) /\ UNCHANGED <<now, joins, timers, woken, shut>> /\ id \in Nat \union {Unissued}
    BY <1>5 DEF OpenEpoch
  <2>1. CASE UNCHANGED <<group, pulling>> /\ ~(event'.held /\ event'.reason = "epoch_expired")
    BY <1>t, <2>0, <2>1, Stays, Zenon DEF KeyringType
  <2>2. CASE group = NoGroup /\ Reports(id, "not_joined", FALSE) /\ UNCHANGED <<group, pulling>>
    BY <2>1, <2>2, Zenon DEF Reports
  <2>3. CASE /\ group # NoGroup /\ id \in group.epochs /\ Reports(id, IF acceptable(id) THEN "opened" ELSE "epoch_expired", TRUE)
             /\ UNCHANGED <<group, pulling>>
    <3>1. id \in Nat
      BY <1>t, <2>3, NotHeld, Zenon
    <3>2. acceptable(id)
      BY <1>t, <2>0, <3>1, HeldIsAccepted, Zenon
    <3> QED
      BY <2>1, <2>3, <3>2, Zenon DEF Reports
  <2>4. CASE Reports(id, "unknown_epoch", FALSE) /\ UNCHANGED <<group, pulling>>
    BY <2>1, <2>4, Zenon DEF Reports
  <2>5. CASE /\ group # NoGroup /\ pulling = NoPull
             /\ group' = spend(group) /\ Pulls("open", group', id) /\ event' = NoEvent
    <3>1. group' \in GroupRec /\ group'.joined = group.joined /\ group'.wake = group.wake
      BY <1>t, <2>5, SpendKeeps, Zenon
    <3>2. pulling' \in PullRec /\ pulling'.by = "open" /\ pulling'.g = group'
      BY <1>t, <2>0, <2>5, <3>1, PullsIs, Zenon
    <3> QED
      BY <1>t, <1>e, <2>0, <2>5, <3>1, <3>2, PullBegins, Zenon
  <2> QED
    BY <1>5, <2>2, <2>3, <2>4, <2>5, Zenon DEF OpenEpoch
<1>6. ASSUME NEW t \in timers, WakeUp(t) PROVE KeyringInv'
  <2>1. /\ timers' = timers \ {t} /\ woken' = woken \union {[of |-> t.of, wake |-> t.wake]} /\ event' = NoEvent
        /\ UNCHANGED <<now, group, joins, pulling, shut>>
    BY <1>6, Zenon DEF WakeUp
  <2>2. ASSUME group # NoGroup
        PROVE  OwnTimer(group)' # {} \/ (\E w \in woken' : w.wake = group.wake)
               \/ (pulling # NoPull /\ pulling.by \in {"publish", "repull"} /\ IsHeld(pulling.g))
    <3>1. CASE t \in OwnTimer(group)
      <4>1. [of |-> t.of, wake |-> t.wake].wake = group.wake
        BY <3>1, Zenon DEF OwnTimer
      <4> QED
        BY <2>1, <4>1, Zenon
    <3>2. CASE t \notin OwnTimer(group)
      <4>1. OwnTimer(group) \subseteq OwnTimer(group)'
        BY <2>1, <3>2, Zenon DEF OwnTimer
      <4> QED
        BY <2>1, <2>2, <4>1, Zenon DEF KeyringInv, RepullPending
    <3> QED
      BY <3>1, <3>2, Zenon
  <2>3. RepullPending'
    BY <2>1, <2>2, Zenon DEF RepullPending, IsHeld
  <2> QED
    BY <1>t, <1>e, <2>1, <2>3, Zenon DEF KeyringInv, KeyringType, NoEarlyExpiry
<1>7. ASSUME NEW w \in woken, repull(w) PROVE KeyringInv'
  <2>0. /\ pulling = NoPull /\ woken' = woken \ {w} /\ event' = NoEvent /\ UNCHANGED <<now, group, joins, timers, shut>>
    BY <1>7, Zenon DEF repull
  <2>1. CASE group # NoGroup /\ group.wake = w.wake /\ ~shut
    <3>1. Pulls("repull", group, 0)
      BY <1>7, <2>1, Zenon DEF repull
    <3>2. pulling' \in PullRec /\ pulling'.by = "repull" /\ pulling'.g = group
      BY <1>t, <2>0, <2>1, <3>1, PullsIs, Zenon
    <3> QED
      BY <1>t, <1>e, <2>0, <2>1, <3>2, PullBegins, Zenon
  <2>2. CASE ~(group # NoGroup /\ group.wake = w.wake /\ ~shut)
    <3>1. UNCHANGED pulling
      BY <1>7, <2>2, Zenon DEF repull
    <3>2. RepullPending'
      <4>1. OwnTimer(group)' = OwnTimer(group)
        BY <2>0, Zenon DEF OwnTimer
      <4>2. group # NoGroup => group.wake # w.wake
        BY <1>t, <2>2, Zenon
      <4> QED
        BY <2>0, <3>1, <4>1, <4>2, Zenon DEF KeyringInv, RepullPending
    <3> QED
      BY <1>t, <1>e, <2>0, <3>1, <3>2, Zenon DEF KeyringInv, KeyringType, NoEarlyExpiry
  <2> QED
    BY <2>1, <2>2, Zenon
<1>8. CASE UNCHANGED gvars
  <2>1. UNCHANGED <<now, group, joins, timers, woken, pulling, shut, event>>
    BY <1>8, Zenon DEF gvars
  <2> QED
    BY <1>t, <1>e, <2>1, Stays, Zenon DEF KeyringType
<1> QED
  BY <1>1, <1>2, <1>3, <1>4, <1>5, <1>6, <1>7, <1>8, FailsKeep, AnswersKeep, Zenon DEF GNext

\* The initial states satisfy the invariant.
LEMMA KeyringInit == GInit => KeyringInv
BY DEF GInit, KeyringInv, KeyringType, RepullPending, NoEarlyExpiry, NoEvent

\* Every held group is going to be pulled again.
THEOREM GroupsArePulledAgain == GSpec => []RepullPending
<1>1. KeyringInv => RepullPending
  BY Zenon DEF KeyringInv
<1> QED
  BY <1>1, KeyringInit, KeyringStep, PTL DEF GSpec

\* No event of a held epoch expires early.
THEOREM EpochsOutliveEvents == GSpec => []NoEarlyExpiry
<1>1. KeyringInv => NoEarlyExpiry
  BY Zenon DEF KeyringInv
<1> QED
  BY <1>1, KeyringInit, KeyringStep, PTL DEF GSpec
-----------------------------------------------------------------------------
\* Every publication's seq is one PublicationSeq gave before, and last is the
\* highest it gave.
SeqInv ==
    /\ lastSeq \in Nat
    /\ \A p \in published : p.seq \in Nat /\ p.seq <= lastSeq
    /\ collided = FALSE

\* PublicationSeq.Next goes up at every reading of the clock, one that went back
\* included.
LEMMA SeqRises ==
  ASSUME lastSeq \in Nat, NEW t \in Nat
  PROVE  NextSeq(t) \in Nat /\ NextSeq(t) > lastSeq
BY DEF NextSeq

\* PublicationSeq: no two publications of a node have one seq, however its
\* clock jumps.
THEOREM SeqsAreDistinct == PubSpec => []SeqsDistinct
<1>1. PubInit => SeqInv
  BY DEF PubInit, SeqInv
<1>2. SeqInv /\ [PubNext]_pubvars => SeqInv'
  <2> SUFFICES ASSUME SeqInv, [PubNext]_pubvars PROVE SeqInv'
    BY Zenon
  <2>1. ASSUME NEW t \in 0..MaxClock, NEW on, Publish(t, on) PROVE SeqInv'
    <3> DEFINE p == [seq |-> NextSeq(t), at |-> t]
    <3>1. NextSeq(t) \in Nat /\ NextSeq(t) > lastSeq
      BY <2>1, SeqRises, PublisherClockAssumption DEF SeqInv
    <3>2. lastSeq' = NextSeq(t) /\ published' = published \union {p}
      BY <2>1, Zenon DEF Publish
    <3>3. ~ \E q \in published : q.seq = p.seq
      BY <3>1 DEF SeqInv
    <3>4. collided' = FALSE
      BY <2>1, <3>3, Zenon DEF Publish, SeqInv
    <3>5. \A q \in published' : q.seq \in Nat /\ q.seq <= lastSeq'
      BY <3>1, <3>2 DEF SeqInv
    <3> QED BY <3>1, <3>2, <3>4, <3>5, Zenon DEF SeqInv
  <2>2. CASE UNCHANGED <<lastSeq, published, collided>>
    BY <2>2, Zenon DEF SeqInv
  <2>3. ASSUME NEW l \in Path, Delivers(l) \/ \E p \in published : Hears(l, p)
        PROVE  UNCHANGED <<lastSeq, published, collided>>
    BY <2>3, Zenon DEF Delivers, Hears
  <2>4. ASSUME NEW copy \in carried, Lost(copy) PROVE UNCHANGED <<lastSeq, published, collided>>
    BY <2>4, Zenon DEF Lost
  <2>5. CASE Tick
    BY <2>2, <2>5, Zenon DEF Tick
  <2>6. CASE UNCHANGED pubvars
    BY <2>2, <2>6, Zenon DEF pubvars
  <2> QED BY <2>1, <2>2, <2>3, <2>4, <2>5, <2>6, Zenon DEF PubNext
<1>3. SeqInv => SeqsDistinct
  BY Zenon DEF SeqInv, SeqsDistinct
<1> QED BY <1>1, <1>2, <1>3, PTL DEF PubSpec
-----------------------------------------------------------------------------
\* What evented holds between its reading of the clock and the dedup.
Heard == [pub : [seq : Nat, at : Nat], now : Nat]

\* Why a publication that was delivered is not delivered again: the dedup still
\* holds it, or its time is over and a link can only have judged it before.
OnceInv ==
    /\ lastSeq \in Nat /\ clock \in Nat
    /\ published \subseteq [seq : Nat, at : Nat]
    /\ hearing \in [Path -> SUBSET Heard]
    /\ \A l \in Path : \A h \in hearing[l] : h.now <= clock
    /\ \A p \in DOMAIN delivered : p.at \in Nat /\ delivered[p] \in Nat
    /\ \A p \in seen : p.at \in Nat
    /\ \A p \in DOMAIN delivered : p \in seen \/ clock > ExpiresAt(p)
    /\ EventOnce

\* The initial states satisfy the invariant.
LEMMA OnceInit == PubInit => OnceInv
<1> SUFFICES ASSUME PubInit PROVE OnceInv
  BY Zenon
<1>1. lastSeq = 0 /\ published = {} /\ clock = 0 /\ hearing = [l \in Path |-> {}] /\ seen = {}
      /\ delivered = [p \in {} |-> 0]
  BY Zenon DEF PubInit
<1>2. DOMAIN delivered = {}
  BY <1>1, Zenon
<1> QED
  BY <1>1, <1>2, Zenon DEF OnceInv, EventOnce, Heard

\* Every step keeps the invariant.
LEMMA OnceStep == OnceInv /\ [PubNext]_pubvars => OnceInv'
<1> SUFFICES ASSUME OnceInv, [PubNext]_pubvars PROVE OnceInv'
  BY Zenon
<1>1. ASSUME NEW t \in 0..MaxClock, NEW on, Publish(t, on) PROVE OnceInv'
  <2>1. NextSeq(t) \in Nat /\ t \in Nat
    BY SeqRises, PublisherClockAssumption DEF OnceInv
  <2>2. /\ lastSeq' = NextSeq(t) /\ published' = published \union {[seq |-> NextSeq(t), at |-> t]}
        /\ UNCHANGED <<clock, hearing, seen, delivered, stale>>
    BY <1>1, Zenon DEF Publish
  <2>3. published' \subseteq [seq : Nat, at : Nat]
    BY <2>1, <2>2 DEF OnceInv
  <2> QED
    BY <2>1, <2>2, <2>3, Zenon DEF OnceInv, EventOnce
<1>2. ASSUME NEW l \in Path, NEW p \in published, Hears(l, p) PROVE OnceInv'
  <2>1. /\ hearing' = [hearing EXCEPT ![l] = {[pub |-> p, now |-> clock]}]
        /\ UNCHANGED <<lastSeq, published, clock, seen, delivered, stale>>
    BY <1>2, Zenon DEF Hears
  <2>2. [pub |-> p, now |-> clock] \in Heard
    BY Zenon DEF OnceInv, Heard
  <2>3. hearing' \in [Path -> SUBSET Heard] /\ \A k \in Path : \A h \in hearing'[k] : h.now <= clock
    BY <2>1, <2>2 DEF OnceInv
  <2> QED
    BY <2>1, <2>3, Zenon DEF OnceInv, EventOnce
<1>3. ASSUME NEW l \in Path, Delivers(l) PROVE OnceInv'
  <2> DEFINE h == CHOOSE x \in hearing[l] : TRUE
             times == IF h.pub \in DOMAIN delivered THEN delivered[h.pub] ELSE 0
  <2>1. h \in hearing[l] /\ h \in Heard /\ h.now <= clock
    BY <1>3, Zenon DEF Delivers, OnceInv
  <2>2. h.pub.at \in Nat /\ h.now \in Nat /\ h.now <= clock
    BY <2>1, Zenon DEF Heard
  <2>3. /\ hearing' = [hearing EXCEPT ![l] = {}] /\ UNCHANGED <<lastSeq, published, clock>>
        /\ stale' = IF clock > ExpiresAt(h.pub) THEN stale \union {h.pub} ELSE stale
    BY <1>3, Zenon DEF Delivers
  <2>4. hearing' \in [Path -> SUBSET Heard] /\ \A k \in Path : \A g \in hearing'[k] : g.now <= clock
    BY <2>3, Zenon DEF OnceInv
  <2> HIDE DEF h
  <2>5. CASE UNCHANGED <<seen, delivered>>
    BY <2>3, <2>4, <2>5, Zenon DEF OnceInv, EventOnce
  <2>6. CASE /\ h.pub \notin seen /\ seen' = Swept(h.now) \union {h.pub}
             /\ delivered' = [p \in DOMAIN delivered \union {h.pub} |-> IF p = h.pub THEN times + 1 ELSE delivered[p]]
    <3>1. \A p \in seen' : p.at \in Nat
      BY <2>2, <2>6, Zenon DEF Swept, OnceInv
    <3>2. \A p \in DOMAIN delivered' : p.at \in Nat /\ delivered'[p] \in Nat
      BY <2>2, <2>6 DEF OnceInv
    <3>3. ASSUME NEW p \in DOMAIN delivered' PROVE p \in seen' \/ clock' > ExpiresAt(p)'
      <4>1. CASE p = h.pub
        BY <4>1, <2>6, Zenon
      <4>2. CASE p # h.pub
        <5>1. p \in DOMAIN delivered /\ p.at \in Nat /\ (p \in seen \/ clock > ExpiresAt(p))
          BY <4>2, <2>6, Zenon DEF OnceInv
        <5>2. p \in seen => p \in Swept(h.now) \/ clock > ExpiresAt(p)
          BY <5>1, <2>2, PublicationTimes DEF Swept, ExpiresAt, OnceInv
        <5> QED
          BY <5>1, <5>2, <2>3, <2>6, Zenon DEF ExpiresAt
      <4> QED
        BY <4>1, <4>2, Zenon
    <3>4. ASSUME NEW p \in DOMAIN delivered', delivered'[p] > 1 PROVE p \in stale'
      <4>1. CASE p = h.pub
        <5>1. p \in DOMAIN delivered
          BY <4>1, <3>4, <2>6
        <5>2. clock > ExpiresAt(p)
          BY <5>1, <4>1, <2>6, Zenon DEF OnceInv
        <5> QED
          BY <5>2, <4>1, <2>3, Zenon
      <4>2. CASE p # h.pub
        <5>1. p \in DOMAIN delivered /\ delivered'[p] = delivered[p]
          BY <4>2, <2>6, Zenon
        <5> QED
          BY <5>1, <3>4, <2>3, Zenon DEF OnceInv, EventOnce
      <4> QED
        BY <4>1, <4>2, Zenon
    <3> QED
      BY <2>3, <2>4, <3>1, <3>2, <3>3, <3>4, Zenon DEF OnceInv, EventOnce
  <2> QED
    BY <1>3, <2>5, <2>6, Zenon DEF Delivers, h
<1>4. ASSUME NEW copy \in carried, Lost(copy) PROVE OnceInv'
  BY <1>4, Zenon DEF Lost, OnceInv, EventOnce
<1>5. CASE Tick
  <2>1. clock' = clock + 1 /\ UNCHANGED <<lastSeq, published, hearing, seen, delivered, stale>>
    BY <1>5, Zenon DEF Tick
  <2>2. \A p \in DOMAIN delivered : p \in seen \/ clock' > ExpiresAt(p)
    BY <2>1, PublicationTimes, SMTT(40) DEF OnceInv, ExpiresAt
  <2>3. \A k \in Path : \A g \in hearing[k] : g.now <= clock'
    BY <2>1 DEF OnceInv, Heard
  <2> QED
    BY <2>1, <2>2, <2>3 DEF OnceInv, EventOnce, ExpiresAt
<1>6. CASE UNCHANGED pubvars
  BY <1>6, Zenon DEF pubvars, OnceInv, EventOnce
<1> QED
  BY <1>1, <1>2, <1>3, <1>4, <1>5, <1>6, Zenon DEF PubNext

\* evented and EventDedup.first: a publication is delivered once, whatever copies
\* come on whatever links, but for one judged on a clock reading from before its
\* expiry after it.
THEOREM EventsComeOnce == PubSpec => []EventOnce
<1>1. OnceInv => EventOnce
  BY Zenon DEF OnceInv
<1> QED
  BY <1>1, OnceInit, OnceStep, PTL DEF PubSpec
=============================================================================
