------------------------ MODULE ServedStreamsProofs ------------------------
(***************************************************************************)
(* For any set of streams and callers and any bounds: the session and      *)
(* drain places are counted exactly and stay within their bounds, and a    *)
(* stream whose two sides both sent their last frame is being ended.       *)
(* The byte budgets of the inboxes are exact: what a caller's streams, and *)
(* all of them, are charged is the sum over the streams of what is queued, *)
(* kept back or not yet returned, and stays within its bound.              *)
(***************************************************************************)
EXTENDS ServedStreams, FiniteSetTheorems, TLAPS

Placed == {s \in Stream : place[s]}

PlacedBy(c) == {s \in Stream : place[s] /\ CallerOf[s] = c}

Draining == {s \in Stream : phase[s] \in {"draining", "drained"}}

placeVars == <<phase, place, sessions, sessionsTotal, drains>>

PlacesType ==
    /\ phase \in [Stream -> Phase]
    /\ place \in [Stream -> BOOLEAN]
    /\ sessions \in [Caller -> Int] /\ sessionsTotal \in Int
    /\ drains \in Int

PlacesInv == PlacesType /\ PlacesExact /\ PlacesBounded

\* The sets the places are counted by are finite, so their sizes are numbers.
LEMMA PlacesAreFinite ==
    /\ IsFiniteSet(Placed) /\ IsFiniteSet(Draining)
    /\ \A c : IsFiniteSet(PlacedBy(c))
<1>1. IsFiniteSet(Stream)
  BY StreamAssumption, Zenon
<1>2. Placed \subseteq Stream /\ Draining \subseteq Stream /\ \A c : PlacedBy(c) \subseteq Stream
  BY Zenon DEF Placed, Draining, PlacedBy
<1> QED
  BY <1>1, <1>2, FS_Subset, Zenon

\* A stream taking a place adds one to the count.
LEMMA AddedPlace ==
    ASSUME NEW S, NEW x, IsFiniteSet(S), x \notin S
    PROVE  Cardinality(S \cup {x}) = Cardinality(S) + 1 /\ Cardinality(S) \in Nat
  BY FS_AddElement, FS_CardinalityType, Zenon

\* A stream leaving its place takes one from the count.
LEMMA RemovedPlace ==
    ASSUME NEW S, NEW x, IsFiniteSet(S), x \in S
    PROVE  Cardinality(S \ {x}) = Cardinality(S) - 1 /\ Cardinality(S) \in Nat
  BY FS_RemoveElement, FS_CardinalityType, Zenon

\* Nothing holds a place at first.
LEMMA PlacesInit == Init => PlacesInv
<1> SUFFICES ASSUME Init PROVE PlacesInv
  BY Zenon
<1>1. PlacesType
  BY DEF Init, PlacesType, Phase
<1>2. Placed = {} /\ Draining = {} /\ \A c : PlacedBy(c) = {}
  BY Zenon DEF Init, Placed, Draining, PlacedBy
<1>3. Cardinality({}) = 0
  BY FS_EmptySet, Zenon
<1>4. Cardinality(Placed) = 0 /\ Cardinality(Draining) = 0 /\ \A c : Cardinality(PlacedBy(c)) = 0
  BY <1>2, <1>3, Zenon
<1>5. PlacesExact
  BY <1>4, Zenon DEF Init, PlacesExact, Placed, PlacedBy, Draining
<1>6. PlacesBounded
  BY <1>4, BoundsAssumption DEF PlacesBounded, Placed, PlacedBy, Draining
<1> QED
  BY <1>1, <1>5, <1>6, Zenon DEF PlacesInv

\* What the invariant says of the three counted sets.
LEMMA PlacesFacts ==
    ASSUME PlacesInv
    PROVE  /\ sessionsTotal = Cardinality(Placed) /\ Cardinality(Placed) <= Sessions
           /\ drains = Cardinality(Draining) /\ Cardinality(Draining) <= MaxRefusalDrains
           /\ \A c \in Caller : /\ sessions[c] = Cardinality(PlacedBy(c))
                                /\ Cardinality(PlacedBy(c)) <= SessionsPerCaller
  BY Zenon DEF PlacesInv, PlacesExact, PlacesBounded, Placed, PlacedBy, Draining

\* And what it takes to re-establish it.
LEMMA PlacesFromFacts ==
    ASSUME PlacesType',
           sessionsTotal' = Cardinality(Placed'), Cardinality(Placed') <= Sessions,
           drains' = Cardinality(Draining'), Cardinality(Draining') <= MaxRefusalDrains,
           \A c \in Caller : /\ sessions'[c] = Cardinality(PlacedBy(c)')
                             /\ Cardinality(PlacedBy(c)') <= SessionsPerCaller
    PROVE  PlacesInv'
  BY Zenon DEF PlacesInv, PlacesExact, PlacesBounded, Placed, PlacedBy, Draining

\* openSession takes a place only when neither bound is full.
LEMMA OpenKeepsPlaces ==
    ASSUME PlacesInv, NEW s \in Stream, OpenSession(s), ~place[s]
    PROVE  PlacesInv'
<1> DEFINE c == CallerOf[s]
<1>0. c \in Caller /\ PlacesType
  BY StreamAssumption, Zenon DEF PlacesInv
<1>1. CASE SessionsFull(c)
  <2>1. UNCHANGED <<place, sessions, sessionsTotal, drains>> /\ PlacesType'
    BY <1>0, <1>1, Zenon DEF OpenSession, linkVars, PlacesType, Phase
  <2>2. Placed' = Placed /\ (\A d : PlacedBy(d)' = PlacedBy(d))
    BY <2>1, Zenon DEF Placed, PlacedBy
  <2>3. Draining' = Draining
    BY <1>0, <1>1, Zenon DEF Draining, OpenSession, PlacesType
  <2> QED
    BY <2>1, <2>2, <2>3, PlacesFacts, PlacesFromFacts, Zenon
<1>2. CASE ~SessionsFull(c)
  <2>1. /\ phase' = [phase EXCEPT ![s] = "placed"]
        /\ place' = [place EXCEPT ![s] = TRUE]
        /\ sessions' = [sessions EXCEPT ![c] = @ + 1]
        /\ sessionsTotal' = sessionsTotal + 1 /\ drains' = drains
    BY <1>2, Zenon DEF OpenSession, linkVars
  <2>2. PlacesType'
    BY <1>0, <2>1 DEF PlacesType, Phase
  <2>3. Draining' = Draining
    BY <1>0, <2>1, <1>2, Zenon DEF Draining, OpenSession, PlacesType
  <2>4. s \notin Placed /\ s \notin PlacedBy(c)
    BY Zenon DEF Placed, PlacedBy
  <2>5. Placed' = Placed \cup {s}
    BY <1>0, <2>1, Zenon DEF Placed, PlacesType
  <2>6. PlacedBy(c)' = PlacedBy(c) \cup {s}
    BY <1>0, <2>1, Zenon DEF PlacedBy, PlacesType
  <2>7. \A d \in Caller : d # c => PlacedBy(d)' = PlacedBy(d)
    BY <1>0, <2>1, Zenon DEF PlacedBy, PlacesType
  <2>8. Cardinality(Placed') = Cardinality(Placed) + 1 /\ Cardinality(Placed) \in Nat
    BY <2>4, <2>5, PlacesAreFinite, AddedPlace, Zenon
  <2>9. Cardinality(PlacedBy(c)') = Cardinality(PlacedBy(c)) + 1 /\ Cardinality(PlacedBy(c)) \in Nat
    BY <2>4, <2>6, PlacesAreFinite, AddedPlace, Zenon
  <2>10. sessions[c] < SessionsPerCaller /\ sessionsTotal < Sessions
    BY <1>0, <1>2, BoundsAssumption DEF SessionsFull, PlacesType
  <2>11. sessionsTotal' = Cardinality(Placed') /\ Cardinality(Placed') <= Sessions
    BY <2>1, <2>8, <2>10, PlacesFacts, BoundsAssumption
  <2>12. sessions'[c] = Cardinality(PlacedBy(c)') /\ Cardinality(PlacedBy(c)') <= SessionsPerCaller
    <3>1. sessions'[c] = sessions[c] + 1 /\ sessions[c] = Cardinality(PlacedBy(c))
      BY <1>0, <2>1, PlacesFacts, Zenon DEF PlacesType
    <3> QED
      BY <3>1, <2>9, <2>10, BoundsAssumption
  <2>13. ASSUME NEW d \in Caller, d # c
         PROVE  sessions'[d] = Cardinality(PlacedBy(d)') /\ Cardinality(PlacedBy(d)') <= SessionsPerCaller
    <3>1. sessions'[d] = sessions[d] /\ PlacedBy(d)' = PlacedBy(d)
      BY <1>0, <2>1, <2>7, <2>13, Zenon DEF PlacesType
    <3> QED
      BY <3>1, PlacesFacts, Zenon
  <2>14. drains' = Cardinality(Draining') /\ Cardinality(Draining') <= MaxRefusalDrains
    BY <2>1, <2>3, PlacesFacts, Zenon
  <2> QED
    BY <2>2, <2>11, <2>12, <2>13, <2>14, PlacesFromFacts, Zenon
<1> QED
  BY <1>1, <1>2, Zenon

\* A step that moves no session's place keeps the invariant when it counts the
\* drain places right.
LEMMA DrainStepKeepsPlaces ==
    ASSUME PlacesInv, UNCHANGED <<place, sessions, sessionsTotal>>, PlacesType',
           drains' = Cardinality(Draining'), Cardinality(Draining') <= MaxRefusalDrains
    PROVE  PlacesInv'
<1>1. Placed' = Placed /\ \A c : PlacedBy(c)' = PlacedBy(c)
  BY Zenon DEF Placed, PlacedBy
<1> QED
  BY <1>1, PlacesFacts, PlacesFromFacts, Zenon

\* A refusal drains only while the link has a drain place left.
LEMMA RefuseKeepsPlaces ==
    ASSUME PlacesInv, NEW s \in Stream, NEW replayable \in BOOLEAN, RefuseOpen(s, replayable)
    PROVE  PlacesInv'
<1>0. PlacesType /\ UNCHANGED <<place, sessions, sessionsTotal>>
  BY Zenon DEF PlacesInv, RefuseOpen, budgets
<1>1. CASE takeDrain(replayable)
  <2>1. drains' = drains + 1 /\ phase' = [phase EXCEPT ![s] = "draining"] /\ phase[s] = "placed"
    BY <1>1, Zenon DEF RefuseOpen
  <2>2. PlacesType'
    BY <1>0, <2>1 DEF PlacesType, Phase
  <2>3. Draining' = Draining \cup {s} /\ s \notin Draining
    BY <1>0, <2>1, Zenon DEF Draining, PlacesType
  <2>4. Cardinality(Draining') = Cardinality(Draining) + 1 /\ Cardinality(Draining) \in Nat
    BY <2>3, PlacesAreFinite, AddedPlace, Zenon
  <2>5. drains < MaxRefusalDrains /\ drains = Cardinality(Draining)
    BY <1>1, PlacesFacts, Zenon DEF takeDrain
  <2> QED
    BY <1>0, <2>1, <2>2, <2>4, <2>5, BoundsAssumption, DrainStepKeepsPlaces
<1>2. CASE ~takeDrain(replayable)
  <2>1. drains' = drains /\ phase' = [phase EXCEPT ![s] = "refused"] /\ phase[s] = "placed"
    BY <1>2, Zenon DEF RefuseOpen
  <2>2. PlacesType'
    BY <1>0, <2>1, Zenon DEF PlacesType, Phase
  <2>3. Draining' = Draining
    BY <1>0, <2>1, Zenon DEF Draining, PlacesType
  <2> QED
    BY <1>0, <2>1, <2>2, <2>3, PlacesFacts, DrainStepKeepsPlaces, Zenon
<1> QED
  BY <1>1, <1>2, Zenon

\* giveDrain takes back the place of a stream that holds one.
LEMMA GiveDrainKeepsPlaces ==
    ASSUME PlacesInv, NEW s \in Stream, giveDrain(s)
    PROVE  PlacesInv'
<1>0. PlacesType /\ UNCHANGED <<place, sessions, sessionsTotal>>
  BY Zenon DEF PlacesInv, giveDrain, budgets
<1>1. drains' = drains - 1 /\ phase' = [phase EXCEPT ![s] = "refused"] /\ phase[s] = "drained"
  BY Zenon DEF giveDrain
<1>2. PlacesType'
  BY <1>0, <1>1 DEF PlacesType, Phase
<1>3. Draining' = Draining \ {s} /\ s \in Draining
  BY <1>0, <1>1, Zenon DEF Draining, PlacesType
<1>4. Cardinality(Draining') = Cardinality(Draining) - 1 /\ Cardinality(Draining) \in Nat
  BY <1>3, PlacesAreFinite, RemovedPlace, Zenon
<1>5. drains = Cardinality(Draining) /\ Cardinality(Draining) <= MaxRefusalDrains
  BY PlacesFacts, Zenon
<1> QED
  BY <1>0, <1>1, <1>2, <1>4, <1>5, BoundsAssumption, DrainStepKeepsPlaces

\* The release gives back a place that is held, and counts down nothing else.
LEMMA ReleaseKeepsPlaces ==
    ASSUME PlacesInv, NEW s \in Stream, Release(s),
           phase' \in [Stream -> Phase], drains' = drains, Draining' = Draining
    PROVE  PlacesInv'
<1> DEFINE c == CallerOf[s]
<1>0. c \in Caller /\ PlacesType /\ place' = [place EXCEPT ![s] = FALSE]
  BY StreamAssumption, Zenon DEF PlacesInv, Release
<1>1. CASE ~place[s]
  <2>1. UNCHANGED <<sessions, sessionsTotal>> /\ place' = place
    BY <1>0, <1>1, Zenon DEF Release, PlacesType
  <2>2. PlacesType'
    BY <1>0, <2>1, Zenon DEF PlacesType
  <2> QED
    BY <2>1, <2>2, PlacesFacts, DrainStepKeepsPlaces, Zenon
<1>2. CASE place[s]
  <2>1. sessions' = [sessions EXCEPT ![c] = decrement(@, 1)] /\ sessionsTotal' = sessionsTotal - 1
    BY <1>2, Zenon DEF Release
  <2>2. PlacesType'
    BY <1>0, <2>1 DEF PlacesType, decrement
  <2>3. s \in Placed /\ s \in PlacedBy(c)
    BY <1>2, Zenon DEF Placed, PlacedBy
  <2>4. Placed' = Placed \ {s}
    BY <1>0, Zenon DEF Placed, PlacesType
  <2>5. PlacedBy(c)' = PlacedBy(c) \ {s}
    BY <1>0, Zenon DEF PlacedBy, PlacesType
  <2>6. \A d \in Caller : d # c => PlacedBy(d)' = PlacedBy(d)
    BY <1>0, Zenon DEF PlacedBy, PlacesType
  <2>7. Cardinality(Placed') = Cardinality(Placed) - 1 /\ Cardinality(Placed) \in Nat
    BY <2>3, <2>4, PlacesAreFinite, RemovedPlace, Zenon
  <2>8. Cardinality(PlacedBy(c)') = Cardinality(PlacedBy(c)) - 1 /\ Cardinality(PlacedBy(c)) \in Nat
    BY <2>3, <2>5, PlacesAreFinite, RemovedPlace, Zenon
  <2>9. sessionsTotal' = Cardinality(Placed') /\ Cardinality(Placed') <= Sessions
    BY <2>1, <2>7, PlacesFacts, BoundsAssumption
  <2>10. sessions'[c] = Cardinality(PlacedBy(c)') /\ Cardinality(PlacedBy(c)') <= SessionsPerCaller
    <3>1. /\ sessions'[c] = decrement(sessions[c], 1) /\ sessions[c] = Cardinality(PlacedBy(c))
          /\ Cardinality(PlacedBy(c)) <= SessionsPerCaller
      BY <1>0, <2>1, PlacesFacts, Zenon DEF PlacesType
    <3>2. Cardinality(PlacedBy(c)') \in Nat
      BY PlacesAreFinite, <2>5, FS_RemoveElement, FS_CardinalityType, Zenon
    <3> QED
      BY <3>1, <3>2, <2>8, BoundsAssumption DEF decrement
  <2>11. ASSUME NEW d \in Caller, d # c
         PROVE  sessions'[d] = Cardinality(PlacedBy(d)') /\ Cardinality(PlacedBy(d)') <= SessionsPerCaller
    <3>1. sessions'[d] = sessions[d] /\ PlacedBy(d)' = PlacedBy(d)
      BY <1>0, <2>1, <2>6, <2>11, Zenon DEF PlacesType
    <3> QED
      BY <3>1, PlacesFacts, Zenon
  <2>12. drains' = Cardinality(Draining') /\ Cardinality(Draining') <= MaxRefusalDrains
    BY PlacesFacts, Zenon
  <2> QED
    BY <2>2, <2>9, <2>10, <2>11, <2>12, PlacesFromFacts, Zenon
<1> QED
  BY <1>1, <1>2, Zenon

\* No stream holds a place before its open was taken: openSession runs once.
Unplaced == \A s \in Stream : phase[s] = "none" => ~place[s]

\* The steps that touch neither a place nor how far incoming took a stream.
LEMMA OtherStepsKeepPlaces ==
    ASSUME NEW s \in Stream, StreamStep(s),
           ~DropOpen(s), ~OpenSession(s), ~(\E b \in BOOLEAN : RefuseOpen(s, b)),
           ~DrainEnds(s), ~giveDrain(s), ~Serve(s), ~EndRelease(s)
    PROVE  UNCHANGED placeVars
<1> USE DEF placeVars, budgets, linkVars
<1>1. CASE \E f \in Frame : ReadFrame(s, f)
  BY <1>1, Zenon DEF ReadFrame
<1>2. CASE ReadFails(s)
  BY <1>2, Zenon DEF ReadFails
<1>3. CASE ApplyData(s) \/ ReadMalformed(s) \/ ReadError(s)
  BY <1>3, Zenon DEF ApplyData, ReadMalformed, ReadError
<1>4. CASE ApplyEnd(s) \/ ApplyLast(s)
  BY <1>4, Zenon DEF ApplyEnd, ApplyLast, PeerEnds
<1>5. CASE \E what \in Write : Send(s, what)
  BY <1>5, Zenon DEF Send
<1>6. CASE Written(s) \/ WriteFails(s) \/ SentAlready(s)
  BY <1>6, Zenon DEF Written, WriteFails, WriteReturns, SentAlready
<1>7. CASE Recv(s) \/ RecvRefund(s) \/ EndBegin(s) \/ EndRefund(s)
  BY <1>7, Zenon DEF Recv, RecvRefund, EndBegin, EndRefund
<1>8. CASE EndStreamsCall(s) \/ EndStreamsNext(s)
  BY <1>8, Zenon DEF EndStreamsCall, EndStreamsNext
<1> QED
  BY <1>1, <1>2, <1>3, <1>4, <1>5, <1>6, <1>7, <1>8, Zenon DEF StreamStep

\* Every step keeps the places exact and bounded.
LEMMA PlacesStep == PlacesInv /\ Unplaced /\ [Next]_vars => PlacesInv' /\ Unplaced'
<1> SUFFICES ASSUME PlacesInv, Unplaced, [Next]_vars PROVE PlacesInv' /\ Unplaced'
  BY Zenon
<1>0. PlacesType
  BY Zenon DEF PlacesInv
<1>1. ASSUME UNCHANGED placeVars PROVE PlacesInv' /\ Unplaced'
  BY <1>1, Zenon DEF placeVars, PlacesInv, PlacesType, PlacesExact, PlacesBounded, Unplaced
<1>2. CASE UNCHANGED vars \/ EndStreams \/ CutConn \/ LinkDone
  BY <1>1, <1>2, Zenon DEF vars, EndStreams, CutConn, LinkDone, placeVars, budgets, linkVars
<1>3. ASSUME NEW s \in Stream, StreamStep(s) PROVE PlacesInv' /\ Unplaced'
  <2>1. CASE DropOpen(s)
    <3>1. UNCHANGED <<place, sessions, sessionsTotal, drains>> /\ PlacesType'
      BY <1>0, <2>1, Zenon DEF DropOpen, PlacesType, Phase, budgets, linkVars
    <3>2. Draining' = Draining
      BY <1>0, <2>1, Zenon DEF DropOpen, PlacesType, Draining
    <3> QED
      BY <1>0, <2>1, <3>1, <3>2, PlacesFacts, DrainStepKeepsPlaces, Zenon DEF Unplaced, DropOpen, PlacesType
  <2>2. CASE OpenSession(s)
    <3>1. ~place[s]
      BY <2>2, Zenon DEF OpenSession, Unplaced
    <3>2. Unplaced'
      BY <1>0, <2>2, Zenon DEF OpenSession, Unplaced, PlacesType
    <3> QED
      BY <2>2, <3>1, <3>2, OpenKeepsPlaces, Zenon
  <2>3. ASSUME NEW b \in BOOLEAN, RefuseOpen(s, b) PROVE PlacesInv' /\ Unplaced'
    <3>1. Unplaced'
      BY <1>0, <2>3, Zenon DEF RefuseOpen, Unplaced, PlacesType
    <3> QED
      BY <2>3, <3>1, RefuseKeepsPlaces, Zenon
  <2>4. CASE DrainEnds(s)
    <3>1. UNCHANGED <<place, sessions, sessionsTotal, drains>> /\ PlacesType'
      BY <1>0, <2>4, Zenon DEF DrainEnds, PlacesType, Phase, budgets, linkVars
    <3>2. Draining' = Draining
      BY <1>0, <2>4, Zenon DEF DrainEnds, PlacesType, Draining
    <3> QED
      BY <1>0, <2>4, <3>1, <3>2, PlacesFacts, DrainStepKeepsPlaces, Zenon DEF Unplaced, DrainEnds, PlacesType
  <2>5. CASE giveDrain(s)
    <3>1. Unplaced'
      BY <1>0, <2>5, Zenon DEF giveDrain, Unplaced, PlacesType
    <3> QED
      BY <2>5, <3>1, GiveDrainKeepsPlaces, Zenon
  <2>6. CASE Serve(s) /\ link # "done"
    <3>1. UNCHANGED <<place, sessions, sessionsTotal, drains>> /\ PlacesType'
      BY <1>0, <2>6, Zenon DEF Serve, PlacesType, Phase
    <3>2. Draining' = Draining /\ Unplaced'
      BY <1>0, <2>6, Zenon DEF Serve, PlacesType, Draining, Unplaced
    <3> QED
      BY <3>1, <3>2, PlacesFacts, DrainStepKeepsPlaces, Zenon
  <2>7. CASE Serve(s) /\ link = "done"
    <3>1. Release(s) /\ drains' = drains /\ phase' = [phase EXCEPT ![s] = "gone"] /\ phase[s] = "placed"
      BY <2>7, Zenon DEF Serve
    <3>2. phase' \in [Stream -> Phase] /\ Draining' = Draining
      BY <1>0, <3>1, Zenon DEF PlacesType, Phase, Draining
    <3>3. Unplaced'
      BY <1>0, <3>1, Zenon DEF PlacesType, Unplaced, Release
    <3> QED
      BY <3>1, <3>2, <3>3, ReleaseKeepsPlaces, Zenon
  <2>8. CASE EndRelease(s)
    <3>1. Release(s) /\ drains' = drains /\ phase' = phase
      BY <2>8, Zenon DEF EndRelease
    <3>2. phase' \in [Stream -> Phase] /\ Draining' = Draining
      BY <1>0, <3>1, Zenon DEF PlacesType, Draining
    <3>3. Unplaced'
      BY <1>0, <3>1, Zenon DEF PlacesType, Unplaced, Release
    <3> QED
      BY <3>1, <3>2, <3>3, ReleaseKeepsPlaces, Zenon
  <2> QED
    BY <1>1, <1>3, <2>1, <2>2, <2>3, <2>4, <2>5, <2>6, <2>7, <2>8, OtherStepsKeepPlaces, Zenon
<1> QED
  BY <1>2, <1>3, Zenon DEF Next

\* No stream holds a place at first.
LEMMA UnplacedInit == Init => Unplaced
  BY Zenon DEF Init, Unplaced

\* The session and drain counters are, at every moment, the places the streams
\* really hold: each is given back once, whoever ends the stream.
THEOREM PlacesAreExact == Spec => []PlacesExact
<1>1. PlacesInv => PlacesExact
  BY Zenon DEF PlacesInv
<1> QED
  BY <1>1, PlacesInit, UnplacedInit, PlacesStep, PTL DEF Spec

\* openSession and takeDrain keep the places held within their bounds.
THEOREM PlacesAreBounded == Spec => []PlacesBounded
<1>1. PlacesInv => PlacesBounded
  BY Zenon DEF PlacesInv
<1> QED
  BY <1>1, PlacesInit, UnplacedInit, PlacesStep, PTL DEF Spec
----------------------------------------------------------------------------
endVars == <<endStep, sentEnd, peerEnded, lastWritten>>

EndsType ==
    /\ endStep \in [Stream -> EndStep]
    /\ sentEnd \in [Stream -> BOOLEAN]
    /\ peerEnded \in [Stream -> BOOLEAN]
    /\ lastWritten \in [Stream -> BOOLEAN]

\* A last frame is marked where this side is marked as ended, under mu: that is
\* what the reader looks at when the peer's end arrives.
LastMarksEnd == \A s \in Stream : lastWritten[s] => sentEnd[s]

EndsInv == EndsType /\ LastMarksEnd /\ BothEndedEnds

\* A stream whose end is called stays so, and the other streams' ends as they were.
LEMMA CalledStays ==
    ASSUME EndsType, NEW s \in Stream, CallEnd(s)
    PROVE  /\ endStep' \in [Stream -> EndStep]
           /\ endStep'[s] # "no"
           /\ \A t \in Stream : endStep[t] # "no" => endStep'[t] # "no"
  BY Zenon DEF CallEnd, EndsType, EndStep

\* A call of end keeps the invariant, whether this side or the peer's is marked
\* with it or neither is.
LEMMA CallKeepsEnds ==
    ASSUME EndsInv, NEW s \in Stream, CallEnd(s), EndsType',
           \A t \in Stream : sentEnd[t] => sentEnd'[t],
           \A t \in Stream : lastWritten'[t] => lastWritten[t] \/ (t = s /\ sentEnd'[t]),
           \A t \in Stream : t # s => peerEnded'[t] = peerEnded[t]
    PROVE  EndsInv'
<1>1. EndsType /\ LastMarksEnd /\ BothEndedEnds
  BY Zenon DEF EndsInv
<1>2. LastMarksEnd'
  BY <1>1, Zenon DEF LastMarksEnd
<1>3. BothEndedEnds'
  BY <1>1, CalledStays, Zenon DEF BothEndedEnds
<1> QED
  BY <1>2, <1>3, Zenon DEF EndsInv

\* The peer's end on a side that has not ended: no last frame of it went out.
LEMMA PeerEndKeepsEnds ==
    ASSUME EndsInv, NEW s \in Stream, ApplyEnd(s)
    PROVE  EndsInv'
<1>1. peerEnded' = [peerEnded EXCEPT ![s] = TRUE] /\ UNCHANGED <<sentEnd, lastWritten>>
  BY Zenon DEF ApplyEnd, PeerEnds
<1>2. EndsType
  BY Zenon DEF EndsInv
<1>3. CASE sentEnd[s]
  <2>1. CallEnd(s)
    BY <1>3, Zenon DEF ApplyEnd
  <2>2. EndsType'
    BY <1>1, <1>2, <2>1, CalledStays, Zenon DEF EndsType
  <2> QED
    BY <1>1, <1>2, <2>1, <2>2, CallKeepsEnds, Zenon DEF EndsType
<1>4. CASE ~sentEnd[s]
  <2>1. UNCHANGED endStep
    BY <1>4, Zenon DEF ApplyEnd
  <2> QED
    BY <1>1, <1>4, <2>1, Zenon DEF EndsInv, EndsType, LastMarksEnd, BothEndedEnds
<1> QED
  BY <1>3, <1>4, Zenon

\* A last frame written: end is called if the peer had ended, and this side is
\* marked in any case.
LEMMA WrittenKeepsEnds ==
    ASSUME EndsInv, NEW s \in Stream, Written(s)
    PROVE  EndsInv'
<1> DEFINE last == writing[s] # "chunk"
<1> DEFINE closed == writing[s] = "end" /\ endStep[s] = "no"
<1>0. closed => last
  BY Zenon
<1>1. /\ sentEnd' = [sentEnd EXCEPT ![s] = @ \/ last]
      /\ lastWritten' = [lastWritten EXCEPT ![s] = @ \/ closed]
      /\ UNCHANGED peerEnded
  BY Zenon DEF Written, WriteReturns
<1>2. EndsType /\ LastMarksEnd /\ BothEndedEnds
  BY Zenon DEF EndsInv
<1> HIDE DEF last, closed
<1>3. /\ sentEnd' \in [Stream -> BOOLEAN]
      /\ lastWritten' \in [Stream -> BOOLEAN]
      /\ peerEnded' \in [Stream -> BOOLEAN]
  BY <1>1, <1>2, Zenon DEF EndsType
<1>4. /\ \A t \in Stream : sentEnd[t] => sentEnd'[t]
      /\ \A t \in Stream : lastWritten'[t] => lastWritten[t] \/ (t = s /\ closed)
      /\ closed => sentEnd'[s]
  BY <1>0, <1>1, <1>2, Zenon DEF EndsType
<1>5. CASE writing[s] \in {"close", "abort"} \/ (last /\ peerEnded[s])
  <2>1. CallEnd(s)
    BY <1>5, Zenon DEF Written, last
  <2>2. EndsType'
    BY <1>2, <1>3, <2>1, CalledStays, Zenon DEF EndsType
  <2> QED
    BY <1>1, <1>4, <2>1, <2>2, CallKeepsEnds, Zenon
<1>6. CASE ~(writing[s] \in {"close", "abort"} \/ (last /\ peerEnded[s]))
  <2>1. UNCHANGED endStep
    BY <1>6, Zenon DEF Written, last
  <2>2. closed => ~peerEnded[s]
    BY <1>0, <1>6, Zenon
  <2>3. EndsType'
    BY <1>2, <1>3, <2>1, Zenon DEF EndsType
  <2>4. LastMarksEnd'
    BY <1>2, <1>4, Zenon DEF LastMarksEnd
  <2>5. BothEndedEnds'
    BY <1>1, <1>2, <1>4, <2>1, <2>2, Zenon DEF BothEndedEnds
  <2> QED
    BY <2>3, <2>4, <2>5, Zenon DEF EndsInv
<1> QED
  BY <1>5, <1>6, Zenon

\* Every step keeps the two ends from missing each other.
LEMMA EndsStep == EndsInv /\ [Next]_vars => EndsInv'
<1> SUFFICES ASSUME EndsInv, [Next]_vars PROVE EndsInv'
  BY Zenon
<1> USE DEF sides, ending
<1>0. EndsType
  BY Zenon DEF EndsInv
<1>1. ASSUME UNCHANGED endVars PROVE EndsInv'
  BY <1>1, Zenon DEF endVars, EndsInv, EndsType, LastMarksEnd, BothEndedEnds
<1>2. CASE UNCHANGED vars \/ EndStreams \/ CutConn \/ LinkDone
  BY <1>1, <1>2, Zenon DEF vars, EndStreams, CutConn, LinkDone, endVars
<1>3. ASSUME NEW s \in Stream, StreamStep(s) PROVE EndsInv'
  <2>1. CASE DropOpen(s) \/ OpenSession(s) \/ giveDrain(s) \/ Serve(s)
    BY <1>1, <2>1, Zenon DEF DropOpen, OpenSession, giveDrain, Serve, endVars
  <2>2. ASSUME NEW b \in BOOLEAN, RefuseOpen(s, b) PROVE EndsInv'
    <3>1. CASE takeDrain(b)
      <4>1. sentEnd' = [sentEnd EXCEPT ![s] = TRUE] /\ UNCHANGED <<endStep, peerEnded, lastWritten>>
        BY <2>2, <3>1, Zenon DEF RefuseOpen
      <4> QED
        BY <4>1, Zenon DEF EndsInv, EndsType, LastMarksEnd, BothEndedEnds
    <3>2. CASE ~takeDrain(b)
      <4>1. CallEnd(s) /\ sentEnd' = [sentEnd EXCEPT ![s] = TRUE] /\ UNCHANGED <<peerEnded, lastWritten>>
        BY <2>2, <3>2, Zenon DEF RefuseOpen
      <4>2. EndsType'
        BY <1>0, <4>1, CalledStays, Zenon DEF EndsType
      <4> QED
        BY <1>0, <4>1, <4>2, CallKeepsEnds, Zenon DEF EndsType
    <3> QED
      BY <3>1, <3>2, Zenon
  <2>3. CASE DrainEnds(s) \/ ReadFails(s) \/ SentAlready(s) \/ EndStreamsCall(s)
    <3>1. CallEnd(s) /\ UNCHANGED <<sentEnd, peerEnded, lastWritten>>
      BY <2>3, Zenon DEF DrainEnds, ReadFails, SentAlready, EndStreamsCall
    <3>2. EndsType'
      BY <1>0, <3>1, CalledStays, Zenon DEF EndsType
    <3> QED
      BY <3>1, <3>2, CallKeepsEnds, Zenon
  <2>4. CASE (\E f \in Frame : ReadFrame(s, f)) \/ (\E what \in Write : Send(s, what))
    BY <1>1, <2>4, Zenon DEF ReadFrame, Send, endVars
  <2>5. CASE ApplyData(s) \/ ReadMalformed(s) \/ Recv(s) \/ RecvRefund(s) \/ EndStreamsNext(s)
    BY <1>1, <2>5, Zenon DEF ApplyData, ReadMalformed, Recv, RecvRefund, EndStreamsNext, endVars
  <2>6. CASE ApplyLast(s) \/ ReadError(s)
    <3>1. /\ CallEnd(s) /\ peerEnded' = [peerEnded EXCEPT ![s] = TRUE]
          /\ UNCHANGED <<sentEnd, lastWritten>>
      BY <2>6, Zenon DEF ApplyLast, PeerEnds, ReadError
    <3>2. EndsType'
      BY <1>0, <3>1, CalledStays, Zenon DEF EndsType
    <3> QED
      BY <1>0, <3>1, <3>2, CallKeepsEnds, Zenon DEF EndsType
  <2>7. CASE WriteFails(s)
    <3>0. sentEnd' = [sentEnd EXCEPT ![s] = TRUE] /\ UNCHANGED <<peerEnded, lastWritten>>
      BY <2>7, Zenon DEF WriteFails, WriteReturns
    <3>1. CASE writing[s] \in {"close", "abort"}
      <4>1. CallEnd(s)
        BY <2>7, <3>1, Zenon DEF WriteFails
      <4>2. EndsType'
        BY <1>0, <3>0, <4>1, CalledStays, Zenon DEF EndsType
      <4> QED
        BY <1>0, <3>0, <4>1, <4>2, CallKeepsEnds, Zenon DEF EndsType
    <3>2. CASE writing[s] \notin {"close", "abort"}
      <4>1. UNCHANGED endStep
        BY <2>7, <3>2, Zenon DEF WriteFails
      <4> QED
        BY <3>0, <4>1, Zenon DEF EndsInv, EndsType, LastMarksEnd, BothEndedEnds
    <3> QED
      BY <3>1, <3>2, Zenon
  <2>8. CASE EndRefund(s) \/ EndRelease(s)
    <3>1. /\ \E e \in EndStep \ {"no"} : endStep' = [endStep EXCEPT ![s] = e]
          /\ UNCHANGED <<sentEnd, peerEnded, lastWritten>>
      BY <2>8, Zenon DEF EndRefund, EndRelease, EndStep
    <3> QED
      BY <3>1, Zenon DEF EndsInv, EndsType, LastMarksEnd, BothEndedEnds
  <2>9. CASE EndBegin(s)
    <3>1. /\ endStep' = [endStep EXCEPT ![s] = "begun"] /\ sentEnd' = [sentEnd EXCEPT ![s] = TRUE]
          /\ UNCHANGED <<peerEnded, lastWritten>>
      BY <2>9, Zenon DEF EndBegin
    <3> QED
      BY <3>1, Zenon DEF EndsInv, EndsType, EndStep, LastMarksEnd, BothEndedEnds
  <2> QED
    BY <1>3, <2>1, <2>2, <2>3, <2>4, <2>5, <2>6, <2>7, <2>8, <2>9, PeerEndKeepsEnds, WrittenKeepsEnds, Zenon
       DEF StreamStep
<1> QED
  BY <1>2, <1>3, Zenon DEF Next

\* A stream whose both sides sent their last frame has its end called, in every
\* order write and peerEndReached take the stream's mutex in.
THEOREM BothEndsMeet == Spec => []BothEndedEnds
<1>1. Init => EndsInv
  BY DEF Init, EndsInv, EndsType, EndStep, LastMarksEnd, BothEndedEnds
<1>2. EndsInv => BothEndedEnds
  BY Zenon DEF EndsInv
<1> QED
  BY <1>1, <1>2, EndsStep, PTL DEF Spec
----------------------------------------------------------------------------
\* Induction over the naturals, over a set of them.
LEMMA Induction ==
    ASSUME NEW S \in SUBSET Nat, 0 \in S, \A n \in S : n + 1 \in S
    PROVE  S = Nat
<1> DEFINE R == {ss \in Nat \X Nat : ss[1] < ss[2]}
           T == Nat \ S
<1>0. OpToRel(<, Nat) = R
    BY Zenon DEF OpToRel
<1>1. IsWellFoundedOn(R, Nat)
    BY <1>0, NatLessThanWellFounded, Zenon
<1> HIDE DEF R
<1>2. ASSUME T # {} PROVE FALSE
  <2>1. T \in SUBSET Nat
    BY Zenon
  <2>2. \E x \in T : \A y \in T : ~(<<y, x>> \in R)
    BY <1>1, <1>2, <2>1, WFMin, Zenon
  <2>3. PICK x \in T : \A y \in T : ~(<<y, x>> \in R)
    BY <2>2, Zenon
  <2>4. x \in Nat /\ x # 0 /\ x \notin S
    BY Zenon
  <2>5. x - 1 \in Nat /\ x = (x - 1) + 1 /\ <<x - 1, x>> \in R
    BY <2>4 DEF R
  <2>6. x - 1 \in S
    BY <2>3, <2>5, Zenon
  <2> QED
    BY <2>4, <2>5, <2>6, Zenon
<1> QED
    BY <1>2, Zenon

\* The function a sum is the value of.
Sums(F, S, f) == f = [T \in SUBSET S |-> IF T = {} THEN 0
                        ELSE LET x == CHOOSE x \in T : TRUE IN F[x] + f[T \ {x}]]

\* What the community module's fold computes, written as that function.
LEMMA SumIs ==
    ASSUME NEW F, NEW S
    PROVE  SumFunctionOnSet(F, S) = (CHOOSE f : Sums(F, S, f))[S]
BY Zenon DEF SumFunctionOnSet, FoldFunctionOnSet, MapThenFoldSet, Sums

Least(T) == CHOOSE x \in T : TRUE
Upto(S, n) == {T \in SUBSET S : Cardinality(T) <= n}

\* The subsets of a finite set, by their sizes.
LEMMA Sizes ==
    ASSUME NEW S, IsFiniteSet(S), NEW T \in SUBSET S
    PROVE  /\ IsFiniteSet(T) /\ Cardinality(T) \in Nat /\ Cardinality(T) <= Cardinality(S)
           /\ Cardinality(T) = 0 <=> T = {}
           /\ \A x \in T : Cardinality(T \ {x}) = Cardinality(T) - 1
<1>1. IsFiniteSet(T)
    BY FS_Subset, Zenon
<1>2. Cardinality(T) \in Nat /\ (Cardinality(T) = 0 <=> T = {})
    BY <1>1, FS_CardinalityType, FS_EmptySet, Zenon
<1>3. Cardinality(T) <= Cardinality(S)
    BY FS_Subset, Zenon
<1>4. \A x \in T : Cardinality(T \ {x}) = Cardinality(T) - 1
    BY <1>1, FS_RemoveElement, Zenon
<1> QED
    BY <1>1, <1>2, <1>3, <1>4, Zenon

\* There is such a function on a finite set.
LEMMA SumsExist ==
    ASSUME NEW F, NEW S, IsFiniteSet(S)
    PROVE  \E f : Sums(F, S, f)
<1> DEFINE Body(f, T) == IF T = {} THEN 0 ELSE F[Least(T)] + f[T \ {Least(T)}]
           Upon(n, f) == f = [T \in Upto(S, n) |-> Body(f, T)]
           N == {n \in Nat : \E f : Upon(n, f)}
<1>0. \A T : T # {} => Least(T) \in T
    BY Zenon DEF Least
<1>1. 0 \in N
  <2>1. \A T \in Upto(S, 0) : T = {}
    <3> SUFFICES ASSUME NEW T \in Upto(S, 0) PROVE T = {}
      BY Zenon
    <3>1. T \in SUBSET S /\ Cardinality(T) <= 0
      BY Zenon DEF Upto
    <3>2. Cardinality(T) \in Nat /\ (Cardinality(T) = 0 <=> T = {})
      BY <3>1, Sizes, Zenon
    <3> QED
      BY <3>1, <3>2
  <2> DEFINE f == [T \in Upto(S, 0) |-> 0]
  <2>2. f = [T \in Upto(S, 0) |-> Body(f, T)]
    BY <2>1, Zenon
  <2> QED
    BY <2>2, Zenon
<1>2. ASSUME NEW n \in N PROVE n + 1 \in N
  <2>1. n \in Nat /\ \E f : Upon(n, f)
    BY Zenon
  <2>2. PICK f : Upon(n, f)
    BY <2>1, Zenon
  <2> DEFINE g == [T \in Upto(S, n + 1) |-> Body(f, T)]
  <2>3. ASSUME NEW T \in Upto(S, n) PROVE T \in Upto(S, n + 1) /\ g[T] = f[T]
    <3>1. T \in SUBSET S /\ Cardinality(T) \in Nat /\ Cardinality(T) <= n
      BY Sizes, Zenon DEF Upto
    <3>2. Cardinality(T) <= n + 1
      BY <2>1, <3>1
    <3>3. T \in Upto(S, n + 1)
      BY <3>1, <3>2, Zenon DEF Upto
    <3>4. f[T] = Body(f, T)
      BY <2>2, Zenon
    <3> QED
      BY <3>3, <3>4, Zenon
  <2>4. ASSUME NEW T \in Upto(S, n + 1), T # {} PROVE T \ {Least(T)} \in Upto(S, n)
    <3>1. T \in SUBSET S /\ Cardinality(T) <= n + 1 /\ Least(T) \in T
      BY <1>0, <2>4, Zenon DEF Upto
    <3>2. Cardinality(T) \in Nat /\ Cardinality(T \ {Least(T)}) = Cardinality(T) - 1
      BY <3>1, Sizes, Zenon
    <3>3. Cardinality(T \ {Least(T)}) <= n
      BY <2>1, <3>1, <3>2
    <3> QED
      BY <3>1, <3>3, Zenon DEF Upto
  <2>5. \A T \in Upto(S, n + 1) : Body(f, T) = Body(g, T)
    BY <2>3, <2>4, Zenon
  <2>6. g = [T \in Upto(S, n + 1) |-> Body(g, T)]
    BY <2>5, Zenon
  <2>7. n + 1 \in Nat
    BY <2>1
  <2> QED
    BY <2>6, <2>7, Zenon
<1>3. N = Nat
  <2>1. N \in SUBSET Nat
    BY Zenon
  <2> HIDE DEF N
  <2> QED
    BY <1>1, <1>2, <2>1, Induction, Zenon
<1>4. Cardinality(S) \in Nat
    BY FS_CardinalityType, Zenon
<1>5. PICK f : Upon(Cardinality(S), f)
    BY <1>3, <1>4, Zenon
<1>6. Upto(S, Cardinality(S)) = SUBSET S
    BY Sizes, Zenon DEF Upto
<1>7. Sums(F, S, f)
    BY <1>5, <1>6, Zenon DEF Sums, Least
<1> QED
    BY <1>7, Zenon

\* What such a function is at a set.
LEMMA SumsAt ==
    ASSUME NEW F, NEW S, NEW f, Sums(F, S, f)
    PROVE  /\ f[{}] = 0
           /\ \A T \in SUBSET S : T # {} => Least(T) \in T /\ f[T] = F[Least(T)] + f[T \ {Least(T)}]
<1>1. f = [T \in SUBSET S |-> IF T = {} THEN 0 ELSE F[Least(T)] + f[T \ {Least(T)}]]
    BY Zenon DEF Sums, Least
<1>2. {} \in SUBSET S
    BY Zenon
<1>3. f[{}] = 0
    BY <1>1, <1>2, Zenon
<1>4. \A T \in SUBSET S : T # {} => Least(T) \in T
    BY Zenon DEF Least
<1>5. \A T \in SUBSET S : T # {} => f[T] = F[Least(T)] + f[T \ {Least(T)}]
    BY <1>1, Zenon
<1> QED
    BY <1>3, <1>4, <1>5, Zenon

\* Two of them agree on what both are defined on.
LEMMA SumsAgree ==
    ASSUME NEW F, NEW G, NEW S, IsFiniteSet(S), NEW T \in SUBSET S, NEW f, NEW g, Sums(F, S, f), Sums(G, T, g),
           \A x \in T : F[x] = G[x]
    PROVE  f[T] = g[T]
<1>a. f[{}] = 0 /\ \A U \in SUBSET S : U # {} => Least(U) \in U /\ f[U] = F[Least(U)] + f[U \ {Least(U)}]
    BY SumsAt
<1>b. g[{}] = 0 /\ \A U \in SUBSET T : U # {} => g[U] = G[Least(U)] + g[U \ {Least(U)}]
    BY SumsAt
<1> DEFINE N == {n \in Nat : \A U \in SUBSET T : Cardinality(U) = n => f[U] = g[U]}
<1>1. \A U \in SUBSET T : U \in SUBSET S /\ Cardinality(U) \in Nat /\ (Cardinality(U) = 0 <=> U = {})
    BY Sizes, Zenon
<1>2. 0 \in N
  <2>1. 0 \in Nat
    OBVIOUS
  <2> QED
    BY <1>1, <1>a, <1>b, <2>1, Zenon
<1>3. ASSUME NEW n \in N PROVE n + 1 \in N
  <2>1. n \in Nat /\ n + 1 \in Nat /\ n + 1 # 0 /\ (n + 1) - 1 = n
    BY SMT
  <2>2. ASSUME NEW U \in SUBSET T, Cardinality(U) = n + 1 PROVE f[U] = g[U]
    <3>1. U # {} /\ U \in SUBSET S
      BY <1>1, <2>1, <2>2, Zenon
    <3>2. /\ Least(U) \in U /\ f[U] = F[Least(U)] + f[U \ {Least(U)}]
          /\ g[U] = G[Least(U)] + g[U \ {Least(U)}]
      BY <1>a, <1>b, <3>1, Zenon
    <3>3. Cardinality(U \ {Least(U)}) = n
      BY <2>1, <2>2, <3>1, <3>2, Sizes, Zenon
    <3>4. f[U \ {Least(U)}] = g[U \ {Least(U)}]
      BY <3>3, Zenon
    <3> QED
      BY <3>2, <3>4, Zenon
  <2> QED
    BY <2>1, <2>2, Zenon
<1>4. N = Nat
  <2>1. N \in SUBSET Nat
    BY Zenon
  <2> HIDE DEF N
  <2> QED
    BY <1>2, <1>3, <2>1, Induction, Zenon
<1> QED
    BY <1>1, <1>4, Zenon

\* A sum of terms of a set that is closed under addition is in that set.
LEMMA SumsIn ==
    ASSUME NEW D, 0 \in D, \A a, b \in D : a + b \in D,
           NEW F, NEW S, IsFiniteSet(S), NEW f, Sums(F, S, f), \A x \in S : F[x] \in D
    PROVE  \A T \in SUBSET S : f[T] \in D
<1>a. f[{}] = 0 /\ \A T \in SUBSET S : T # {} => Least(T) \in T /\ f[T] = F[Least(T)] + f[T \ {Least(T)}]
    BY SumsAt
<1> DEFINE N == {n \in Nat : \A T \in SUBSET S : Cardinality(T) = n => f[T] \in D}
<1>1. \A T \in SUBSET S : Cardinality(T) \in Nat /\ (Cardinality(T) = 0 <=> T = {})
    BY Sizes, Zenon
<1>2. 0 \in N
  <2>1. 0 \in Nat
    OBVIOUS
  <2> QED
    BY <1>1, <1>a, <2>1, Zenon
<1>3. ASSUME NEW n \in N PROVE n + 1 \in N
  <2>1. n \in Nat /\ n + 1 \in Nat /\ n + 1 # 0 /\ (n + 1) - 1 = n
    BY SMT
  <2>2. ASSUME NEW T \in SUBSET S, Cardinality(T) = n + 1 PROVE f[T] \in D
    <3>0. T # {}
      BY <1>1, <2>1, <2>2, Zenon
    <3>1. Least(T) \in T /\ f[T] = F[Least(T)] + f[T \ {Least(T)}]
      BY <1>a, <3>0, Zenon
    <3>2. T \ {Least(T)} \in SUBSET S /\ Cardinality(T \ {Least(T)}) = n
      BY <2>1, <2>2, <3>1, Sizes, Zenon
    <3>3. f[T \ {Least(T)}] \in D /\ F[Least(T)] \in D
      BY <3>1, <3>2, Zenon
    <3> QED
      BY <3>1, <3>3, Zenon
  <2> QED
    BY <2>1, <2>2, Zenon
<1>4. N = Nat
  <2>1. N \in SUBSET Nat
    BY Zenon
  <2> HIDE DEF N
  <2> QED
    BY <1>2, <1>3, <2>1, Induction, Zenon
<1> QED
    BY <1>1, <1>4, Zenon

\* So sums of integers are integers.
LEMMA SumsInt ==
    ASSUME NEW F, NEW S, IsFiniteSet(S), NEW f, Sums(F, S, f), \A x \in S : F[x] \in Int
    PROVE  \A T \in SUBSET S : f[T] \in Int
<1>1. 0 \in Int /\ \A a, b \in Int : a + b \in Int
    OBVIOUS
<1> QED
    BY <1>1, SumsIn, Zenon

\* Any of the terms of a sum of integers may come first.
LEMMA SumsAny ==
    ASSUME NEW F, NEW S, IsFiniteSet(S), NEW f, Sums(F, S, f), \A x \in S : F[x] \in Int
    PROVE  \A T \in SUBSET S : \A x \in T : f[T] = F[x] + f[T \ {x}]
<1>a. f[{}] = 0 /\ \A T \in SUBSET S : T # {} => Least(T) \in T /\ f[T] = F[Least(T)] + f[T \ {Least(T)}]
    BY SumsAt
<1> DEFINE AnyFirst(T) == \A x \in T : f[T] = F[x] + f[T \ {x}]
           N == {n \in Nat : \A T \in SUBSET S : Cardinality(T) = n => AnyFirst(T)}
<1>1. \A T \in SUBSET S : f[T] \in Int /\ Cardinality(T) \in Nat /\ (Cardinality(T) = 0 <=> T = {})
    BY Sizes, SumsInt, Zenon
<1>2. 0 \in N
  <2>1. 0 \in Nat
    OBVIOUS
  <2> QED
    BY <1>1, <2>1, Zenon
<1>3. ASSUME NEW n \in N PROVE n + 1 \in N
  <2>1. n \in Nat /\ n + 1 \in Nat /\ n + 1 # 0 /\ (n + 1) - 1 = n
    BY SMT
  <2>i. \A T \in SUBSET S : Cardinality(T) = n => AnyFirst(T)
    BY Zenon
  <2>2. ASSUME NEW T \in SUBSET S, Cardinality(T) = n + 1 PROVE AnyFirst(T)
    <3> DEFINE c == Least(T)
    <3>0. T # {}
      BY <1>1, <2>1, <2>2, Zenon
    <3>1. c \in T /\ f[T] = F[c] + f[T \ {c}]
      BY <1>a, <3>0, Zenon
    <3> HIDE DEF c
    <3>2. \A x \in T : Cardinality(T \ {x}) = n
      BY <2>1, <2>2, Sizes, Zenon
    <3>3. \A x \in T : \A y \in T \ {x} : f[T \ {x}] = F[y] + f[(T \ {x}) \ {y}]
      BY <2>i, <3>2, Zenon
    <3>5. ASSUME NEW x \in T, x # c PROVE f[T] = F[x] + f[T \ {x}]
      <4> DEFINE rest == f[(T \ {c}) \ {x}]
      <4>1. x \in T \ {c} /\ c \in T \ {x} /\ (T \ {x}) \ {c} = (T \ {c}) \ {x}
        BY <3>1, <3>5, Zenon
      <4>2. f[T \ {c}] = F[x] + rest
        BY <3>1, <3>3, <4>1, Zenon
      <4>3. f[T \ {x}] = F[c] + rest
        <5>1. f[T \ {x}] = F[c] + f[(T \ {x}) \ {c}]
          BY <3>3, <4>1, Zenon
        <5> QED
          BY <4>1, <5>1, Zenon
      <4>4. rest \in Int /\ F[x] \in Int /\ F[c] \in Int
        BY <1>1, <3>1, Zenon
      <4> QED
        BY <3>1, <4>2, <4>3, <4>4
    <3> QED
      BY <3>1, <3>5, Zenon
  <2> QED
    BY <2>1, <2>2, Zenon
<1>4. N = Nat
  <2>1. N \in SUBSET Nat
    BY Zenon
  <2> HIDE DEF N
  <2> QED
    BY <1>2, <1>3, <2>1, Induction, Zenon
<1> QED
    BY <1>1, <1>4, Zenon

\* Nothing sums to zero.
LEMMA SumEmpty ==
    ASSUME NEW F
    PROVE  SumFunctionOnSet(F, {}) = 0
<1>1. IsFiniteSet({})
    BY FS_EmptySet, Zenon
<1>2. \E f : Sums(F, {}, f)
    BY <1>1, SumsExist, Zenon
<1> DEFINE f == CHOOSE f : Sums(F, {}, f)
<1>3. Sums(F, {}, f)
    BY <1>2, Zenon
<1>4. SumFunctionOnSet(F, {}) = f[{}]
    BY SumIs, Zenon
<1> HIDE DEF f
<1> QED
    BY <1>3, <1>4, SumsAt, Zenon

\* Functions that agree on a set have the same sum over it.
LEMMA SumAgree ==
    ASSUME NEW F, NEW G, NEW S, IsFiniteSet(S), \A x \in S : F[x] = G[x]
    PROVE  SumFunctionOnSet(F, S) = SumFunctionOnSet(G, S)
<1> DEFINE f == CHOOSE f : Sums(F, S, f)
           g == CHOOSE g : Sums(G, S, g)
<1>1. Sums(F, S, f) /\ Sums(G, S, g)
    BY SumsExist, Zenon
<1>2. SumFunctionOnSet(F, S) = f[S] /\ SumFunctionOnSet(G, S) = g[S]
    BY SumIs, Zenon
<1>3. S \in SUBSET S
    BY Zenon
<1> HIDE DEF f, g
<1> QED
    BY <1>1, <1>2, <1>3, SumsAgree

\* A term taken out of a sum leaves the sum of the others.
LEMMA SumTakes ==
    ASSUME NEW F, NEW S, IsFiniteSet(S), \A x \in S : F[x] \in Int
    PROVE  /\ SumFunctionOnSet(F, S) \in Int
           /\ \A x \in S : SumFunctionOnSet(F, S) = F[x] + SumFunctionOnSet(F, S \ {x})
<1> DEFINE f == CHOOSE f : Sums(F, S, f)
<1>1. Sums(F, S, f)
    BY SumsExist, Zenon
<1>2. SumFunctionOnSet(F, S) = f[S]
    BY SumIs, Zenon
<1> HIDE DEF f
<1>3. f[S] \in Int /\ \A x \in S : f[S] = F[x] + f[S \ {x}]
  <2>1. S \in SUBSET S
    BY Zenon
  <2>2. f[S] \in Int
    BY <1>1, <2>1, SumsInt, Zenon
  <2>3. \A x \in S : f[S] = F[x] + f[S \ {x}]
    BY <1>1, <2>1, SumsAny
  <2> QED
    BY <2>2, <2>3, Zenon
<1>4. ASSUME NEW x \in S PROVE SumFunctionOnSet(F, S \ {x}) = f[S \ {x}]
  <2> DEFINE g == CHOOSE g : Sums(F, S \ {x}, g)
  <2>1. IsFiniteSet(S \ {x})
    BY FS_Subset, Zenon
  <2>2. Sums(F, S \ {x}, g)
    BY <2>1, SumsExist, Zenon
  <2>3. SumFunctionOnSet(F, S \ {x}) = g[S \ {x}]
    BY SumIs, Zenon
  <2>4. S \ {x} \in SUBSET S
    BY Zenon
  <2> HIDE DEF g
  <2> QED
    BY <1>1, <2>2, <2>3, <2>4, SumsAgree
<1> QED
    BY <1>2, <1>3, <1>4, Zenon

\* When one term changes the sum changes by as much.
LEMMA SumChanges ==
    ASSUME NEW F, NEW G, NEW S, IsFiniteSet(S), NEW x \in S, \A y \in S : F[y] \in Int /\ G[y] \in Int,
           \A y \in S \ {x} : F[y] = G[y]
    PROVE  SumFunctionOnSet(G, S) = SumFunctionOnSet(F, S) + (G[x] - F[x])
<1>1. IsFiniteSet(S \ {x})
    BY FS_Subset, Zenon
<1>2. SumFunctionOnSet(F, S \ {x}) = SumFunctionOnSet(G, S \ {x})
    BY <1>1, SumAgree, Zenon
<1>a. (\A y \in S : F[y] \in Int) /\ (\A y \in S : G[y] \in Int)
    BY Zenon
<1>3. SumFunctionOnSet(F, S) = F[x] + SumFunctionOnSet(F, S \ {x})
    BY <1>a, SumTakes
<1>4. SumFunctionOnSet(G, S) = G[x] + SumFunctionOnSet(G, S \ {x})
    BY <1>a, SumTakes
<1>5. SumFunctionOnSet(F, S \ {x}) \in Int
    BY <1>1, SumTakes, Zenon
<1>6. F[x] \in Int /\ G[x] \in Int
    BY Zenon
<1> QED
    BY <1>2, <1>3, <1>4, <1>5, <1>6

\* A sum of terms of a set closed under addition is in it.
LEMMA SumIn ==
    ASSUME NEW D, 0 \in D, \A a, b \in D : a + b \in D,
           NEW F, NEW S, IsFiniteSet(S), \A x \in S : F[x] \in D
    PROVE  SumFunctionOnSet(F, S) \in D
<1> DEFINE f == CHOOSE f : Sums(F, S, f)
<1>1. Sums(F, S, f)
    BY SumsExist, Zenon
<1>2. SumFunctionOnSet(F, S) = f[S]
    BY SumIs, Zenon
<1>3. S \in SUBSET S
    BY Zenon
<1> HIDE DEF f
<1>4. \A T \in SUBSET S : f[T] \in D
    BY <1>1, SumsIn
<1> QED
    BY <1>2, <1>3, <1>4, Zenon
\* Numbers sum to a number.
LEMMA SumNat ==
    ASSUME NEW F, NEW S, IsFiniteSet(S), \A x \in S : F[x] \in Nat
    PROVE  SumFunctionOnSet(F, S) \in Nat
<1> DEFINE D == Nat
<1>1. 0 \in D /\ (\A a, b \in D : a + b \in D) /\ \A x \in S : F[x] \in D
    OBVIOUS
<1> HIDE DEF D
<1>2. SumFunctionOnSet(F, S) \in D
    BY <1>1, SumIn
<1> QED
    BY <1>2, Zenon DEF D

\* Zeros sum to zero.
LEMMA SumZero ==
    ASSUME NEW F, NEW S, IsFiniteSet(S), \A x \in S : F[x] = 0
    PROVE  SumFunctionOnSet(F, S) = 0
<1> DEFINE D == {0}
<1>1. 0 \in D /\ (\A a, b \in D : a + b \in D) /\ \A x \in S : F[x] \in D
    OBVIOUS
<1> HIDE DEF D
<1>2. SumFunctionOnSet(F, S) \in D
    BY <1>1, SumIn
<1> QED
    BY <1>2, Zenon DEF D
----------------------------------------------------------------------------
\* The sum of a sequence of numbers is a number.
LEMMA SeqSumType ==
    ASSUME NEW q \in Seq(Nat)
    PROVE  SumFunction(q) \in Nat /\ IsFiniteSet(DOMAIN q)
<1>1. DOMAIN q = 1..Len(q) /\ Len(q) \in Nat /\ \A i \in DOMAIN q : q[i] \in Nat
    OBVIOUS
<1>2. IsFiniteSet(DOMAIN q)
    BY <1>1, FS_Interval
<1>3. SumFunctionOnSet(q, DOMAIN q) \in Nat
    BY <1>1, <1>2, SumNat
<1> QED
    BY <1>2, <1>3, Zenon DEF SumFunction

\* An event queued adds its size.
LEMMA SeqSumAppend ==
    ASSUME NEW q \in Seq(Nat), NEW n \in Nat
    PROVE  SumFunction(Append(q, n)) = SumFunction(q) + n
<1> DEFINE r == Append(q, n)
           k == Len(q) + 1
<1>a. r \in Seq(Nat) /\ DOMAIN r = 1..(Len(q) + 1) /\ DOMAIN q = 1..Len(q) /\ Len(q) \in Nat /\ r[k] = n
    OBVIOUS
<1>b. k \in 1..(Len(q) + 1) /\ (1..(Len(q) + 1)) \ {k} = 1..Len(q)
    BY <1>a
<1>1. r \in Seq(Nat) /\ k \in DOMAIN r /\ (DOMAIN r) \ {k} = DOMAIN q /\ r[k] = n
    BY <1>a, <1>b, Zenon
<1>2. \A i \in DOMAIN q : r[i] = q[i]
    OBVIOUS
<1> HIDE DEF r, k
<1>3. \A i \in DOMAIN r : r[i] \in Int
    BY <1>1
<1>4. IsFiniteSet(DOMAIN r) /\ IsFiniteSet(DOMAIN q) /\ SumFunction(q) \in Nat
    BY <1>1, SeqSumType, Zenon
<1>5. SumFunctionOnSet(r, DOMAIN r) = r[k] + SumFunctionOnSet(r, (DOMAIN r) \ {k})
  <2>1. \A x \in DOMAIN r : SumFunctionOnSet(r, DOMAIN r) = r[x] + SumFunctionOnSet(r, (DOMAIN r) \ {x})
    BY <1>3, <1>4, SumTakes
  <2> QED
    BY <1>1, <2>1, Zenon
<1>6. SumFunctionOnSet(r, DOMAIN q) = SumFunctionOnSet(q, DOMAIN q)
    BY <1>2, <1>4, SumAgree
<1>7. SumFunction(r) = n + SumFunction(q)
    BY <1>1, <1>5, <1>6, Zenon DEF SumFunction
<1> QED
    BY <1>4, <1>7 DEF r

\* The rest of a queue, numbered anew, has the sum it had.
LEMMA SeqSumShift ==
    ASSUME NEW q \in Seq(Nat), q # <<>>
    PROVE  SumFunction(Tail(q)) = SumFunctionOnSet(q, 2..Len(q))
<1> DEFINE t == Tail(q)
           N == {n \in Nat : n <= Len(t) => SumFunctionOnSet(t, 1..n) = SumFunctionOnSet(q, 2..(n + 1))}
<1>1. /\ t \in Seq(Nat) /\ Len(t) = Len(q) - 1 /\ Len(q) \in Nat /\ Len(t) \in Nat
      /\ \A i \in 1..Len(t) : t[i] = q[i + 1] /\ t[i] \in Int
      /\ \A i \in 2..Len(q) : q[i] \in Int
    OBVIOUS
<1> HIDE DEF t
<1>2. 0 \in N
  <2>1. 1..0 = {} /\ 2..(0 + 1) = {}
    OBVIOUS
  <2>2. SumFunctionOnSet(t, {}) = 0 /\ SumFunctionOnSet(q, {}) = 0
    BY SumEmpty
  <2>3. SumFunctionOnSet(t, 1..0) = SumFunctionOnSet(q, 2..(0 + 1))
    BY <2>1, <2>2, Zenon
  <2>4. 0 \in Nat
    OBVIOUS
  <2> QED
    BY <2>3, <2>4, Zenon
<1>3. ASSUME NEW n \in N PROVE n + 1 \in N
  <2>1. n \in Nat /\ n + 1 \in Nat /\ (n <= Len(t) => SumFunctionOnSet(t, 1..n) = SumFunctionOnSet(q, 2..(n + 1)))
    BY SMT
  <2>2. ASSUME n + 1 <= Len(t)
        PROVE  SumFunctionOnSet(t, 1..(n + 1)) = SumFunctionOnSet(q, 2..((n + 1) + 1))
    <3> DEFINE A == 1..(n + 1)
               B == 2..((n + 1) + 1)
    <3> HIDE DEF N
    <3>a. n + 1 \in A /\ A \ {n + 1} = 1..n /\ n + 2 \in B /\ B \ {n + 2} = 2..(n + 1)
      BY <2>1
    <3>b. \A i \in A : i \in 1..Len(t)
      BY <1>1, <2>1, <2>2
    <3>c. \A i \in B : i \in 2..Len(q)
      BY <1>1, <2>1, <2>2
    <3>1. /\ n + 1 \in A /\ A \ {n + 1} = 1..n /\ \A i \in A : i \in 1..Len(t)
          /\ n + 2 \in B /\ B \ {n + 2} = 2..(n + 1) /\ \A i \in B : i \in 2..Len(q)
      BY <3>a, <3>b, <3>c, Zenon
    <3>2. IsFiniteSet(A) /\ IsFiniteSet(B)
      BY <2>1, FS_Interval
    <3> HIDE DEF A, B
    <3>3. SumFunctionOnSet(t, A) = t[n + 1] + SumFunctionOnSet(t, A \ {n + 1})
      <4>1. \A i \in A : t[i] \in Int
        BY <1>1, <3>1, Zenon
      <4> QED
        BY <3>1, <3>2, <4>1, SumTakes
    <3>4. SumFunctionOnSet(q, B) = q[n + 2] + SumFunctionOnSet(q, B \ {n + 2})
      <4>1. \A i \in B : q[i] \in Int
        BY <1>1, <3>1, Zenon
      <4> QED
        BY <3>1, <3>2, <4>1, SumTakes
    <3>5. t[n + 1] = q[n + 2]
      <4>1. n + 1 \in 1..Len(t) /\ (n + 1) + 1 = n + 2
        BY <2>1, <3>1
      <4> QED
        BY <1>1, <4>1, Zenon
    <3>6. n <= Len(t)
      BY <1>1, <2>1, <2>2
    <3>7. SumFunctionOnSet(t, A) = SumFunctionOnSet(q, B)
      BY <2>1, <3>1, <3>3, <3>4, <3>5, <3>6, Zenon
    <3> QED
      BY <3>7, Zenon DEF A, B
  <2> QED
    BY <2>1, <2>2, Zenon
<1>4. N = Nat
  <2>1. N \in SUBSET Nat
    BY Zenon
  <2> HIDE DEF N
  <2> QED
    BY <1>2, <1>3, <2>1, Induction, Zenon
<1>5. SumFunctionOnSet(t, 1..Len(t)) = SumFunctionOnSet(q, 2..(Len(t) + 1))
  <2>1. Len(t) \in Nat
    BY <1>1, Zenon
  <2>2. \A n \in Nat : n <= n
    OBVIOUS
  <2>3. Len(t) \in N
    BY <1>4, <2>1, Zenon
  <2> QED
    BY <2>1, <2>2, <2>3, Zenon
<1>6. DOMAIN t = 1..Len(t) /\ Len(t) + 1 = Len(q)
    BY <1>1
<1> QED
    BY <1>5, <1>6, Zenon DEF SumFunction, t

\* The first event taken takes its size.
LEMMA SeqSumTail ==
    ASSUME NEW q \in Seq(Nat), q # <<>>
    PROVE  Tail(q) \in Seq(Nat) /\ Head(q) \in Nat /\ SumFunction(q) = Head(q) + SumFunction(Tail(q))
<1>1. /\ Tail(q) \in Seq(Nat) /\ Head(q) \in Nat /\ Head(q) = q[1]
      /\ 1 \in DOMAIN q /\ (DOMAIN q) \ {1} = 2..Len(q) /\ \A i \in DOMAIN q : q[i] \in Int
    OBVIOUS
<1>2. IsFiniteSet(DOMAIN q)
    BY SeqSumType, Zenon
<1>3. SumFunctionOnSet(q, DOMAIN q) = q[1] + SumFunctionOnSet(q, (DOMAIN q) \ {1})
    BY <1>1, <1>2, SumTakes
<1> QED
    BY <1>1, <1>3, SeqSumShift, Zenon DEF SumFunction

\* Events that weigh nothing sum to nothing.
LEMMA SeqSumZero ==
    ASSUME NEW q \in Seq(Nat)
    PROVE  [i \in DOMAIN q |-> 0] \in Seq(Nat) /\ SumFunction([i \in DOMAIN q |-> 0]) = 0
<1> DEFINE z == [i \in DOMAIN q |-> 0]
<1>1. \A i \in DOMAIN z : z[i] = 0
    BY Zenon
<1>2. z \in Seq(Nat)
  <2>1. z = [i \in 1..Len(q) |-> 0] /\ Len(q) \in Nat
    OBVIOUS
  <2> QED
    BY <2>1
<1>3. IsFiniteSet(DOMAIN z)
    BY <1>2, SeqSumType, Zenon
<1> HIDE DEF z
<1>4. SumFunctionOnSet(z, DOMAIN z) = 0
    BY <1>1, <1>3, SumZero
<1>5. SumFunction(z) = 0
    BY <1>4, Zenon DEF SumFunction
<1> QED
    BY <1>2, <1>5, Zenon DEF z
----------------------------------------------------------------------------
BytesType ==
    /\ inbox \in [Stream -> Seq(Nat)]
    /\ held \in [Stream -> Nat]
    /\ owed \in [Stream -> Nat]
    /\ recvOwed \in [Stream -> Nat]
    /\ endStep \in [Stream -> EndStep]
    /\ inHand \in [Stream -> Frame \cup {NoFrame}]
    /\ inboxBytes \in [Caller -> Int] /\ inboxTotal \in Int

\* Stream.held is what the queue holds, and bytes are owed only between the
\* critical section of end that found them and its refund.
HeldExact ==
    \A s \in Stream : /\ held[s] = SumFunction(inbox[s])
                      /\ owed[s] # 0 => endStep[s] = "begun"

By(c) == {s \in Stream : CallerOf[s] = c}

\* The budgets count what is unreturned, within their bounds.
BudgetsExact ==
    /\ \A c \in Caller : /\ inboxBytes[c] = SumFunctionOnSet(unreturned, By(c))
                         /\ inboxBytes[c] <= InboxBytesPerCaller
    /\ inboxTotal = SumFunctionOnSet(unreturned, Stream) /\ inboxTotal <= InboxBytes

HeldBounded == \A s \in Stream : held[s] <= InboxBound

BytesInv == BytesType /\ HeldExact /\ HeldBounded /\ BudgetsExact

\* The budgets' invariant is what the runs check.
LEMMA BytesGive == BytesInv => InboxBudgetExact
  BY Zenon DEF BytesInv, BudgetsExact, HeldBounded, InboxBudgetExact, By

\* What a stream has unreturned is a number of bytes.
LEMMA UnreturnedType ==
    ASSUME BytesType, NEW s \in Stream
    PROVE  unreturned[s] = SumFunction(inbox[s]) + recvOwed[s] + owed[s] /\ unreturned[s] \in Nat
<1>1. unreturned[s] = SumFunction(inbox[s]) + recvOwed[s] + owed[s]
  BY Zenon DEF unreturned, Unreturned
<1>2. inbox[s] \in Seq(Nat) /\ recvOwed[s] \in Nat /\ owed[s] \in Nat
  BY Zenon DEF BytesType
<1>3. SumFunction(inbox[s]) \in Nat
  BY <1>2, SeqSumType, Zenon
<1> QED
  BY <1>1, <1>2, <1>3

\* What one set of streams has unreturned changes with the one stream of it that a
\* step is about, and is never negative.
LEMMA UnreturnedChanges ==
    ASSUME BytesType, BytesType', NEW s \in Stream, NEW S \in SUBSET Stream,
           \A t \in Stream \ {s} : unreturned'[t] = unreturned[t]
    PROVE  /\ SumFunctionOnSet(unreturned', S) \in Nat /\ SumFunctionOnSet(unreturned, S) \in Nat
           /\ s \in S => SumFunctionOnSet(unreturned', S)
                            = SumFunctionOnSet(unreturned, S) + (unreturned'[s] - unreturned[s])
           /\ s \notin S => SumFunctionOnSet(unreturned', S) = SumFunctionOnSet(unreturned, S)
<1> DEFINE F == unreturned
           G == unreturned'
<1>1. IsFiniteSet(S)
  BY StreamAssumption, FS_Subset, Zenon
<1>2. \A t \in S : F[t] \in Nat
  BY UnreturnedType, Zenon
<1>3. \A t \in S : G[t] \in Nat
  <2>1. ASSUME NEW t \in Stream PROVE G[t] \in Nat
    <3>1. G[t] = (SumFunction(inbox[t]) + recvOwed[t] + owed[t])'
      BY Zenon DEF unreturned, Unreturned
    <3>2. inbox'[t] \in Seq(Nat) /\ recvOwed'[t] \in Nat /\ owed'[t] \in Nat
      BY Zenon DEF BytesType
    <3>3. SumFunction(inbox'[t]) \in Nat
      BY <3>2, SeqSumType, Zenon
    <3> QED
      BY <3>1, <3>2, <3>3
  <2> QED
    BY <2>1, Zenon
<1>5. \A t \in Stream \ {s} : F[t] = G[t]
  BY Zenon
<1> HIDE DEF F, G
<1>6. SumFunctionOnSet(F, S) \in Nat /\ SumFunctionOnSet(G, S) \in Nat
  BY <1>1, <1>2, <1>3, SumNat
<1>7. ASSUME s \in S PROVE SumFunctionOnSet(G, S) = SumFunctionOnSet(F, S) + (G[s] - F[s])
  <2>1. \A t \in S : F[t] \in Int /\ G[t] \in Int
    BY <1>2, <1>3
  <2>2. \A t \in S \ {s} : F[t] = G[t]
    BY <1>5, Zenon
  <2> QED
    BY <1>1, <1>7, <2>1, <2>2, SumChanges
<1>8. ASSUME s \notin S PROVE SumFunctionOnSet(G, S) = SumFunctionOnSet(F, S)
  <2>1. \A t \in S : F[t] = G[t]
    BY <1>5, <1>8, Zenon
  <2> QED
    BY <1>1, <2>1, SumAgree
<1> QED
  BY <1>6, <1>7, <1>8, Zenon DEF F, G

\* A charge of n bytes keeps the budgets exact when the stream it is for has n
\* bytes more unreturned, and within their bounds when it fits them: decrement
\* never finds less than it takes.
LEMMA ChargeKeepsBudgets ==
    ASSUME BytesType, BytesType', BudgetsExact, NEW s \in Stream, NEW n \in Int,
           \A t \in Stream \ {s} : unreturned'[t] = unreturned[t],
           unreturned'[s] = unreturned[s] + n,
           inboxBytes' = [inboxBytes EXCEPT ![CallerOf[s]] = decrement(@, -n)],
           inboxTotal' = inboxTotal + n,
           n <= 0 \/ (/\ inboxBytes[CallerOf[s]] + n <= InboxBytesPerCaller
                      /\ inboxTotal + n <= InboxBytes)
    PROVE  BudgetsExact'
<1> DEFINE b == CallerOf[s]
<1>0. b \in Caller
  BY StreamAssumption, Zenon
<1>1. unreturned[s] \in Int /\ unreturned'[s] - unreturned[s] = n
  BY UnreturnedType
<1>2. inboxTotal' = SumFunctionOnSet(unreturned', Stream) /\ inboxTotal' <= InboxBytes
  <2>1. Stream \in SUBSET Stream
    BY Zenon
  <2>2. /\ SumFunctionOnSet(unreturned, Stream) \in Nat
        /\ SumFunctionOnSet(unreturned', Stream) = SumFunctionOnSet(unreturned, Stream) + n
    BY <1>1, <2>1, UnreturnedChanges
  <2>3. inboxTotal = SumFunctionOnSet(unreturned, Stream) /\ inboxTotal <= InboxBytes
    BY Zenon DEF BudgetsExact
  <2>4. inboxTotal' = SumFunctionOnSet(unreturned', Stream)
    BY <2>2, <2>3, Zenon
  <2> QED
    BY <2>2, <2>3, <2>4, BoundsAssumption
<1>3. ASSUME NEW c \in Caller
      PROVE  inboxBytes'[c] = SumFunctionOnSet(unreturned', By(c)) /\ inboxBytes'[c] <= InboxBytesPerCaller
  <2>0. inboxBytes[c] = SumFunctionOnSet(unreturned, By(c)) /\ inboxBytes[c] <= InboxBytesPerCaller
    BY Zenon DEF BudgetsExact
  <2>1. By(c) \in SUBSET Stream
    BY Zenon DEF By
  <2>2. /\ SumFunctionOnSet(unreturned, By(c)) \in Nat /\ SumFunctionOnSet(unreturned', By(c)) \in Nat
        /\ s \in By(c) => SumFunctionOnSet(unreturned', By(c)) = SumFunctionOnSet(unreturned, By(c)) + n
        /\ s \notin By(c) => SumFunctionOnSet(unreturned', By(c)) = SumFunctionOnSet(unreturned, By(c))
    BY <1>1, <2>1, UnreturnedChanges
  <2>3. CASE c = b
    <3>1. s \in By(c)
      BY <2>3, Zenon DEF By
    <3>2. inboxBytes'[c] = decrement(inboxBytes[c], -n)
      BY <1>0, <2>3, Zenon DEF BytesType
    <3>3. n <= 0 \/ inboxBytes[c] + n <= InboxBytesPerCaller
      BY <2>3, Zenon
    <3> HIDE DEF b
    <3> QED
      BY <2>0, <2>2, <3>1, <3>2, <3>3, BoundsAssumption DEF decrement
  <2>4. CASE c # b
    <3>1. s \notin By(c) /\ inboxBytes'[c] = inboxBytes[c]
      BY <2>4, Zenon DEF By, BytesType
    <3> QED
      BY <2>0, <2>2, <3>1, Zenon
  <2> QED
    BY <2>3, <2>4, Zenon
<1>4. \A c : By(c)' = By(c)
  BY Zenon DEF By
<1> QED
  BY <1>2, <1>3, <1>4, Zenon DEF BudgetsExact

\* A step that charges nothing keeps the budgets when it moves a stream's bytes
\* between the queue, a Recv and the end, and neither adds nor drops one.
LEMMA MovedKeepBudgets ==
    ASSUME BytesType, BytesType', BudgetsExact, UNCHANGED <<inboxBytes, inboxTotal>>,
           \A t \in Stream : unreturned'[t] = unreturned[t]
    PROVE  BudgetsExact'
<1>1. unreturned' = unreturned
  BY Zenon DEF unreturned
<1> QED
  BY <1>1, Zenon DEF BudgetsExact, By

\* Nothing is queued at first.
LEMMA BytesInit == Init => BytesInv
<1> SUFFICES ASSUME Init PROVE BytesInv
  BY Zenon
<1>1. BytesType
  BY DEF Init, BytesType, EndStep
<1>2. \A s \in Stream : inbox[s] = <<>> /\ held[s] = 0 /\ recvOwed[s] = 0 /\ owed[s] = 0
  BY Zenon DEF Init
<1>3. SumFunction(<<>>) = 0
  <2>1. SumFunctionOnSet(<<>>, {}) = 0 /\ DOMAIN <<>> = {}
    BY SumEmpty
  <2> QED
    BY <2>1, Zenon DEF SumFunction
<1>4. HeldExact /\ HeldBounded
  BY <1>2, <1>3, BoundsAssumption DEF HeldExact, HeldBounded
<1>5. \A s \in Stream : unreturned[s] = 0
  BY <1>1, <1>2, <1>3, UnreturnedType
<1>6. ASSUME NEW S \in SUBSET Stream PROVE SumFunctionOnSet(unreturned, S) = 0
  <2>1. IsFiniteSet(S)
    BY StreamAssumption, FS_Subset, Zenon
  <2>2. \A s \in S : unreturned[s] = 0
    BY <1>5, Zenon
  <2> QED
    BY <2>1, <2>2, SumZero
<1>7. \A c \in Caller : inboxBytes[c] = 0 /\ inboxBytes[c] <= InboxBytesPerCaller
  BY BoundsAssumption DEF Init
<1>8. inboxTotal = 0 /\ inboxTotal <= InboxBytes
  BY BoundsAssumption DEF Init
<1>9. BudgetsExact
  <2>1. Stream \in SUBSET Stream /\ \A c : By(c) \in SUBSET Stream
    BY Zenon DEF By
  <2> QED
    BY <1>6, <1>7, <1>8, <2>1, Zenon DEF BudgetsExact
<1> QED
  BY <1>1, <1>4, <1>9, Zenon DEF BytesInv

\* What the steps of end keep of a stream that is being refunded.
StillBegun ==
    /\ endStep' \in [Stream -> EndStep]
    /\ \A t \in Stream : endStep[t] = "begun" => endStep'[t] = "begun"

\* A step that moves no byte.
LEMMA QuietKeepsBytes ==
    ASSUME BytesInv, UNCHANGED <<inbox, held, owed, recvOwed, inboxBytes, inboxTotal>>,
           StillBegun, inHand' \in [Stream -> Frame \cup {NoFrame}]
    PROVE  BytesInv'
<1>1. BytesType'
  BY Zenon DEF BytesInv, BytesType, StillBegun
<1>2. HeldExact' /\ HeldBounded'
  BY Zenon DEF BytesInv, HeldExact, HeldBounded, StillBegun
<1>3. unreturned' = unreturned
  BY Zenon DEF unreturned, Unreturned
<1>4. BudgetsExact'
  BY <1>3, Zenon DEF BytesInv, BudgetsExact, By
<1> QED
  BY <1>1, <1>2, <1>4, Zenon DEF BytesInv

\* A call of end moves no byte.
LEMMA CallKeepsBegun ==
    ASSUME BytesType, NEW s \in Stream, CallEnd(s) \/ UNCHANGED endStep
    PROVE  StillBegun
  BY Zenon DEF CallEnd, BytesType, EndStep, StillBegun

\* deliver charges what it queues, when all three bounds have room for it.
LEMMA DeliverKeepsBytes ==
    ASSUME BytesInv, NEW s \in Stream, inHand[s] # NoFrame,
           inHand' = [inHand EXCEPT ![s] = NoFrame], deliver(s, inHand[s].size),
           StillBegun, UNCHANGED <<owed, recvOwed>>
    PROVE  BytesInv'
<1> DEFINE n == inHand[s].size
<1>0. BytesType /\ HeldExact /\ HeldBounded /\ BudgetsExact /\ inHand' \in [Stream -> Frame \cup {NoFrame}]
  BY Zenon DEF BytesInv, BytesType
<1>1. n \in Nat
  <2>1. inHand[s] \in Frame
    BY <1>0, Zenon DEF BytesType
  <2>2. inHand[s].size \in Size
    BY <2>1 DEF Frame
  <2> QED
    BY <2>2, BoundsAssumption
<1> HIDE DEF n
<1>2. CASE ~Fits(s, n)
  <2>1. UNCHANGED <<inbox, held, inboxBytes, inboxTotal>>
    BY <1>2, Zenon DEF deliver, queue, n
  <2> QED
    BY <1>0, <2>1, QuietKeepsBytes, Zenon
<1>3. CASE Fits(s, n)
  <2>1. /\ inboxBytes' = [inboxBytes EXCEPT ![CallerOf[s]] = decrement(@, -n)]
        /\ inboxTotal' = inboxTotal + n
        /\ inbox' = [inbox EXCEPT ![s] = Append(inbox[s], n)]
        /\ held' = [held EXCEPT ![s] = held[s] + n]
    BY <1>3, Zenon DEF deliver, Charge, Queued, n
  <2>2. /\ inbox[s] \in Seq(Nat) /\ held[s] \in Nat /\ CallerOf[s] \in Caller
        /\ inboxBytes[CallerOf[s]] \in Int /\ inboxTotal \in Int
    BY <1>0, StreamAssumption, Zenon DEF BytesType
  <2>3. /\ held[s] + n <= InboxBound /\ inboxTotal + n <= InboxBytes
        /\ inboxBytes[CallerOf[s]] + n <= InboxBytesPerCaller
    BY <1>3, Zenon DEF Fits
  <2>4. /\ Append(inbox[s], n) \in Seq(Nat) /\ held[s] + n \in Nat /\ inboxTotal + n \in Int
        /\ decrement(inboxBytes[CallerOf[s]], -n) \in Int
    BY <1>1, <2>2 DEF decrement
  <2>5. BytesType'
    <3>1. inbox' \in [Stream -> Seq(Nat)] /\ held' \in [Stream -> Nat]
      BY <1>0, <2>1, <2>4, Zenon DEF BytesType
    <3>2. inboxBytes' \in [Caller -> Int] /\ inboxTotal' \in Int
      BY <1>0, <2>1, <2>4, Zenon DEF BytesType
    <3> QED
      BY <1>0, <3>1, <3>2, Zenon DEF BytesType, StillBegun
  <2>6. /\ inbox'[s] = Append(inbox[s], n) /\ held'[s] = held[s] + n
        /\ \A t \in Stream \ {s} : inbox'[t] = inbox[t] /\ held'[t] = held[t]
    BY <1>0, <2>1, Zenon DEF BytesType
  <2>7. SumFunction(inbox'[s]) = SumFunction(inbox[s]) + n
    BY <1>1, <2>2, <2>6, SeqSumAppend
  <2>8. HeldBounded'
    BY <1>0, <2>3, <2>6, Zenon DEF HeldBounded
  <2>9. HeldExact'
    <3>1. held'[s] = SumFunction(inbox'[s])
      BY <1>0, <2>6, <2>7, Zenon DEF HeldExact
    <3> QED
      BY <1>0, <2>6, <3>1, Zenon DEF HeldExact, StillBegun
  <2>10. \A t \in Stream \ {s} : unreturned'[t] = unreturned[t]
    BY <2>6, Zenon DEF unreturned, Unreturned
  <2>11. unreturned'[s] = unreturned[s] + n
    <3>1. unreturned'[s] = (SumFunction(inbox[s]) + n) + recvOwed[s] + owed[s]
      BY <2>7, Zenon DEF unreturned, Unreturned
    <3>2. unreturned[s] = SumFunction(inbox[s]) + recvOwed[s] + owed[s]
      BY Zenon DEF unreturned, Unreturned
    <3>3. SumFunction(inbox[s]) \in Nat /\ recvOwed[s] \in Nat /\ owed[s] \in Nat
      BY <1>0, SeqSumType, Zenon DEF BytesType
    <3> QED
      BY <1>1, <3>1, <3>2, <3>3
  <2>12. n \in Int
    BY <1>1
  <2>13. BudgetsExact'
    BY <1>0, <2>1, <2>3, <2>5, <2>10, <2>11, <2>12, ChargeKeepsBudgets, Zenon
  <2> QED
    BY <2>5, <2>8, <2>9, <2>13, Zenon DEF BytesInv
<1> QED
  BY <1>2, <1>3, Zenon DEF n

\* Recv takes the first event's bytes off the queue and owes them.
LEMMA RecvKeepsBytes ==
    ASSUME BytesInv, NEW s \in Stream, Recv(s)
    PROVE  BytesInv'
<1> DEFINE h == Head(inbox[s])
<1>0. /\ BytesType /\ HeldExact /\ HeldBounded /\ BudgetsExact
      /\ UNCHANGED <<owed, endStep, inHand, inboxBytes, inboxTotal>>
      /\ recvOwed[s] = 0 /\ inbox[s] # <<>>
      /\ recvOwed' = [recvOwed EXCEPT ![s] = h]
      /\ inbox' = [inbox EXCEPT ![s] = Tail(inbox[s])]
      /\ held' = [held EXCEPT ![s] = held[s] - h]
  BY Zenon DEF BytesInv, Recv, Queued, reads, budgets
<1>1. inbox[s] \in Seq(Nat) /\ held[s] \in Nat /\ owed[s] \in Nat
  BY <1>0, Zenon DEF BytesType
<1>2. Tail(inbox[s]) \in Seq(Nat) /\ h \in Nat /\ SumFunction(inbox[s]) = h + SumFunction(Tail(inbox[s]))
  BY <1>0, <1>1, SeqSumTail, Zenon
<1>3. SumFunction(Tail(inbox[s])) \in Nat
  BY <1>2, SeqSumType, Zenon
<1> HIDE DEF h
<1>4. held[s] = SumFunction(inbox[s])
  BY <1>0, Zenon DEF HeldExact
<1>5. held[s] - h \in Nat /\ held[s] - h = SumFunction(Tail(inbox[s])) /\ held[s] - h <= held[s]
  BY <1>1, <1>2, <1>3, <1>4
<1>6. BytesType'
  <2>1. inbox' \in [Stream -> Seq(Nat)] /\ held' \in [Stream -> Nat] /\ recvOwed' \in [Stream -> Nat]
    BY <1>0, <1>2, <1>5, Zenon DEF BytesType
  <2> QED
    BY <1>0, <2>1, Zenon DEF BytesType
<1>7. /\ inbox'[s] = Tail(inbox[s]) /\ held'[s] = held[s] - h /\ recvOwed'[s] = h
      /\ \A t \in Stream \ {s} : inbox'[t] = inbox[t] /\ held'[t] = held[t] /\ recvOwed'[t] = recvOwed[t]
  BY <1>0, Zenon DEF BytesType
<1>8. HeldBounded'
  <2>1. held'[s] <= InboxBound
    <3>1. held[s] <= InboxBound
      BY <1>0, Zenon DEF HeldBounded
    <3> QED
      BY <1>1, <1>5, <1>7, <3>1, BoundsAssumption
  <2> QED
    BY <1>0, <1>7, <2>1, Zenon DEF HeldBounded
<1>9. HeldExact'
  BY <1>0, <1>5, <1>7, Zenon DEF HeldExact
<1>10. ASSUME NEW t \in Stream PROVE unreturned'[t] = unreturned[t]
  <2>1. CASE t # s
    <3>1. inbox'[t] = inbox[t] /\ recvOwed'[t] = recvOwed[t] /\ owed'[t] = owed[t]
      BY <1>0, <1>7, <2>1, Zenon
    <3> QED
      BY <3>1, Zenon DEF unreturned, Unreturned
  <2>2. CASE t = s
    <3>1. unreturned'[s] = SumFunction(Tail(inbox[s])) + h + owed[s]
      BY <1>0, <1>7, Zenon DEF unreturned, Unreturned
    <3>2. unreturned[s] = SumFunction(inbox[s]) + 0 + owed[s]
      BY <1>0, Zenon DEF unreturned, Unreturned
    <3>3. unreturned'[s] = unreturned[s]
      BY <1>1, <1>2, <1>3, <3>1, <3>2
    <3> QED
      BY <2>2, <3>3, Zenon
  <2> QED
    BY <2>1, <2>2, Zenon
<1>11. BudgetsExact'
  BY <1>0, <1>6, <1>10, MovedKeepBudgets, Zenon
<1> QED
  BY <1>6, <1>8, <1>9, <1>11, Zenon DEF BytesInv

\* The first critical section of end owes what the queue held, whose events weigh
\* nothing afterwards: nothing was owed before it.
LEMMA BeginKeepsBytes ==
    ASSUME BytesInv, NEW s \in Stream, EndBegin(s)
    PROVE  BytesInv'
<1> DEFINE z == [i \in DOMAIN inbox[s] |-> 0]
<1>0. /\ BytesType /\ HeldExact /\ HeldBounded /\ BudgetsExact
      /\ UNCHANGED <<recvOwed, inHand, inboxBytes, inboxTotal>>
      /\ endStep[s] = "called" /\ endStep' = [endStep EXCEPT ![s] = "begun"]
      /\ owed' = [owed EXCEPT ![s] = held[s]]
      /\ inbox' = [inbox EXCEPT ![s] = z]
      /\ held' = [held EXCEPT ![s] = 0]
  BY Zenon DEF BytesInv, EndBegin, Queued, reads, budgets
<1>1. inbox[s] \in Seq(Nat) /\ held[s] \in Nat /\ owed[s] \in Nat /\ recvOwed[s] \in Nat
  BY <1>0, Zenon DEF BytesType
<1>2. z \in Seq(Nat) /\ SumFunction(z) = 0
  BY <1>1, SeqSumZero, Zenon
<1> HIDE DEF z
<1>3. held[s] = SumFunction(inbox[s]) /\ owed[s] = 0
  BY <1>0, Zenon DEF HeldExact
<1>4. BytesType'
  <2>0. 0 \in Nat
    OBVIOUS
  <2>1. inbox' \in [Stream -> Seq(Nat)] /\ held' \in [Stream -> Nat] /\ owed' \in [Stream -> Nat]
    BY <1>0, <1>1, <1>2, <2>0, Zenon DEF BytesType
  <2>2. endStep' \in [Stream -> EndStep]
    BY <1>0, Zenon DEF BytesType, EndStep
  <2> QED
    BY <1>0, <2>1, <2>2, Zenon DEF BytesType
<1>5. /\ inbox'[s] = z /\ held'[s] = 0 /\ owed'[s] = held[s] /\ endStep'[s] = "begun"
      /\ \A t \in Stream \ {s} : /\ inbox'[t] = inbox[t] /\ held'[t] = held[t]
                                 /\ owed'[t] = owed[t] /\ endStep'[t] = endStep[t]
  BY <1>0, Zenon DEF BytesType
<1>6. HeldBounded'
  <2>1. 0 <= InboxBound
    BY BoundsAssumption
  <2> QED
    BY <1>0, <1>5, <2>1, Zenon DEF HeldBounded
<1>7. HeldExact'
  BY <1>0, <1>2, <1>5, Zenon DEF HeldExact
<1>8. ASSUME NEW t \in Stream PROVE unreturned'[t] = unreturned[t]
  <2>1. CASE t # s
    <3>1. inbox'[t] = inbox[t] /\ recvOwed'[t] = recvOwed[t] /\ owed'[t] = owed[t]
      BY <1>0, <1>5, <2>1, Zenon
    <3> QED
      BY <3>1, Zenon DEF unreturned, Unreturned
  <2>2. CASE t = s
    <3>1. unreturned'[s] = 0 + recvOwed[s] + held[s]
      BY <1>0, <1>2, <1>5, Zenon DEF unreturned, Unreturned
    <3>2. unreturned[s] = held[s] + recvOwed[s] + 0
      BY <1>3, Zenon DEF unreturned, Unreturned
    <3>3. unreturned'[s] = unreturned[s]
      BY <1>1, <3>1, <3>2
    <3> QED
      BY <2>2, <3>3, Zenon
  <2> QED
    BY <2>1, <2>2, Zenon
<1>9. BudgetsExact'
  BY <1>0, <1>4, <1>8, MovedKeepBudgets, Zenon
<1> QED
  BY <1>4, <1>6, <1>7, <1>9, Zenon DEF BytesInv

\* A refund gives back what a Recv or the end owes, once.
LEMMA RefundKeepsBytes ==
    ASSUME BytesInv, NEW s \in Stream, RecvRefund(s) \/ EndRefund(s)
    PROVE  BytesInv'
<1> DEFINE m == unreturned[s] - unreturned'[s]
<1>0. /\ BytesType /\ HeldExact /\ HeldBounded /\ BudgetsExact
      /\ UNCHANGED <<inbox, held, inHand>>
  BY Zenon DEF BytesInv, RecvRefund, EndRefund, ending, queue, reads
<1>1. SumFunction(inbox[s]) \in Nat /\ recvOwed[s] \in Nat /\ owed[s] \in Nat /\ 0 \in Nat
  BY <1>0, SeqSumType, Zenon DEF BytesType
<1>2. unreturned[s] = SumFunction(inbox[s]) + recvOwed[s] + owed[s]
  BY Zenon DEF unreturned, Unreturned
<1>3. /\ \E n \in Nat : Charge(CallerOf[s], -n) /\ unreturned'[s] = unreturned[s] + (-n)
      /\ recvOwed' \in [Stream -> Nat] /\ owed' \in [Stream -> Nat] /\ endStep' \in [Stream -> EndStep]
      /\ \A t \in Stream \ {s} : recvOwed'[t] = recvOwed[t] /\ owed'[t] = owed[t] /\ endStep'[t] = endStep[t]
      /\ owed'[s] # 0 => endStep'[s] = "begun"
  <2>1. CASE RecvRefund(s)
    <3>1. /\ Charge(CallerOf[s], -recvOwed[s])
          /\ recvOwed' = [recvOwed EXCEPT ![s] = 0] /\ UNCHANGED <<owed, endStep>>
      BY <2>1, Zenon DEF RecvRefund, ending
    <3>2. recvOwed'[s] = 0 /\ \A t \in Stream \ {s} : recvOwed'[t] = recvOwed[t]
      BY <1>0, <3>1, Zenon DEF BytesType
    <3>3. unreturned'[s] = SumFunction(inbox[s]) + 0 + owed[s]
      BY <1>0, <3>1, <3>2, Zenon DEF unreturned, Unreturned
    <3>4. unreturned'[s] = unreturned[s] + (-recvOwed[s])
      BY <1>1, <1>2, <3>3
    <3>5. recvOwed' \in [Stream -> Nat]
      BY <1>0, <1>1, <3>1, Zenon DEF BytesType
    <3> QED
      BY <1>0, <1>1, <3>1, <3>2, <3>4, <3>5, Zenon DEF BytesType, HeldExact
  <2>2. CASE EndRefund(s)
    <3>1. /\ Charge(CallerOf[s], -owed[s]) /\ owed' = [owed EXCEPT ![s] = 0]
          /\ endStep' = [endStep EXCEPT ![s] = "refunded"] /\ UNCHANGED recvOwed
      BY <2>2, Zenon DEF EndRefund
    <3>2. owed'[s] = 0 /\ \A t \in Stream \ {s} : owed'[t] = owed[t] /\ endStep'[t] = endStep[t]
      BY <1>0, <3>1, Zenon DEF BytesType
    <3>3. unreturned'[s] = SumFunction(inbox[s]) + recvOwed[s] + 0
      BY <1>0, <3>1, <3>2, Zenon DEF unreturned, Unreturned
    <3>4. unreturned'[s] = unreturned[s] + (-owed[s])
      BY <1>1, <1>2, <3>3
    <3>5. owed' \in [Stream -> Nat] /\ endStep' \in [Stream -> EndStep]
      BY <1>0, <1>1, <3>1, Zenon DEF BytesType, EndStep
    <3> QED
      BY <1>0, <1>1, <3>1, <3>2, <3>4, <3>5, Zenon DEF BytesType
  <2> QED
    BY <2>1, <2>2, Zenon
<1>4. PICK n \in Nat : Charge(CallerOf[s], -n) /\ unreturned'[s] = unreturned[s] + (-n)
  BY <1>3, Zenon
<1>5. -n \in Int /\ -n <= 0
  OBVIOUS
<1>6. inboxBytes' = [inboxBytes EXCEPT ![CallerOf[s]] = decrement(@, -(-n))] /\ inboxTotal' = inboxTotal + (-n)
  BY <1>4, Zenon DEF Charge
<1>7. BytesType'
  <2>1. CallerOf[s] \in Caller /\ inboxBytes[CallerOf[s]] \in Int /\ inboxTotal \in Int
    BY <1>0, StreamAssumption, Zenon DEF BytesType
  <2>2. decrement(inboxBytes[CallerOf[s]], -(-n)) \in Int /\ inboxTotal + (-n) \in Int
    BY <2>1 DEF decrement
  <2>3. inboxBytes' \in [Caller -> Int] /\ inboxTotal' \in Int
    BY <1>0, <1>6, <2>1, <2>2, Zenon DEF BytesType
  <2> QED
    BY <1>0, <1>3, <2>3, Zenon DEF BytesType
<1>8. HeldExact' /\ HeldBounded'
  BY <1>0, <1>3, Zenon DEF HeldExact, HeldBounded
<1>9. \A t \in Stream \ {s} : unreturned'[t] = unreturned[t]
  BY <1>0, <1>3, Zenon DEF unreturned, Unreturned
<1>10. BudgetsExact'
  BY <1>0, <1>4, <1>5, <1>6, <1>7, <1>9, ChargeKeepsBudgets, Zenon
<1> QED
  BY <1>7, <1>8, <1>10, Zenon DEF BytesInv

\* Every step keeps the bytes.
LEMMA BytesStep == BytesInv /\ [Next]_vars => BytesInv'
<1> SUFFICES ASSUME BytesInv, [Next]_vars PROVE BytesInv'
  BY Zenon
<1> USE DEF ending, queue, reads, budgets
<1>0. BytesType
  BY Zenon DEF BytesInv
<1>1. ASSUME UNCHANGED <<inbox, held, owed, recvOwed, inboxBytes, inboxTotal>>,
             StillBegun, inHand' \in [Stream -> Frame \cup {NoFrame}]
      PROVE  BytesInv'
  BY <1>1, QuietKeepsBytes, Zenon
<1>2. ASSUME UNCHANGED <<queue, endStep, owed, recvOwed, inboxBytes, inboxTotal, inHand>>
      PROVE  BytesInv'
  BY <1>0, <1>1, <1>2, Zenon DEF BytesType, StillBegun
<1>3. CASE UNCHANGED vars \/ EndStreams \/ CutConn \/ LinkDone
  BY <1>2, <1>3, Zenon DEF vars, EndStreams, CutConn, LinkDone
<1>4. ASSUME NEW s \in Stream, StreamStep(s) PROVE BytesInv'
  <2>1. CASE DropOpen(s) \/ OpenSession(s) \/ giveDrain(s) \/ Serve(s)
    BY <1>2, <2>1, Zenon DEF DropOpen, OpenSession, giveDrain, Serve, Release
  <2>2. CASE ReadMalformed(s) \/ EndStreamsNext(s) \/ \E what \in Write : Send(s, what)
    BY <1>2, <2>2, Zenon DEF ReadMalformed, EndStreamsNext, Send
  <2>3. CASE \E f \in Frame : ReadFrame(s, f)
    <3>1. PICK f \in Frame : ReadFrame(s, f)
      BY <2>3, Zenon
    <3>2. inHand' = [inHand EXCEPT ![s] = f] /\ UNCHANGED <<inbox, held, endStep, owed, recvOwed, inboxBytes, inboxTotal>>
      BY <3>1, Zenon DEF ReadFrame
    <3>3. StillBegun
      BY <1>0, <3>2, Zenon DEF BytesType, StillBegun
    <3> QED
      BY <1>0, <1>1, <3>2, <3>3, Zenon DEF BytesType
  <2>4. ASSUME NEW b \in BOOLEAN, RefuseOpen(s, b) PROVE BytesInv'
    <3>1. (CallEnd(s) \/ UNCHANGED endStep)
          /\ UNCHANGED <<inbox, held, owed, recvOwed, inboxBytes, inboxTotal, inHand>>
      BY <2>4, Zenon DEF RefuseOpen
    <3> QED
      BY <1>0, <1>1, <3>1, CallKeepsBegun, Zenon DEF BytesType
  <2>5. CASE DrainEnds(s) \/ ReadFails(s) \/ ReadError(s) \/ SentAlready(s) \/ EndStreamsCall(s)
    <3>1. CallEnd(s) /\ UNCHANGED <<inbox, held, owed, recvOwed, inboxBytes, inboxTotal, inHand>>
      BY <2>5, Zenon DEF DrainEnds, ReadFails, ReadError, SentAlready, EndStreamsCall
    <3> QED
      BY <1>0, <1>1, <3>1, CallKeepsBegun, Zenon DEF BytesType
  <2>6. CASE Written(s) \/ WriteFails(s)
    <3>1. (CallEnd(s) \/ UNCHANGED endStep)
          /\ UNCHANGED <<inbox, held, owed, recvOwed, inboxBytes, inboxTotal, inHand>>
      BY <2>6, Zenon DEF Written, WriteFails, WriteReturns
    <3> QED
      BY <1>0, <1>1, <3>1, CallKeepsBegun, Zenon DEF BytesType
  <2>7. CASE ApplyData(s) \/ ApplyEnd(s) \/ ApplyLast(s)
    <3>1. /\ inHand[s] # NoFrame /\ inHand' = [inHand EXCEPT ![s] = NoFrame]
          /\ deliver(s, inHand[s].size) /\ (CallEnd(s) \/ UNCHANGED endStep)
          /\ UNCHANGED <<owed, recvOwed>>
      BY <2>7, Zenon DEF ApplyData, ApplyEnd, ApplyLast, PeerEnds
    <3>2. StillBegun
      BY <1>0, <3>1, CallKeepsBegun, Zenon
    <3> QED
      BY <3>1, <3>2, DeliverKeepsBytes, Zenon
  <2>8. CASE EndRelease(s)
    <3>1. /\ endStep[s] = "refunded" /\ endStep' = [endStep EXCEPT ![s] = "done"]
          /\ UNCHANGED <<inbox, held, owed, recvOwed, inboxBytes, inboxTotal, inHand>>
      BY <2>8, Zenon DEF EndRelease
    <3>2. StillBegun
      BY <1>0, <3>1, Zenon DEF BytesType, EndStep, StillBegun
    <3> QED
      BY <1>0, <1>1, <3>1, <3>2, Zenon DEF BytesType
  <2> QED
    BY <1>4, <2>1, <2>2, <2>3, <2>4, <2>5, <2>6, <2>7, <2>8, RecvKeepsBytes, BeginKeepsBytes,
       RefundKeepsBytes, Zenon DEF StreamStep
<1> QED
  BY <1>3, <1>4, Zenon DEF Next

\* The node's inbox budgets are the bytes its streams have unreturned, in every
\* order deliver, Recv and end run in, and stay within their bounds.
THEOREM InboxBudgetsAreExact == Spec => []InboxBudgetExact
  BY BytesInit, BytesStep, BytesGive, PTL DEF Spec
=============================================================================
