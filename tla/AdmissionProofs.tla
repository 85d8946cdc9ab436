--------------------------- MODULE AdmissionProofs ---------------------------
(***************************************************************************)
(* Proofs about Admission, for every set of requests and every limits that *)
(* satisfy the assumptions of that module.                                 *)
(***************************************************************************)
EXTENDS Admission, FiniteSetTheorems, TLAPS

\* The admission's keys are finitely many, as the requests are.
LEMMA KeyIsFinite == IsFiniteSet(Key)
<1> DEFINE f == [r \in Request |-> KeyOf(r)]
<1>1. f \in Surjection(Request, Key)
  BY Zenon DEF Surjection, Key
<1> QED
  BY <1>1, FS_Surjection, FiniteAssumption, Zenon

\* What the maps hold is finite: the held keys and the stored bytes.
LEMMA HoldingsAreFinite ==
  /\ IsFiniteSet(Held)
  /\ \A c : IsFiniteSet(HeldBy(c))
  /\ \A s : IsFiniteSet(HeldOn(s))
  /\ IsFiniteSet(StoredBytes)
  /\ \A c : IsFiniteSet(StoredBytesOf(c))
<1>1. IsFiniteSet(Held)
  BY KeyIsFinite, FS_Subset, Held \in SUBSET Key, Zenon DEF Held
<1>2. \A c : IsFiniteSet(HeldBy(c))
  BY <1>1, FS_Subset, \A c : HeldBy(c) \in SUBSET Held, Zenon DEF HeldBy
<1>3. \A s : IsFiniteSet(HeldOn(s))
  BY <1>1, FS_Subset, \A s : HeldOn(s) \in SUBSET Held, Zenon DEF HeldOn
<1>4. IsFiniteSet(1..MaxReplyLen)
  BY FS_Interval, LimitsAssumption
<1>5. IsFiniteSet(Key \X (1..MaxReplyLen))
  BY KeyIsFinite, <1>4, FS_Product, Zenon
<1>6. IsFiniteSet(StoredBytes)
  BY <1>5, FS_Subset, StoredBytes \in SUBSET (Key \X (1..MaxReplyLen)), Zenon DEF StoredBytes
<1>7. \A c : IsFiniteSet(StoredBytesOf(c))
  BY <1>6, FS_Subset, \A c : StoredBytesOf(c) \in SUBSET StoredBytes, Zenon DEF StoredBytesOf
<1> QED
  BY <1>1, <1>2, <1>3, <1>6, <1>7, Zenon

\* A request's key is one of the admission's.
LEMMA KeyOfRequest ==
  ASSUME NEW r \in Request
  PROVE  KeyOf(r) \in Key
BY Zenon DEF Key

\* sweep's results keep their types.
LEMMA SweptTypes ==
  ASSUME TypeOK, NEW now \in Clock
  PROVE  /\ Swept(now) \in [Key -> Entry \cup {NoEntry}]
         /\ SweptCallers(now) \in [Caller -> Nat]
         /\ SweptShares(now) \in [Share -> Nat]
         /\ SweptReplyBytes(now) \in [Caller -> Nat]
         /\ Cardinality(SweptBytes(now)) \in Nat
<1>1. Swept(now) \in [Key -> Entry \cup {NoEntry}]
  BY Zenon DEF TypeOK, Swept
<1>2. \A c : Cardinality(Expired(now) \cap HeldBy(c)) \in Nat
  BY HoldingsAreFinite, FS_Intersection, FS_CardinalityType, Zenon
<1>3. \A s : Cardinality(Expired(now) \cap HeldOn(s)) \in Nat
  BY HoldingsAreFinite, FS_Intersection, FS_CardinalityType, Zenon
<1>4. \A c : Cardinality(SweptBytes(now) \cap StoredBytesOf(c)) \in Nat
  BY HoldingsAreFinite, FS_Intersection, FS_CardinalityType, Zenon
<1>5. Cardinality(SweptBytes(now)) \in Nat
  <2>1. SweptBytes(now) \in SUBSET StoredBytes
    BY Zenon DEF SweptBytes
  <2> QED
    BY <2>1, HoldingsAreFinite, FS_Subset, FS_CardinalityType, Zenon
<1>6. SweptCallers(now) \in [Caller -> Nat]
  BY <1>2 DEF TypeOK, SweptCallers, decrement
<1>7. SweptShares(now) \in [Share -> Nat]
  BY <1>3 DEF TypeOK, SweptShares, decrement
<1>8. SweptReplyBytes(now) \in [Caller -> Nat]
  <2>1. replyBytes \in [Caller -> Nat]
    BY Zenon DEF TypeOK
  <2>2. ASSUME NEW m \in Nat, NEW n \in Nat
        PROVE  decrement(m, n) \in Nat
    BY DEF decrement
  <2> QED
    BY <1>4, <2>1, <2>2, Zenon DEF SweptReplyBytes
<1> QED
  BY <1>1, <1>5, <1>6, <1>7, <1>8, Zenon
------------------------------------------------------------------------------
\* Every action keeps TypeOK.
LEMMA TypeStep == TypeOK /\ [Next]_vars => TypeOK'
<1> SUFFICES ASSUME TypeOK, [Next]_vars
             PROVE  TypeOK'
  BY Zenon
<1> USE RequestAssumption, LimitsAssumption
<1>1. CASE UNCHANGED vars
  BY <1>1, Zenon DEF TypeOK, vars
<1>2. CASE Tick
  BY <1>2 DEF TypeOK, Tick, counters, Clock
<1>3. ASSUME NEW p \in Receiver, NEW r \in Request, Receive(p, r)
      PROVE  TypeOK'
  BY <1>3, Zenon DEF TypeOK, Receive, counters, Reading
<1>4. ASSUME NEW p \in Receiver, RefuseDeadline(p)
      PROVE  TypeOK'
  <2>1. reading[p] \in Reading
    BY <1>4, Zenon DEF RefuseDeadline, TypeOK
  <2>2. sent' \in [Receiver -> Answer \cup {Idle}]
    BY <1>4, <2>1, Zenon DEF RefuseDeadline, Refused, Answered, TypeOK, Answer, Refusals, Reading
  <2> QED
    BY <1>4, <2>2, Zenon DEF TypeOK, RefuseDeadline, Refused, Answered, counters
<1>5. ASSUME NEW p \in Receiver, Judging(p)
      PROVE  /\ reading[p] \in Reading
             /\ reading[p].req \in Request
             /\ reading[p].now \in Clock
             /\ KeyOf(reading[p].req) \in Key
             /\ clock' \in Clock
             /\ replyBytes' \in [Caller -> Nat]
             /\ replyTotal' \in Int
             /\ lastSweep' \in Clock
  <2>1. reading[p] \in Reading
    BY <1>5, Zenon DEF Judging, TypeOK
  <2>2. reading[p].req \in Request /\ reading[p].now \in Clock
    BY <2>1, Zenon DEF Reading
  <2> QED
    BY <1>5, <2>1, <2>2, KeyOfRequest, SweptTypes DEF Judging, TypeOK
<1>6. ASSUME NEW p \in Receiver, JudgeHeld(p)
      PROVE  TypeOK'
  <2> DEFINE held == Swept(reading[p].now)[KeyOf(reading[p].req)]
  <2>1. Judging(p) /\ NotAdded(p)
    BY <1>6, Zenon DEF JudgeHeld
  <2>2. held \in Entry
    BY <1>5, <1>6, <2>1, SweptTypes, Zenon DEF JudgeHeld
  <2>3. CopyAnswer(reading[p].req, held) \in Answer
    BY <1>5, <2>1, <2>2, Zenon DEF CopyAnswer, Answer, Refusals, Entry
  <2>4. reading' \in [Receiver -> Reading \cup {Idle}] /\ sent' \in [Receiver -> Answer \cup {Idle}]
    BY <1>6, <2>3, Zenon DEF JudgeHeld, Answered, TypeOK
  <2> QED
    BY <1>5, <2>1, <2>4, SweptTypes, Zenon DEF TypeOK, NotAdded
<1>7. ASSUME NEW p \in Receiver, JudgeFull(p)
      PROVE  TypeOK'
  <2>1. Judging(p) /\ NotAdded(p)
    BY <1>7, Zenon DEF JudgeFull
  <2>2. reading' \in [Receiver -> Reading \cup {Idle}] /\ sent' \in [Receiver -> Answer \cup {Idle}]
    BY <1>5, <1>7, <2>1, Zenon DEF JudgeFull, Refused, Answered, FullCode, TypeOK, Answer, Refusals
  <2> QED
    BY <1>5, <2>1, <2>2, SweptTypes, Zenon DEF TypeOK, NotAdded
<1>8. ASSUME NEW p \in Receiver, JudgeNew(p)
      PROVE  TypeOK'
  <2> DEFINE r == reading[p].req
             now == reading[p].now
  <2>1. Judging(p)
    BY <1>8, Zenon DEF JudgeNew
  <2>2. r \in Request /\ now \in Clock /\ KeyOf(r) \in Key /\ CallerOf[r] \in Caller /\ ShareOf[p] \in Share
    BY <1>5, <2>1, Zenon
  <2> HIDE DEF r, now
  <2>3. NewEntry(r, ShareOf[p]) \in Entry
    BY <2>2, Zenon DEF NewEntry, Entry
  <2>4. entries' \in [Key -> Entry \cup {NoEntry}]
    BY <1>8, <2>2, <2>3, SweptTypes, Zenon DEF JudgeNew, r, now
  <2>5. callers' \in [Caller -> Nat] /\ shares' \in [Share -> Nat]
    BY <1>8, <2>2, SweptTypes DEF JudgeNew, r, now
  <2>6. started' \in [Request -> Nat] /\ running' \in SUBSET Run
    BY <1>8, <2>2 DEF JudgeNew, TypeOK, Run, r
  <2>7. reading' \in [Receiver -> Reading \cup {Idle}] /\ sent' \in [Receiver -> Answer \cup {Idle}]
    BY <1>8, Zenon DEF JudgeNew, TypeOK
  <2> QED
    BY <1>5, <2>1, <2>4, <2>5, <2>6, <2>7, Zenon DEF TypeOK
<1>9. ASSUME NEW x \in running, NEW len \in 1..MaxReplyLen, AnswerRun(x, len)
      PROVE  TypeOK'
  <2>1. x.req \in Request /\ KeyOf(x.req) \in Key /\ CallerOf[x.req] \in Caller
    BY KeyOfRequest, Zenon DEF TypeOK, Run
  <2>2. entries' \in [Key -> Entry \cup {NoEntry}]
    <3>1. CASE Storable(x.req)
      <4>1. entries[KeyOf(x.req)] \in Entry
        BY <2>1, <3>1, Zenon DEF Storable, Held, TypeOK
      <4>2. [from |-> x.req, len |-> len] \in Reply
        BY <2>1, Zenon DEF Reply
      <4> QED
        BY <1>9, <2>1, <3>1, <4>1, <4>2, Zenon DEF AnswerRun, TypeOK, Entry
    <3>2. CASE ~Storable(x.req)
      BY <1>9, <3>2, Zenon DEF AnswerRun, TypeOK
    <3> QED
      BY <3>1, <3>2, Zenon
  <2>3. replyBytes' \in [Caller -> Nat] /\ replyTotal' \in Int
    BY <1>9, <2>1 DEF AnswerRun, TypeOK
  <2> QED
    BY <1>9, <2>2, <2>3, Zenon DEF AnswerRun, TypeOK
<1> QED
  BY <1>1, <1>2, <1>3, <1>4, <1>6, <1>7, <1>8, <1>9, Zenon DEF Next

\* Type correctness of the admission's state (admission.go Admission).
THEOREM TypeCorrect == Spec => []TypeOK
<1>1. Init => TypeOK
  BY LimitsAssumption DEF Init, TypeOK, Clock
<1> QED
  BY <1>1, TypeStep, PTL DEF Spec
------------------------------------------------------------------------------
\* What sweep leaves in the counters is what it leaves in the maps.
LEMMA SweepExact ==
  ASSUME TypeOK, CountersExact, NEW now \in Clock
  PROVE  /\ \A c \in Caller : SweptCallers(now)[c] = Cardinality(HeldBy(c) \ Expired(now))
         /\ \A s \in Share : SweptShares(now)[s] = Cardinality(HeldOn(s) \ Expired(now))
         /\ \A c \in Caller :
               SweptReplyBytes(now)[c] = Cardinality(StoredBytesOf(c) \ SweptBytes(now))
         /\ replyTotal - Cardinality(SweptBytes(now)) = Cardinality(StoredBytes \ SweptBytes(now))
<1>1. ASSUME NEW S, NEW T, IsFiniteSet(S)
      PROVE  decrement(Cardinality(S), Cardinality(T \cap S)) = Cardinality(S \ T)
  <2>1. Cardinality(S \ T) = Cardinality(S) - Cardinality(S \cap T) /\ IsFiniteSet(S \ T)
    BY <1>1, FS_Difference, Zenon
  <2>2. Cardinality(S \ T) \in Nat /\ Cardinality(S) \in Nat /\ Cardinality(S \cap T) \in Nat
    BY <1>1, <2>1, FS_CardinalityType, FS_Intersection, Zenon
  <2>3. T \cap S = S \cap T
    BY Zenon
  <2> QED
    BY <2>1, <2>2, <2>3 DEF decrement
<1>2. \A c \in Caller : SweptCallers(now)[c] = Cardinality(HeldBy(c) \ Expired(now))
  BY <1>1, HoldingsAreFinite, Zenon DEF CountersExact, SweptCallers
<1>3. \A s \in Share : SweptShares(now)[s] = Cardinality(HeldOn(s) \ Expired(now))
  BY <1>1, HoldingsAreFinite, Zenon DEF CountersExact, SweptShares
<1>4. \A c \in Caller :
        SweptReplyBytes(now)[c] = Cardinality(StoredBytesOf(c) \ SweptBytes(now))
  BY <1>1, HoldingsAreFinite, Zenon DEF CountersExact, SweptReplyBytes
<1>5. replyTotal - Cardinality(SweptBytes(now)) = Cardinality(StoredBytes \ SweptBytes(now))
  <2>1. StoredBytes \cap SweptBytes(now) = SweptBytes(now)
    BY Zenon DEF SweptBytes
  <2>2. Cardinality(StoredBytes \ SweptBytes(now))
          = Cardinality(StoredBytes) - Cardinality(StoredBytes \cap SweptBytes(now))
    BY HoldingsAreFinite, FS_Difference, Zenon
  <2> QED
    BY <2>1, <2>2, Zenon DEF CountersExact
<1> QED
  BY <1>2, <1>3, <1>4, <1>5, Zenon

\* The maps after a step that leaves the swept entries and adds none.
LEMMA NotAddedHoldings ==
  ASSUME TypeOK, NEW now \in Clock, entries' = Swept(now)
  PROVE  /\ Held' = Held \ Expired(now)
         /\ \A c : HeldBy(c)' = HeldBy(c) \ Expired(now)
         /\ \A s : HeldOn(s)' = HeldOn(s) \ Expired(now)
         /\ StoredBytes' = StoredBytes \ SweptBytes(now)
         /\ \A c : StoredBytesOf(c)' = StoredBytesOf(c) \ SweptBytes(now)
<1>1. \A k \in Key : entries'[k] = IF k \in Expired(now) THEN NoEntry ELSE entries[k]
  BY Zenon DEF Swept
<1>2. Held' = Held \ Expired(now)
  BY <1>1, Zenon DEF Held, Expired
<1>3. \A c : HeldBy(c)' = HeldBy(c) \ Expired(now)
  BY <1>2, Zenon DEF HeldBy
<1>4. Held \subseteq Key
  BY Zenon DEF Held
<1>5. \A s : HeldOn(s)' = HeldOn(s) \ Expired(now)
  BY <1>1, <1>2, <1>4, Zenon DEF HeldOn
<1>6. StoredBytes' = StoredBytes \ SweptBytes(now)
  BY <1>1, <1>2, <1>4, Zenon DEF StoredBytes, SweptBytes
<1>7. \A c : StoredBytesOf(c)' = StoredBytesOf(c) \ SweptBytes(now)
  BY <1>6, Zenon DEF StoredBytesOf
<1> QED
  BY <1>2, <1>3, <1>5, <1>6, <1>7, Zenon

\* The maps after a step that adds the entry of a new request.
LEMMA AddedHoldings ==
  ASSUME TypeOK, NEW now \in Clock, NEW r \in Request, NEW t \in Share,
         Swept(now)[KeyOf(r)] = NoEntry,
         entries' = [Swept(now) EXCEPT ![KeyOf(r)] = NewEntry(r, t)]
  PROVE  /\ KeyOf(r) \notin Held \ Expired(now)
         /\ Held' = (Held \ Expired(now)) \cup {KeyOf(r)}
         /\ \A c : HeldBy(c)' = IF c = CallerOf[r] THEN (HeldBy(c) \ Expired(now)) \cup {KeyOf(r)}
                                                   ELSE HeldBy(c) \ Expired(now)
         /\ \A s : HeldOn(s)' = IF s = t THEN (HeldOn(s) \ Expired(now)) \cup {KeyOf(r)}
                                         ELSE HeldOn(s) \ Expired(now)
         /\ StoredBytes' = StoredBytes \ SweptBytes(now)
         /\ \A c : StoredBytesOf(c)' = StoredBytesOf(c) \ SweptBytes(now)
<1> DEFINE q == KeyOf(r)
<1>1. q \in Key /\ q[1] = CallerOf[r]
  BY KeyOfRequest, Zenon DEF KeyOf
<1>2. NewEntry(r, t) \in Entry /\ NewEntry(r, t).share = t /\ NewEntry(r, t).reply = NoReply
  BY Zenon DEF NewEntry, Entry
<1>3. NewEntry(r, t) # NoEntry
  BY <1>2, NullAssumption, Zenon
<1> HIDE DEF q
<1>4. \A k \in Key : entries'[k] = IF k = q THEN NewEntry(r, t)
                                   ELSE IF k \in Expired(now) THEN NoEntry ELSE entries[k]
  BY <1>1, Zenon DEF Swept, q
<1>5. q \notin Held \ Expired(now)
  BY <1>1, Zenon DEF Swept, Held, q
<1>6. Held' = (Held \ Expired(now)) \cup {q}
  BY <1>1, <1>3, <1>4, Zenon DEF Held, Expired
<1>7. \A c : HeldBy(c)' = IF c = CallerOf[r] THEN (HeldBy(c) \ Expired(now)) \cup {q}
                                            ELSE HeldBy(c) \ Expired(now)
  BY <1>1, <1>6 DEF HeldBy
<1>8. Held \subseteq Key
  BY Zenon DEF Held
<1>9. \A s : HeldOn(s)' = IF s = t THEN (HeldOn(s) \ Expired(now)) \cup {q}
                                  ELSE HeldOn(s) \ Expired(now)
  BY <1>1, <1>2, <1>4, <1>5, <1>6, <1>8 DEF HeldOn
<1>10. StoredBytes' = StoredBytes \ SweptBytes(now)
  BY <1>1, <1>2, <1>4, <1>5, <1>6, <1>8, Zenon DEF StoredBytes, SweptBytes
<1>11. \A c : StoredBytesOf(c)' = StoredBytesOf(c) \ SweptBytes(now)
  BY <1>10, Zenon DEF StoredBytesOf
<1> QED
  BY <1>5, <1>6, <1>7, <1>9, <1>10, <1>11, Zenon DEF q
------------------------------------------------------------------------------
\* A handler that has not answered left no reply.
UnansweredHasNoReply ==
    \A k \in Held : ~entries[k].answered => entries[k].reply = NoReply

\* The invariant the bounds rest on: the counters are exact, so a bound checked
\* against a counter is a bound on what the maps hold.
BoundsInv == TypeOK /\ UnansweredHasNoReply /\ CountersExact /\ WithinLimits

\* What a judged request's reading is worth: a request, and a clock reading.
LEMMA JudgedReading ==
  ASSUME TypeOK, NEW p \in Receiver, reading[p] # Idle
  PROVE  reading[p].req \in Request /\ reading[p].now \in Clock /\ ShareOf[p] \in Share
BY RequestAssumption, Zenon DEF TypeOK, Reading

\* A sweep that adds nothing keeps the bounds invariant.
LEMMA NotAddedKeepsBounds ==
  ASSUME BoundsInv, TypeOK', NEW p \in Receiver, Judging(p), NotAdded(p)
  PROVE  BoundsInv'
<1> DEFINE now == reading[p].now
<1>1. now \in Clock
  BY JudgedReading, Zenon DEF Judging, BoundsInv
<1>2. /\ entries' = Swept(now)
      /\ callers' = SweptCallers(now) /\ shares' = SweptShares(now)
      /\ replyBytes' = SweptReplyBytes(now)
      /\ replyTotal' = replyTotal - Cardinality(SweptBytes(now))
  BY Zenon DEF Judging, NotAdded
<1> HIDE DEF now
<1>3. TypeOK /\ CountersExact
  BY Zenon DEF BoundsInv
<1>4. CountersExact'
  <2>1. /\ \A c : HeldBy(c)' = HeldBy(c) \ Expired(now)
        /\ \A s : HeldOn(s)' = HeldOn(s) \ Expired(now)
        /\ StoredBytes' = StoredBytes \ SweptBytes(now)
        /\ \A c : StoredBytesOf(c)' = StoredBytesOf(c) \ SweptBytes(now)
    BY <1>1, <1>2, <1>3, NotAddedHoldings, Zenon
  <2>2. /\ \A c \in Caller : SweptCallers(now)[c] = Cardinality(HeldBy(c) \ Expired(now))
        /\ \A s \in Share : SweptShares(now)[s] = Cardinality(HeldOn(s) \ Expired(now))
        /\ \A c \in Caller : SweptReplyBytes(now)[c] = Cardinality(StoredBytesOf(c) \ SweptBytes(now))
        /\ replyTotal - Cardinality(SweptBytes(now)) = Cardinality(StoredBytes \ SweptBytes(now))
    BY <1>1, <1>3, SweepExact, Zenon
  <2>3. \A c \in Caller : callers'[c] = Cardinality(HeldBy(c)')
    BY <1>2, <2>1, <2>2, Zenon
  <2>4. \A s \in Share : shares'[s] = Cardinality(HeldOn(s)')
    BY <1>2, <2>1, <2>2, Zenon
  <2>5. \A c \in Caller : replyBytes'[c] = Cardinality(StoredBytesOf(c)')
    BY <1>2, <2>1, <2>2, Zenon
  <2>6. replyTotal' = Cardinality(StoredBytes')
    BY <1>2, <2>1, <2>2, Zenon
  <2> QED
    BY <2>3, <2>4, <2>5, <2>6, Zenon DEF CountersExact
<1>5. ASSUME NEW S, NEW T, NEW n \in Nat, IsFiniteSet(S), Cardinality(S) <= n
      PROVE  Cardinality(S \ T) <= n
  <2>1. Cardinality(S \ T) <= Cardinality(S) /\ Cardinality(S) \in Nat
    BY <1>5, FS_Subset, FS_CardinalityType, S \ T \in SUBSET S, Zenon
  <2>2. Cardinality(S \ T) \in Nat
    BY <1>5, FS_Difference, FS_CardinalityType, Zenon
  <2> QED
    BY <1>5, <2>1, <2>2
<1>6. WithinLimits'
  <2>1. WithinLimits
    BY Zenon DEF BoundsInv
  <2>2. /\ Cardinality(Held') <= Cap /\ Cardinality(StoredBytes') <= ReplyBytesTotal
        /\ \A c \in Caller : Cardinality(HeldBy(c)') <= CallerQuota
        /\ \A s \in Share : Cardinality(HeldOn(s)') <= ShareLimit
        /\ \A c \in Caller : Cardinality(StoredBytesOf(c)') <= ReplyBytes
    BY <1>1, <1>2, <1>3, <1>5, <2>1, NotAddedHoldings, HoldingsAreFinite, LimitsAssumption, Zenon
       DEF WithinLimits
  <2> QED
    BY <2>2, Zenon DEF WithinLimits
<1>7. UnansweredHasNoReply'
  BY <1>2, Zenon DEF BoundsInv, UnansweredHasNoReply, Held, Swept
<1> QED
  BY <1>4, <1>6, <1>7, Zenon DEF BoundsInv

\* What a set loses by a sweep, in cardinality.
LEMMA RemovedCardinality ==
  ASSUME NEW S, NEW T, IsFiniteSet(S)
  PROVE  /\ IsFiniteSet(S \ T) /\ Cardinality(S \ T) \in Nat /\ Cardinality(S) \in Nat
         /\ Cardinality(S \ T) <= Cardinality(S)
<1>1. IsFiniteSet(S \ T) /\ Cardinality(S \ T) <= Cardinality(S)
  BY FS_Subset, S \ T \in SUBSET S, Zenon
<1> QED
  BY <1>1, FS_CardinalityType, Zenon

\* What a set gains by an admission is one, if what is admitted was not kept.
LEMMA AddedCardinality ==
  ASSUME NEW S, NEW T, NEW x, IsFiniteSet(S), x \notin S \ T
  PROVE  Cardinality((S \ T) \cup {x}) = Cardinality(S \ T) + 1
BY RemovedCardinality, FS_AddElement, Zenon

\* Admitting a new request keeps the bounds invariant: the counters checked
\* are those the sweep left, under the same lock.
LEMMA JudgeNewKeepsBounds ==
  ASSUME BoundsInv, TypeOK', NEW p \in Receiver, JudgeNew(p)
  PROVE  BoundsInv'
<1> DEFINE now == reading[p].now
           r == reading[p].req
           t == ShareOf[p]
<1>1. now \in Clock /\ r \in Request /\ t \in Share /\ CallerOf[r] \in Caller
  BY JudgedReading, RequestAssumption, Zenon DEF JudgeNew, Judging, BoundsInv
<1>2. /\ Swept(now)[KeyOf(r)] = NoEntry
      /\ ~Full(r, t, now)
      /\ entries' = [Swept(now) EXCEPT ![KeyOf(r)] = NewEntry(r, t)]
      /\ callers' = [SweptCallers(now) EXCEPT ![CallerOf[r]] = @ + 1]
      /\ shares' = [SweptShares(now) EXCEPT ![t] = @ + 1]
      /\ replyBytes' = SweptReplyBytes(now)
      /\ replyTotal' = replyTotal - Cardinality(SweptBytes(now))
  BY Zenon DEF JudgeNew, Judging
<1> HIDE DEF now, r, t
<1>3. TypeOK /\ CountersExact /\ WithinLimits
  BY Zenon DEF BoundsInv
<1>4. /\ SweptCallers(now) \in [Caller -> Nat] /\ SweptShares(now) \in [Share -> Nat]
      /\ SweptReplyBytes(now) \in [Caller -> Nat]
  BY <1>1, <1>3, SweptTypes, Zenon
<1>5. /\ Held' = (Held \ Expired(now)) \cup {KeyOf(r)}
      /\ \A c : HeldBy(c)' = IF c = CallerOf[r] THEN (HeldBy(c) \ Expired(now)) \cup {KeyOf(r)}
                                                ELSE HeldBy(c) \ Expired(now)
      /\ \A s : HeldOn(s)' = IF s = t THEN (HeldOn(s) \ Expired(now)) \cup {KeyOf(r)}
                                      ELSE HeldOn(s) \ Expired(now)
  BY <1>1, <1>2, <1>3, AddedHoldings, ZenonT(30)
<1>6. /\ KeyOf(r) \notin Held \ Expired(now)
      /\ \A c : KeyOf(r) \notin HeldBy(c) \ Expired(now)
      /\ \A s : KeyOf(r) \notin HeldOn(s) \ Expired(now)
  BY <1>1, <1>2, <1>3, AddedHoldings, Zenon DEF HeldBy, HeldOn
<1>7. \A c \in Caller : callers'[c] = Cardinality(HeldBy(c)') /\ Cardinality(HeldBy(c)') <= CallerQuota
  <2> SUFFICES ASSUME NEW c \in Caller
               PROVE  callers'[c] = Cardinality(HeldBy(c)') /\ Cardinality(HeldBy(c)') <= CallerQuota
    BY Zenon
  <2>0. /\ Cardinality(HeldBy(c) \ Expired(now)) \in Nat /\ Cardinality(HeldBy(c)) \in Nat
        /\ Cardinality(HeldBy(c) \ Expired(now)) <= Cardinality(HeldBy(c))
    BY RemovedCardinality, HoldingsAreFinite, Zenon
  <2>1. SweptCallers(now)[c] = Cardinality(HeldBy(c) \ Expired(now))
    BY <1>1, <1>3, SweepExact, Zenon
  <2>2. Cardinality(HeldBy(c)) <= CallerQuota /\ CallerQuota \in Nat
    BY <1>3, LimitsAssumption, Zenon DEF WithinLimits
  <2>3. CASE c = CallerOf[r]
    <3>1. HeldBy(c)' = (HeldBy(c) \ Expired(now)) \cup {KeyOf(r)}
      BY <1>5, <2>3, Zenon
    <3>2. SweptCallers(now)[c] < CallerQuota
      BY <1>1, <1>2, <1>4, <2>2, <2>3 DEF Full
    <3>3. callers'[c] = SweptCallers(now)[c] + 1
      BY <1>1, <1>2, <1>4, <2>3, Zenon
    <3>4. Cardinality((HeldBy(c) \ Expired(now)) \cup {KeyOf(r)}) = Cardinality(HeldBy(c) \ Expired(now)) + 1
      BY <1>6, AddedCardinality, HoldingsAreFinite, Zenon
    <3> QED
      BY <2>0, <2>1, <2>2, <3>1, <3>2, <3>3, <3>4
  <2>4. CASE c # CallerOf[r]
    <3>1. HeldBy(c)' = HeldBy(c) \ Expired(now)
      BY <1>5, <2>4, Zenon
    <3>2. callers'[c] = SweptCallers(now)[c]
      BY <1>1, <1>2, <1>4, <2>4, Zenon
    <3> QED
      BY <2>0, <2>1, <2>2, <3>1, <3>2
  <2> QED
    BY <2>3, <2>4, Zenon
<1>8. \A s \in Share : shares'[s] = Cardinality(HeldOn(s)') /\ Cardinality(HeldOn(s)') <= ShareLimit
  <2> SUFFICES ASSUME NEW s \in Share
               PROVE  shares'[s] = Cardinality(HeldOn(s)') /\ Cardinality(HeldOn(s)') <= ShareLimit
    BY Zenon
  <2>0. /\ Cardinality(HeldOn(s) \ Expired(now)) \in Nat /\ Cardinality(HeldOn(s)) \in Nat
        /\ Cardinality(HeldOn(s) \ Expired(now)) <= Cardinality(HeldOn(s))
    BY RemovedCardinality, HoldingsAreFinite, Zenon
  <2>1. SweptShares(now)[s] = Cardinality(HeldOn(s) \ Expired(now))
    BY <1>1, <1>3, SweepExact, Zenon
  <2>2. Cardinality(HeldOn(s)) <= ShareLimit /\ ShareLimit \in Nat
    BY <1>3, LimitsAssumption, Zenon DEF WithinLimits
  <2>3. CASE s = t
    <3>1. HeldOn(s)' = (HeldOn(s) \ Expired(now)) \cup {KeyOf(r)}
      BY <1>5, <2>3, Zenon
    <3>2. SweptShares(now)[s] < ShareLimit
      BY <1>1, <1>2, <1>4, <2>2, <2>3 DEF Full
    <3>3. shares'[s] = SweptShares(now)[s] + 1
      BY <1>1, <1>2, <1>4, <2>3, Zenon
    <3>4. Cardinality((HeldOn(s) \ Expired(now)) \cup {KeyOf(r)}) = Cardinality(HeldOn(s) \ Expired(now)) + 1
      BY <1>6, AddedCardinality, HoldingsAreFinite, Zenon
    <3> QED
      BY <2>0, <2>1, <2>2, <3>1, <3>2, <3>3, <3>4
  <2>4. CASE s # t
    <3>1. HeldOn(s)' = HeldOn(s) \ Expired(now)
      BY <1>5, <2>4, Zenon
    <3>2. shares'[s] = SweptShares(now)[s]
      BY <1>1, <1>2, <1>4, <2>4, Zenon
    <3> QED
      BY <2>0, <2>1, <2>2, <3>1, <3>2
  <2> QED
    BY <2>3, <2>4, Zenon
<1>9. Cardinality(Held') <= Cap
  <2>1. Cardinality(Held \ Expired(now)) \in Nat /\ Cap \in Nat
    BY RemovedCardinality, HoldingsAreFinite, LimitsAssumption, Zenon
  <2>2. Cardinality(Held \ Expired(now)) < Cap
    BY <1>2, <2>1 DEF Full
  <2>3. Cardinality((Held \ Expired(now)) \cup {KeyOf(r)}) = Cardinality(Held \ Expired(now)) + 1
    BY <1>6, AddedCardinality, HoldingsAreFinite, Zenon
  <2> QED
    BY <1>5, <2>1, <2>2, <2>3
<1>10. /\ replyTotal' = Cardinality(StoredBytes') /\ Cardinality(StoredBytes') <= ReplyBytesTotal
       /\ \A c \in Caller : /\ replyBytes'[c] = Cardinality(StoredBytesOf(c)')
                            /\ Cardinality(StoredBytesOf(c)') <= ReplyBytes
  <2>1. /\ StoredBytes' = StoredBytes \ SweptBytes(now)
        /\ \A c : StoredBytesOf(c)' = StoredBytesOf(c) \ SweptBytes(now)
    BY <1>1, <1>2, <1>3, AddedHoldings, Zenon
  <2>2. replyTotal' = Cardinality(StoredBytes')
    BY <1>1, <1>2, <1>3, <2>1, SweepExact, Zenon
  <2>3. \A c \in Caller : replyBytes'[c] = Cardinality(StoredBytesOf(c)')
    BY <1>1, <1>2, <1>3, <2>1, SweepExact, Zenon
  <2>4. ASSUME NEW S, NEW n \in Nat, IsFiniteSet(S), Cardinality(S) <= n
        PROVE  Cardinality(S \ SweptBytes(now)) <= n
    BY <2>4, RemovedCardinality
  <2>5. Cardinality(StoredBytes') <= ReplyBytesTotal
    BY <1>3, <2>1, <2>4, HoldingsAreFinite, LimitsAssumption, Zenon DEF WithinLimits
  <2>6. \A c \in Caller : Cardinality(StoredBytesOf(c)') <= ReplyBytes
    BY <1>3, <2>1, <2>4, HoldingsAreFinite, LimitsAssumption, Zenon DEF WithinLimits
  <2> QED
    BY <2>2, <2>3, <2>5, <2>6, Zenon
<1>11. UnansweredHasNoReply'
  BY <1>1, <1>2, KeyOfRequest, Zenon DEF BoundsInv, UnansweredHasNoReply, Held, Swept, NewEntry
<1>12. CountersExact' /\ WithinLimits'
  BY <1>7, <1>8, <1>9, <1>10, Zenon DEF CountersExact, WithinLimits
<1> QED
  BY <1>11, <1>12, Zenon DEF BoundsInv

\* Storing a reply keeps the bounds invariant: an entry stores at most once, so
\* its bytes are new ones.
LEMMA AnswerKeepsBounds ==
  ASSUME BoundsInv, TypeOK', NEW x \in running, NEW len \in 1..MaxReplyLen, AnswerRun(x, len)
  PROVE  BoundsInv'
<1> DEFINE r == x.req
           q == KeyOf(r)
           c == CallerOf[r]
           new == {q} \X (1..len)
<1>1. r \in Request /\ q \in Key /\ c \in Caller /\ q[1] = c /\ len \in Nat /\ len <= MaxReplyLen
  BY KeyOfRequest, RequestAssumption, LimitsAssumption DEF BoundsInv, TypeOK, Run, KeyOf
<1>2. /\ entries' = IF Storable(r)
                    THEN [entries EXCEPT ![q].answered = TRUE,
                             ![q].reply = IF ReplyFits(c, len) THEN [from |-> r, len |-> len] ELSE @]
                    ELSE entries
      /\ replyBytes' = IF Storable(r) /\ ReplyFits(c, len)
                       THEN [replyBytes EXCEPT ![c] = @ + len] ELSE replyBytes
      /\ replyTotal' = IF Storable(r) /\ ReplyFits(c, len) THEN replyTotal + len ELSE replyTotal
      /\ callers' = callers /\ shares' = shares
  BY Zenon DEF AnswerRun
<1>3. /\ IsFiniteSet(new) /\ Cardinality(new) = len
  <2>1. IsFiniteSet(1..len) /\ Cardinality(1..len) = len
    BY <1>1, FS_Interval
  <2>2. IsFiniteSet({q}) /\ Cardinality({q}) = 1
    BY FS_Singleton, Zenon
  <2> QED
    BY <1>1, <2>1, <2>2, FS_Product
<1> HIDE DEF r, q, c
<1>4. TypeOK /\ UnansweredHasNoReply /\ CountersExact /\ WithinLimits /\ entries \in [Key -> Entry \cup {NoEntry}]
  BY Zenon DEF BoundsInv, TypeOK
<1>5. CASE ~Storable(r)
  <2>1. entries' = entries /\ replyBytes' = replyBytes /\ replyTotal' = replyTotal
    BY <1>2, <1>5, Zenon
  <2>2. Held' = Held
    BY <2>1, Zenon DEF Held
  <2>3. StoredBytes' = StoredBytes
    BY <2>1, <2>2, Zenon DEF StoredBytes
  <2>4. /\ \A d : HeldBy(d)' = HeldBy(d)
        /\ \A s : HeldOn(s)' = HeldOn(s)
        /\ \A d : StoredBytesOf(d)' = StoredBytesOf(d)
    BY <2>1, <2>2, <2>3, Zenon DEF HeldBy, HeldOn, StoredBytesOf
  <2>5. CountersExact' /\ WithinLimits'
    BY <1>2, <1>4, <2>1, <2>2, <2>3, <2>4, Zenon DEF CountersExact, WithinLimits
  <2>6. UnansweredHasNoReply'
    BY <1>4, <2>1, <2>2, Zenon DEF UnansweredHasNoReply
  <2> QED
    BY <2>5, <2>6, Zenon DEF BoundsInv
<1>6. CASE Storable(r)
  <2>1. q \in Held /\ entries[q] \in Entry /\ ~entries[q].answered /\ entries[q].reply = NoReply
    BY <1>1, <1>4, <1>6, Zenon DEF Storable, UnansweredHasNoReply, Held, q
  <2>2. /\ entries'[q] \in Entry /\ entries'[q] # NoEntry
        /\ entries'[q].share = entries[q].share /\ entries'[q].answered
        /\ entries'[q].reply = IF ReplyFits(c, len) THEN [from |-> r, len |-> len] ELSE NoReply
    <3>1. entries'[q] = [entries[q] EXCEPT !.answered = TRUE,
                             !.reply = IF ReplyFits(c, len) THEN [from |-> r, len |-> len] ELSE @]
      BY <1>1, <1>2, <1>4, <1>6, Zenon
    <3>2. [from |-> r, len |-> len] \in Reply
      BY <1>1, Zenon DEF Reply
    <3> QED
      BY <2>1, <3>1, <3>2, NullAssumption, ZenonT(30) DEF Entry
  <2>3. \A k \in Key : k # q => entries'[k] = entries[k]
    BY <1>1, <1>2, <1>4, <1>6, Zenon
  <2>4. Held' = Held /\ Held \subseteq Key
    BY <2>1, <2>2, <2>3, Zenon DEF Held
  <2>5. \A d : HeldBy(d)' = HeldBy(d)
    BY <2>4, Zenon DEF HeldBy
  <2>6. \A s : HeldOn(s)' = HeldOn(s)
    BY <2>2, <2>3, <2>4, Zenon DEF HeldOn
  <2>7. UnansweredHasNoReply'
    BY <1>4, <2>2, <2>3, <2>4, Zenon DEF UnansweredHasNoReply
  <2>8. CASE ~ReplyFits(c, len)
    <3>1. StoredBytes' = StoredBytes
      BY <2>1, <2>2, <2>3, <2>4, <2>8, Zenon DEF StoredBytes
    <3>2. \A d : StoredBytesOf(d)' = StoredBytesOf(d)
      BY <3>1, Zenon DEF StoredBytesOf
    <3>3. replyBytes' = replyBytes /\ replyTotal' = replyTotal
      BY <1>2, <2>8, Zenon
    <3> QED
      BY <1>2, <1>4, <2>4, <2>5, <2>6, <2>7, <3>1, <3>2, <3>3
        , Zenon DEF BoundsInv, CountersExact, WithinLimits
  <2>9. CASE ReplyFits(c, len)
    <3>1. entries'[q].reply # NoReply /\ entries'[q].reply.len = len
      BY <1>1, <2>2, <2>9, NullAssumption DEF Reply
    <3>2. StoredBytes' = StoredBytes \cup new /\ StoredBytes \cap new = {}
      <4>1. ASSUME NEW b \in Key \X (1..MaxReplyLen)
            PROVE  b \in StoredBytes' <=> b \in StoredBytes \/ b \in new
        BY <1>1, <2>1, <2>3, <2>4, <3>1 DEF StoredBytes
      <4>2. new \subseteq Key \X (1..MaxReplyLen)
        <5>1. 1..len \subseteq 1..MaxReplyLen
          BY <1>1, LimitsAssumption
        <5> QED
          BY <1>1, <5>1, Zenon
      <4>3. StoredBytes' \subseteq Key \X (1..MaxReplyLen) /\ StoredBytes \subseteq Key \X (1..MaxReplyLen)
        BY Zenon DEF StoredBytes
      <4>4. \A b \in new : b \notin StoredBytes
        BY <2>1, Zenon DEF StoredBytes
      <4> QED
        BY <4>1, <4>2, <4>3, <4>4, Zenon
    <3>3. \A d : StoredBytesOf(d)' = IF d = c THEN StoredBytesOf(d) \cup new ELSE StoredBytesOf(d)
      BY <1>1, <3>2, Zenon DEF StoredBytesOf
    <3>4. StoredBytesOf(c) \cap new = {}
      BY <3>2, Zenon DEF StoredBytesOf
    <3> HIDE DEF new
    <3>5. ASSUME NEW S, IsFiniteSet(S), S \cap new = {}
          PROVE  Cardinality(S \cup new) = Cardinality(S) + len /\ Cardinality(S) \in Nat
      <4>1. Cardinality(S \cup new) = Cardinality(S) + Cardinality(new) - Cardinality(S \cap new)
        BY <1>3, <3>5, FS_Union, Zenon
      <4>2. Cardinality(S \cap new) = 0
        BY <3>5, FS_EmptySet, Zenon
      <4>3. Cardinality(S) \in Nat
        BY <3>5, FS_CardinalityType, Zenon
      <4> QED
        BY <1>1, <1>3, <4>1, <4>2, <4>3
    <3>6. /\ replyBytes' = [replyBytes EXCEPT ![c] = @ + len] /\ replyTotal' = replyTotal + len
          /\ replyBytes[c] + len <= ReplyBytes /\ replyTotal + len <= ReplyBytesTotal
          /\ replyBytes \in [Caller -> Nat]
      BY <1>2, <1>4, <1>6, <2>9, Zenon DEF ReplyFits, TypeOK
    <3>7. replyTotal' = Cardinality(StoredBytes') /\ Cardinality(StoredBytes') <= ReplyBytesTotal
      BY <1>4, <3>2, <3>5, <3>6, HoldingsAreFinite, Zenon DEF CountersExact
    <3>8. Cardinality(StoredBytesOf(c) \cup new) = replyBytes[c] + len
      BY <1>1, <1>4, <3>4, <3>5, HoldingsAreFinite, Zenon DEF CountersExact
    <3>9. \A d \in Caller : /\ replyBytes'[d] = Cardinality(StoredBytesOf(d)')
                            /\ Cardinality(StoredBytesOf(d)') <= ReplyBytes
      BY <1>1, <1>4, <3>3, <3>6, <3>8, Zenon DEF CountersExact, WithinLimits
    <3> QED
      BY <1>2, <1>4, <2>4, <2>5, <2>6, <2>7, <3>7, <3>9, Zenon DEF BoundsInv, CountersExact, WithinLimits
  <2> QED
    BY <2>8, <2>9, Zenon
<1> QED
  BY <1>5, <1>6, Zenon

\* The initial maps are empty, and the counters zero.
LEMMA BoundsInit == Init => BoundsInv
<1> SUFFICES ASSUME Init
             PROVE  BoundsInv
  BY Zenon
<1>1. TypeOK
  BY LimitsAssumption DEF Init, TypeOK, Clock
<1>2. Held = {} /\ StoredBytes = {}
  BY Zenon DEF Init, Held, StoredBytes
<1>3. /\ \A c : HeldBy(c) = {} /\ StoredBytesOf(c) = {}
      /\ \A s : HeldOn(s) = {}
  BY <1>2, Zenon DEF HeldBy, HeldOn, StoredBytesOf
<1>4. CountersExact /\ WithinLimits
  BY <1>2, <1>3, FS_EmptySet, LimitsAssumption DEF Init, CountersExact, WithinLimits
<1> QED
  BY <1>1, <1>2, <1>4, Zenon DEF BoundsInv, UnansweredHasNoReply

\* A step that leaves the entries and the counters leaves the bounds invariant.
LEMMA UntouchedKeepsBounds ==
  ASSUME BoundsInv, TypeOK', UNCHANGED <<entries, callers, shares, replyBytes, replyTotal>>
  PROVE  BoundsInv'
<1>1. entries' = entries /\ callers' = callers /\ shares' = shares
      /\ replyBytes' = replyBytes /\ replyTotal' = replyTotal
  BY Zenon
<1>2. Held' = Held
  BY <1>1, Zenon DEF Held
<1>3. StoredBytes' = StoredBytes
  BY <1>1, <1>2, Zenon DEF StoredBytes
<1>4. /\ \A c : HeldBy(c)' = HeldBy(c) /\ StoredBytesOf(c)' = StoredBytesOf(c)
      /\ \A s : HeldOn(s)' = HeldOn(s)
  BY <1>1, <1>2, <1>3, Zenon DEF HeldBy, HeldOn, StoredBytesOf
<1>5. CountersExact' /\ WithinLimits'
  BY <1>1, <1>2, <1>3, <1>4, Zenon DEF BoundsInv, CountersExact, WithinLimits
<1>6. UnansweredHasNoReply'
  BY <1>1, <1>2, Zenon DEF BoundsInv, UnansweredHasNoReply
<1> QED
  BY <1>5, <1>6, Zenon DEF BoundsInv

\* Every action keeps the bounds invariant.
LEMMA BoundsStep == BoundsInv /\ [Next]_vars => BoundsInv'
<1> SUFFICES ASSUME BoundsInv, [Next]_vars
             PROVE  BoundsInv'
  BY Zenon
<1>1. TypeOK'
  BY TypeStep, Zenon DEF BoundsInv
<1>2. CASE UNCHANGED vars \/ Tick
  BY <1>1, <1>2, UntouchedKeepsBounds, Zenon DEF vars, Tick, counters
<1>3. ASSUME NEW p \in Receiver, NEW r \in Request, Receive(p, r)
      PROVE  BoundsInv'
  BY <1>1, <1>3, UntouchedKeepsBounds, Zenon DEF Receive, counters
<1>4. ASSUME NEW p \in Receiver, RefuseDeadline(p)
      PROVE  BoundsInv'
  BY <1>1, <1>4, UntouchedKeepsBounds, Zenon DEF RefuseDeadline, counters
<1>5. ASSUME NEW p \in Receiver, JudgeHeld(p) \/ JudgeFull(p)
      PROVE  BoundsInv'
  BY <1>1, <1>5, NotAddedKeepsBounds, Zenon DEF JudgeHeld, JudgeFull
<1>6. ASSUME NEW p \in Receiver, JudgeNew(p)
      PROVE  BoundsInv'
  BY <1>1, <1>6, JudgeNewKeepsBounds, Zenon
<1>7. ASSUME NEW x \in running, NEW len \in 1..MaxReplyLen, AnswerRun(x, len)
      PROVE  BoundsInv'
  BY <1>1, <1>7, AnswerKeepsBounds, Zenon
<1> QED
  BY <1>2, <1>3, <1>4, <1>5, <1>6, <1>7, Zenon DEF Next

\* The counters of Admission always equal what its entries hold: no sweep,
\* store or admission loses a place or a byte, or gives one back twice.
THEOREM CountersAreExact == Spec => []CountersExact
<1>1. BoundsInv => CountersExact
  BY Zenon DEF BoundsInv
<1> QED
  BY <1>1, BoundsInit, BoundsStep, PTL DEF Spec

\* What Admission holds never exceeds a limit, for every limits that validate.
THEOREM LimitsHold == Spec => []WithinLimits
<1>1. BoundsInv => WithinLimits
  BY Zenon DEF BoundsInv
<1> QED
  BY <1>1, BoundsInit, BoundsStep, PTL DEF Spec
------------------------------------------------------------------------------
\* An entry keeps the reply of a run of its own request only.
EntryOwnsReply ==
    \A k \in Held : entries[k].reply # NoReply => entries[k].reply.from = entries[k].req

\* The invariant CopyGetsOwnReply rests on.
ReplyInv == TypeOK /\ EntryOwnsReply /\ CopyGetsOwnReply

\* A refusal is no stored reply.
LEMMA RefusalIsNoReply ==
  ASSUME NEW r, NEW code, NEW s, NEW y
  PROVE  [req |-> r, code |-> code] # [req |-> s, stored |-> y]
<1> SUFFICES ASSUME [req |-> r, code |-> code] = [req |-> s, stored |-> y]
             PROVE  FALSE
  BY Zenon
<1>1. DOMAIN [req |-> r, code |-> code] = DOMAIN [req |-> s, stored |-> y]
  BY Zenon
<1>2. {"req", "code"} = {"req", "stored"}
  BY <1>1, Zenon
<1> QED
  BY <1>2, Zenon

\* An answer is a stored reply only as CopyAnswer gives one.
LEMMA OwnAnswer ==
  ASSUME NEW r \in Request, NEW e \in Entry,
         e.reply # NoReply => e.reply.from = e.req,
         NEW s \in Request, NEW y \in Reply, CopyAnswer(r, e) = [req |-> s, stored |-> y]
  PROVE  y.from = s
<1>1. /\ e.req = r /\ e.reply # NoReply
      /\ [req |-> r, stored |-> e.reply] = [req |-> s, stored |-> y]
  BY RefusalIsNoReply, Zenon DEF CopyAnswer
<1>2. [req |-> r, stored |-> e.reply].req = [req |-> s, stored |-> y].req
      /\ [req |-> r, stored |-> e.reply].stored = [req |-> s, stored |-> y].stored
  BY <1>1, Zenon
<1> QED
  BY <1>1, <1>2, Zenon

\* Every action keeps ReplyInv.
LEMMA ReplyStep == ReplyInv /\ [Next]_vars => ReplyInv'
<1> SUFFICES ASSUME ReplyInv, [Next]_vars
             PROVE  ReplyInv'
  BY Zenon
<1>0. TypeOK /\ TypeOK' /\ EntryOwnsReply /\ CopyGetsOwnReply
  BY TypeStep, Zenon DEF ReplyInv
<1>a. ASSUME NEW p \in Receiver, Judging(p), NotAdded(p)
      PROVE  EntryOwnsReply'
  BY <1>0, <1>a, Zenon DEF EntryOwnsReply, NotAdded, Held, Swept
<1>b. ASSUME NEW p \in Receiver, NEW answer, Answered(p, answer),
             \A r \in Request, y \in Reply : answer = [req |-> r, stored |-> y] => y.from = r
      PROVE  CopyGetsOwnReply'
  BY <1>0, <1>b DEF CopyGetsOwnReply, Answered, TypeOK
<1>1. CASE UNCHANGED vars \/ Tick
  BY <1>0, <1>1 DEF ReplyInv, EntryOwnsReply, CopyGetsOwnReply, Held, vars, Tick
<1>2. ASSUME NEW p \in Receiver, NEW r \in Request, Receive(p, r)
      PROVE  ReplyInv'
  <2>1. EntryOwnsReply'
    BY <1>0, <1>2, Zenon DEF Receive, EntryOwnsReply, Held
  <2>2. \A s \in Request, y \in Reply : Idle # [req |-> s, stored |-> y]
    BY NullAssumption DEF Answer
  <2>3. CopyGetsOwnReply'
    <3>1. sent' = [sent EXCEPT ![p] = Idle] /\ DOMAIN sent = Receiver
      BY <1>0, <1>2, Zenon DEF Receive, TypeOK
    <3> SUFFICES ASSUME NEW q \in Receiver, NEW s \in Request, NEW y \in Reply,
                        sent'[q] = [req |-> s, stored |-> y]
                 PROVE  y.from = s
      BY Zenon DEF CopyGetsOwnReply
    <3>2. q # p
      BY <2>2, <3>1, Zenon
    <3>3. sent[q] = [req |-> s, stored |-> y]
      BY <3>1, <3>2, Zenon
    <3> QED
      BY <1>0, <3>3, Zenon DEF CopyGetsOwnReply
  <2> QED
    BY <1>0, <2>1, <2>3, Zenon DEF ReplyInv
<1>3. ASSUME NEW p \in Receiver, RefuseDeadline(p)
      PROVE  ReplyInv'
  <2>1. EntryOwnsReply'
    BY <1>0, <1>3, Zenon DEF RefuseDeadline, EntryOwnsReply, Held
  <2>2. CopyGetsOwnReply'
    BY <1>3, <1>b, RefusalIsNoReply, Zenon DEF RefuseDeadline, Refused
  <2> QED
    BY <1>0, <2>1, <2>2, Zenon DEF ReplyInv
<1>4. ASSUME NEW p \in Receiver, JudgeHeld(p)
      PROVE  ReplyInv'
  <2> DEFINE r == reading[p].req
             held == Swept(reading[p].now)[KeyOf(r)]
  <2>1. r \in Request /\ reading[p].now \in Clock /\ KeyOf(r) \in Key
    BY <1>0, <1>4, JudgedReading, KeyOfRequest, Zenon DEF JudgeHeld, Judging
  <2>2. held # NoEntry /\ Answered(p, CopyAnswer(r, held)) /\ Judging(p) /\ NotAdded(p)
    BY <1>4, Zenon DEF JudgeHeld
  <2>3. held \in Entry /\ held = entries[KeyOf(r)] /\ KeyOf(r) \in Held
    BY <1>0, <2>1, <2>2, SweptTypes, Zenon DEF Swept, Held
  <2>4. held.reply # NoReply => held.reply.from = held.req
    BY <1>0, <2>3, Zenon DEF EntryOwnsReply
  <2> HIDE DEF r, held
  <2>5. CopyGetsOwnReply'
    BY <1>b, <2>1, <2>2, <2>3, <2>4, OwnAnswer, Zenon
  <2> QED
    BY <1>0, <1>a, <2>2, <2>5, Zenon DEF ReplyInv
<1>5. ASSUME NEW p \in Receiver, JudgeFull(p)
      PROVE  ReplyInv'
  <2>1. CopyGetsOwnReply'
    BY <1>5, <1>b, RefusalIsNoReply, Zenon DEF JudgeFull, Refused
  <2> QED
    BY <1>0, <1>5, <1>a, <2>1, Zenon DEF ReplyInv, JudgeFull
<1>6. ASSUME NEW p \in Receiver, JudgeNew(p)
      PROVE  ReplyInv'
  <2>1. KeyOf(reading[p].req) \in Key
    BY <1>0, <1>6, JudgedReading, KeyOfRequest, Zenon DEF JudgeNew, Judging
  <2>2. EntryOwnsReply'
    BY <1>0, <1>6, <2>1, Zenon DEF JudgeNew, EntryOwnsReply, Held, Swept, NewEntry
  <2>3. CopyGetsOwnReply'
    BY <1>0, <1>6, Zenon DEF JudgeNew, CopyGetsOwnReply
  <2> QED
    BY <1>0, <2>2, <2>3, Zenon DEF ReplyInv
<1>7. ASSUME NEW x \in running, NEW len \in 1..MaxReplyLen, AnswerRun(x, len)
      PROVE  ReplyInv'
  <2>1. x.req \in Request /\ KeyOf(x.req) \in Key
    BY <1>0, KeyOfRequest, Zenon DEF TypeOK, Run
  <2>2. CopyGetsOwnReply'
    BY <1>0, <1>7, Zenon DEF AnswerRun, CopyGetsOwnReply
  <2>3. EntryOwnsReply'
    <3>1. CASE ~Storable(x.req)
      BY <1>0, <1>7, <3>1, Zenon DEF AnswerRun, EntryOwnsReply, Held
    <3>2. CASE Storable(x.req)
      <4>1. KeyOf(x.req) \in Held /\ entries[KeyOf(x.req)] \in Entry /\ entries[KeyOf(x.req)].req = x.req
        BY <1>0, <2>1, <3>2, Zenon DEF Storable, TypeOK, Held
      <4>2. \A k \in Key : k # KeyOf(x.req) => entries'[k] = entries[k]
        BY <1>0, <1>7, <2>1, Zenon DEF AnswerRun, TypeOK
      <4>3. /\ entries'[KeyOf(x.req)].req = x.req
            /\ \/ entries'[KeyOf(x.req)].reply = entries[KeyOf(x.req)].reply
               \/ entries'[KeyOf(x.req)].reply = [from |-> x.req, len |-> len]
        BY <1>0, <1>7, <2>1, <3>2, <4>1, Zenon DEF AnswerRun, TypeOK, Entry
      <4> QED
        BY <1>0, <4>1, <4>2, <4>3 DEF EntryOwnsReply, Held
    <3> QED
      BY <3>1, <3>2, Zenon
  <2> QED
    BY <1>0, <2>2, <2>3, Zenon DEF ReplyInv
<1> QED
  BY <1>1, <1>2, <1>3, <1>4, <1>5, <1>6, <1>7, Zenon DEF Next

\* A copy of a request is never answered with another request's reply, whatever
\* the order of expiries, reused ids and handlers that end late.
THEOREM CopiesGetTheirOwnReply == Spec => []CopyGetsOwnReply
<1>1. Init => ReplyInv
  <2>1. Init => TypeOK
    BY LimitsAssumption DEF Init, TypeOK, Clock
  <2>2. \A s \in Request, y \in Reply : Idle # [req |-> s, stored |-> y]
    BY NullAssumption DEF Answer
  <2> QED
    BY <2>1, <2>2 DEF Init, ReplyInv, EntryOwnsReply, CopyGetsOwnReply, Held
<1>2. ReplyInv => CopyGetsOwnReply
  BY Zenon DEF ReplyInv
<1> QED
  BY <1>1, <1>2, ReplyStep, PTL DEF Spec
------------------------------------------------------------------------------
\* A request that ran is still held, or a sweep has run with a clock reading
\* past the time its entry is kept for.
RanIsHeldOrSwept ==
    \A r \in Request :
        started[r] > 0 => \/ KeyOf(r) \in Held /\ entries[KeyOf(r)].req = r
                          \/ Deadline[r] + Kept < lastSweep

\* The invariant RerunOnlyOnStaleClock rests on.
RunInv == TypeOK /\ RanIsHeldOrSwept

\* A sweep leaves a request that ran held, or records the reading it went by.
LEMMA SweepRecords ==
  ASSUME RunInv, NEW p \in Receiver, Judging(p), NEW r \in Request, started[r] > 0
  PROVE  \/ Swept(reading[p].now)[KeyOf(r)] # NoEntry /\ Swept(reading[p].now)[KeyOf(r)].req = r
         \/ Deadline[r] + Kept < lastSweep'
<1>1. /\ reading[p].now \in Int /\ lastSweep \in Int /\ Deadline[r] \in Int /\ Kept \in Int
      /\ lastSweep' >= reading[p].now /\ lastSweep' >= lastSweep /\ lastSweep' \in Int
  BY JudgedReading, RequestAssumption, LimitsAssumption DEF Judging, RunInv, TypeOK, Clock
<1>2. KeyOf(r) \in Key
  BY KeyOfRequest, Zenon
<1>3. CASE Deadline[r] + Kept < lastSweep
  BY <1>1, <1>3
<1>4. CASE KeyOf(r) \in Held /\ entries[KeyOf(r)].req = r
  <2>1. CASE KeyOf(r) \in Expired(reading[p].now)
    BY <1>1, <1>4, <2>1 DEF Expired, ExpiresAt
  <2>2. CASE KeyOf(r) \notin Expired(reading[p].now)
    BY <1>2, <1>4, <2>2, Zenon DEF Swept, Held
  <2> QED
    BY <2>1, <2>2, Zenon
<1> QED
  BY <1>3, <1>4, Zenon DEF RunInv, RanIsHeldOrSwept

\* Every action keeps RunInv.
LEMMA RunStep == RunInv /\ [Next]_vars => RunInv'
<1> SUFFICES ASSUME RunInv, [Next]_vars
             PROVE  RunInv'
  BY Zenon
<1>0. TypeOK /\ TypeOK' /\ RanIsHeldOrSwept
  BY TypeStep, Zenon DEF RunInv
<1>1. CASE UNCHANGED <<entries, started, lastSweep>>
  BY <1>0, <1>1, Zenon DEF RunInv, RanIsHeldOrSwept, Held
<1>2. ASSUME NEW p \in Receiver, Judging(p), NotAdded(p)
      PROVE  RunInv'
  <2>1. entries' = Swept(reading[p].now) /\ started' = started
    BY <1>2, Zenon DEF NotAdded
  <2> QED
    BY <1>0, <1>2, <2>1, SweepRecords, KeyOfRequest, Zenon DEF RunInv, RanIsHeldOrSwept, Held
<1>3. ASSUME NEW p \in Receiver, JudgeNew(p)
      PROVE  RunInv'
  <2> DEFINE q == reading[p].req
             now == reading[p].now
  <2>1. /\ Judging(p) /\ Swept(now)[KeyOf(q)] = NoEntry
        /\ entries' = [Swept(now) EXCEPT ![KeyOf(q)] = NewEntry(q, ShareOf[p])]
        /\ started' = [started EXCEPT ![q] = @ + 1]
    BY <1>3, Zenon DEF JudgeNew
  <2>2. q \in Request /\ KeyOf(q) \in Key /\ now \in Clock /\ ShareOf[p] \in Share
    BY <1>0, <2>1, JudgedReading, KeyOfRequest, Zenon DEF Judging
  <2>3. Swept(now) \in [Key -> Entry \cup {NoEntry}]
    BY <1>0, <2>2, SweptTypes, Zenon
  <2>4. NewEntry(q, ShareOf[p]) # NoEntry /\ NewEntry(q, ShareOf[p]).req = q
    <3>1. NewEntry(q, ShareOf[p]) \in Entry
      BY <2>2, Zenon DEF NewEntry, Entry
    <3> QED
      BY <3>1, NullAssumption, Zenon DEF NewEntry
  <2> HIDE DEF q, now
  <2>5. ASSUME NEW r \in Request, started'[r] > 0
        PROVE  \/ KeyOf(r) \in Held' /\ entries'[KeyOf(r)].req = r
               \/ Deadline[r] + Kept < lastSweep'
    <3>1. CASE r = q
      BY <2>1, <2>2, <2>3, <2>4, <3>1, Zenon DEF Held
    <3>2. CASE r # q
      <4>1. started[r] > 0
        BY <1>0, <2>1, <2>2, <2>5, <3>2, Zenon DEF TypeOK
      <4>2. \/ Swept(now)[KeyOf(r)] # NoEntry /\ Swept(now)[KeyOf(r)].req = r
            \/ Deadline[r] + Kept < lastSweep'
        BY <2>1, <4>1, SweepRecords, Zenon DEF now
      <4>3. KeyOf(r) \in Key
        BY KeyOfRequest, Zenon
      <4> QED
        BY <2>1, <2>2, <2>3, <4>2, <4>3, Zenon DEF Held
    <3> QED
      BY <3>1, <3>2, Zenon
  <2> QED
    BY <1>0, <2>5, Zenon DEF RunInv, RanIsHeldOrSwept
<1>4. ASSUME NEW x \in running, NEW len \in 1..MaxReplyLen, AnswerRun(x, len)
      PROVE  RunInv'
  <2>1. x.req \in Request /\ KeyOf(x.req) \in Key
    BY <1>0, KeyOfRequest, Zenon DEF TypeOK, Run
  <2>2. \A k \in Held : k \in Held' /\ entries'[k].req = entries[k].req
    <3>1. CASE ~Storable(x.req)
      BY <1>4, <3>1, Zenon DEF AnswerRun, Held
    <3>2. CASE Storable(x.req)
      <4>1. entries[KeyOf(x.req)] \in Entry /\ KeyOf(x.req) \in Held
        BY <1>0, <2>1, <3>2, Zenon DEF Storable, TypeOK, Held
      <4>2. entries'[KeyOf(x.req)] \in Entry /\ entries'[KeyOf(x.req)].req = entries[KeyOf(x.req)].req
        BY <1>0, <1>4, <2>1, <3>2, <4>1, Zenon DEF AnswerRun, TypeOK, Entry, Reply
      <4>3. \A k \in Key : k # KeyOf(x.req) => entries'[k] = entries[k]
        BY <1>0, <1>4, <2>1, Zenon DEF AnswerRun, TypeOK
      <4> QED
        BY <4>1, <4>2, <4>3, NullAssumption, Zenon DEF Held
    <3> QED
      BY <3>1, <3>2, Zenon
  <2> QED
    BY <1>0, <1>4, <2>2, Zenon DEF RunInv, RanIsHeldOrSwept, AnswerRun
<1> QED
  BY <1>1, <1>2, <1>3, <1>4
    , Zenon DEF Next, vars, Tick, Receive, RefuseDeadline, JudgeHeld, JudgeFull

\* A request whose handler ran is admitted as new again only by a receiver whose
\* clock reading is older than one a sweep already ran with.
THEOREM RerunsNeedAStaleClock == Spec => RerunOnlyOnStaleClock
<1>1. Init => RunInv
  BY LimitsAssumption DEF Init, RunInv, RanIsHeldOrSwept, TypeOK, Clock
<1>2. RunInv /\ [Next]_vars => [RerunIsStale]_vars
  <2> SUFFICES ASSUME RunInv, [Next]_vars,
                      NEW r \in Request, started[r] > 0, started'[r] > started[r]
               PROVE  \E p \in Receiver :
                         reading[p] # Idle /\ reading[p].req = r /\ reading[p].now < lastSweep
    BY Zenon DEF RerunIsStale
  <2>1. started[r] \in Nat /\ started \in [Request -> Nat]
    BY Zenon DEF RunInv, TypeOK
  <2>2. started' # started
    BY <2>1
  <2>3. PICK p \in Receiver : JudgeNew(p)
    BY <2>2, Zenon DEF Next, vars, Tick, Receive, RefuseDeadline, JudgeHeld, JudgeFull, NotAdded, AnswerRun
  <2>4. Judging(p) /\ reading[p] # Idle /\ started' = [started EXCEPT ![reading[p].req] = @ + 1]
    BY <2>3, Zenon DEF JudgeNew, Judging
  <2>5. reading[p].req = r
    BY <2>1, <2>4
  <2>6. Swept(reading[p].now)[KeyOf(r)] = NoEntry /\ InWindow(r, reading[p].now)
    BY <2>3, <2>5, Zenon DEF JudgeNew, Judging
  <2>7. Deadline[r] + Kept < lastSweep'
    BY <2>4, <2>6, SweepRecords, Zenon
  <2>8. /\ reading[p].now \in Int /\ lastSweep \in Int /\ Deadline[r] \in Int
        /\ Kept \in Int /\ Past \in Int /\ Past <= Kept
    <3>1. reading[p].now \in Clock /\ lastSweep \in Clock
      BY <2>4, JudgedReading, Zenon DEF RunInv, TypeOK
    <3> QED
      BY <3>1, RequestAssumption, LimitsAssumption DEF Clock
  <2>9. lastSweep' = IF reading[p].now > lastSweep THEN reading[p].now ELSE lastSweep
    BY <2>4, Zenon DEF Judging
  <2>10. reading[p].now < lastSweep
    BY <2>6, <2>7, <2>8, <2>9 DEF InWindow
  <2> QED
    BY <2>4, <2>5, <2>10, Zenon
<1> QED
  BY <1>1, <1>2, RunStep, PTL DEF Spec, RerunOnlyOnStaleClock
==============================================================================
