------------------------------ MODULE Admission ------------------------------
(***************************************************************************)
(* The request admission of a provider node (stationlink/admission.go),    *)
(* driven by the CALLs and STREAM_OPENs its links receive                  *)
(* (stationlink/serve.go, stationlink/stream_serve.go).                    *)
(*                                                                         *)
(* One Admission is shared by all links of a node.  A receiver is a        *)
(* goroutine that judges one request at a time: a link's read loop, or the *)
(* goroutine of one incoming stream.  It reads the wall clock before it    *)
(* takes the admission's mutex, so its reading may be stale by the time it *)
(* is used.  Handlers run in goroutines of their own and store their reply *)
(* when they end, which may be after their entry expired.                  *)
(***************************************************************************)
EXTENDS Integers, FiniteSets

CONSTANTS
    Request,         \* signed requests; two requests differ iff their hashes do
    StreamOpens,     \* the requests that are STREAM_OPENs: no reply is stored
    Caller, RequestId, Share,
    CallerOf, IdOf, Deadline,      \* the signed fields of a request
    Receiver, ShareOf,             \* the goroutines and their link's share
    Past, Ahead, Kept,             \* deadline tolerances and the time kept
    CallerQuota, ShareLimit, Cap, ReplyBytes, ReplyBytesTotal,
    MaxReplyLen,                   \* longest encoded reply (a frame's cap)
    MaxClock,                      \* bound of the model: last clock reading
    NoEntry, NoReply, Idle

KeyOf(r) == <<CallerOf[r], IdOf[r]>>

\* admissionKey: the keys the requests can have.
Key == {KeyOf(r) : r \in Request}

Clock == 0..MaxClock

Reply == [from: Request, len: 1..MaxReplyLen]

\* admissionEntry: the hash is the request itself, expiresAt follows from it.
Entry == [req: Request, share: Share, answered: BOOLEAN,
          reply: Reply \cup {NoReply}]

Reading == [req: Request, now: Clock]

Refusals == {"expired", "not_yet_valid", "request_id_reused", "reply_not_kept",
             "caller_quota", "share_full", "admission_full", "request_copy"}

Answer == [req: Request, code: Refusals] \cup [req: Request, stored: Reply]

ASSUME RequestAssumption ==
    /\ StreamOpens \subseteq Request
    /\ CallerOf \in [Request -> Caller]
    /\ IdOf \in [Request -> RequestId]
    /\ Deadline \in [Request -> Int]
    /\ ShareOf \in [Receiver -> Share]

ASSUME FiniteAssumption ==
    IsFiniteSet(Request)

\* AdmissionLimits.Validate, and the three durations: an entry is kept at
\* least as long as a copy of its request passes the deadline check.
ASSUME LimitsAssumption ==
    /\ CallerQuota \in Nat \ {0} /\ ShareLimit \in Nat \ {0} /\ Cap \in Nat \ {0}
    /\ ReplyBytes \in Nat \ {0} /\ ReplyBytesTotal \in Nat \ {0}
    /\ CallerQuota <= ShareLimit /\ ReplyBytes <= ReplyBytesTotal
    /\ MaxReplyLen \in Nat \ {0} /\ MaxClock \in Nat
    /\ Past \in Nat /\ Ahead \in Nat /\ Kept \in Nat /\ Past <= Kept

ASSUME NullAssumption ==
    NoEntry \notin Entry /\ NoReply \notin Reply /\ Idle \notin Reading /\ Idle \notin Answer

VARIABLES
    clock,      \* the node's wall clock
    entries,    \* Admission.entries, NoEntry where the map has no key
    callers, shares, replyBytes, replyTotal,   \* Admission's counters
    reading,    \* per receiver: the request it judges and the clock it read
    running,    \* the handler goroutines: [req, n], n counting req's runs
    sent,       \* per receiver: what it wrote back to its last request
    started,    \* history: how often each request was admitted as new
    lastSweep   \* history: the latest clock reading a sweep ran with

vars == <<clock, entries, callers, shares, replyBytes, replyTotal, reading,
          running, sent, started, lastSweep>>

counters == <<callers, shares, replyBytes, replyTotal>>

Run == [req: Request, n: Nat \ {0}]
------------------------------------------------------------------------------
Held == {k \in Key : entries[k] # NoEntry}

HeldBy(c) == {k \in Held : k[1] = c}

HeldOn(s) == {k \in Held : entries[k].share = s}

ExpiresAt(k) == Deadline[entries[k].req] + Kept

\* The bytes of the replies kept, one element per byte.
StoredBytes ==
    {b \in Key \X (1..MaxReplyLen) :
        /\ b[1] \in Held
        /\ entries[b[1]].reply # NoReply
        /\ b[2] <= entries[b[1]].reply.len}

StoredBytesOf(c) == {b \in StoredBytes : b[1][1] = c}

\* decrement: the map drops a key at zero, and reads as zero from then on.
decrement(m, n) == IF m - n <= 0 THEN 0 ELSE m - n

Init ==
    /\ clock = 0
    /\ entries = [k \in Key |-> NoEntry]
    /\ callers = [c \in Caller |-> 0]
    /\ shares = [s \in Share |-> 0]
    /\ replyBytes = [c \in Caller |-> 0]
    /\ replyTotal = 0
    /\ reading = [p \in Receiver |-> Idle]
    /\ running = {}
    /\ sent = [p \in Receiver |-> Idle]
    /\ started = [r \in Request |-> 0]
    /\ lastSweep = 0

Tick ==
    /\ clock < MaxClock
    /\ clock' = clock + 1
    /\ UNCHANGED <<entries, counters, reading, running, sent, started, lastSweep>>

\* called and admitStream up to the call of admit: the request verified, and
\* time.Now read before the admission's mutex is taken.
Receive(p, r) ==
    /\ reading[p] = Idle
    /\ reading' = [reading EXCEPT ![p] = [req |-> r, now |-> clock]]
    /\ sent' = [sent EXCEPT ![p] = Idle]
    /\ UNCHANGED <<clock, entries, counters, running, started, lastSweep>>

\* What the receiver writes back before it turns to its next request.
Answered(p, answer) ==
    /\ reading' = [reading EXCEPT ![p] = Idle]
    /\ sent' = [sent EXCEPT ![p] = answer]

Refused(p, code) == Answered(p, [req |-> reading[p].req, code |-> code])

InWindow(r, now) == now - Past <= Deadline[r] /\ Deadline[r] <= now + Ahead

\* admit's checks before its lock: nothing is swept.
RefuseDeadline(p) ==
    /\ reading[p] # Idle
    /\ ~InWindow(reading[p].req, reading[p].now)
    /\ Refused(p, IF Deadline[reading[p].req] < reading[p].now - Past
                  THEN "expired" ELSE "not_yet_valid")
    /\ UNCHANGED <<clock, entries, counters, running, started, lastSweep>>
------------------------------------------------------------------------------
\* Mutant: an entry goes when its time is up, not after (off by one).
ExpiredEarly(now) == {k \in Held : ExpiresAt(k) <= now}

Expired(now) == {k \in Held : ExpiresAt(k) < now}

\* sweep, as the values the state has after it.
Swept(now) == [k \in Key |-> IF k \in Expired(now) THEN NoEntry ELSE entries[k]]

SweptCallers(now) ==
    [c \in Caller |-> decrement(callers[c], Cardinality(Expired(now) \cap HeldBy(c)))]

SweptShares(now) ==
    [s \in Share |-> decrement(shares[s], Cardinality(Expired(now) \cap HeldOn(s)))]

SweptBytes(now) == {b \in StoredBytes : b[1] \in Expired(now)}

\* Mutant: sweep forgets the reply bytes of the entries it removes.
SweptReplyBytesKept(now) == [c \in Caller |-> replyBytes[c]]

SweptReplyBytes(now) ==
    [c \in Caller |-> decrement(replyBytes[c], Cardinality(SweptBytes(now) \cap StoredBytesOf(c)))]

\* admit past its deadline checks: the lock held, the sweep done.
Judging(p) ==
    /\ reading[p] # Idle
    /\ InWindow(reading[p].req, reading[p].now)
    /\ replyBytes' = SweptReplyBytes(reading[p].now)
    /\ replyTotal' = replyTotal - Cardinality(SweptBytes(reading[p].now))
    /\ lastSweep' = IF reading[p].now > lastSweep THEN reading[p].now ELSE lastSweep
    /\ UNCHANGED clock

NotAdded(p) ==
    /\ entries' = Swept(reading[p].now)
    /\ callers' = SweptCallers(reading[p].now)
    /\ shares' = SweptShares(reading[p].now)
    /\ UNCHANGED <<running, started>>

\* What a receiver answers a request whose key is held by entry.
CopyAnswer(r, entry) ==
    IF entry.req # r
    THEN [req |-> r, code |-> "request_id_reused"]
    ELSE IF entry.answered /\ entry.reply = NoReply
    THEN [req |-> r, code |-> "reply_not_kept"]
    ELSE IF entry.reply = NoReply
    THEN [req |-> r, code |-> "request_copy"]
    ELSE [req |-> r, stored |-> entry.reply]

JudgeHeld(p) ==
    /\ Judging(p)
    /\ NotAdded(p)
    /\ LET held == Swept(reading[p].now)[KeyOf(reading[p].req)]
       IN held # NoEntry /\ Answered(p, CopyAnswer(reading[p].req, held))

\* Mutant: a bound is taken as full only when it is exceeded.
FullOneLate(r, s, now) ==
    \/ SweptCallers(now)[CallerOf[r]] >= CallerQuota
    \/ SweptShares(now)[s] >= ShareLimit
    \/ Cardinality(Held \ Expired(now)) > Cap

Full(r, s, now) ==
    \/ SweptCallers(now)[CallerOf[r]] >= CallerQuota
    \/ SweptShares(now)[s] >= ShareLimit
    \/ Cardinality(Held \ Expired(now)) >= Cap

FullCode(r, s, now) ==
    IF SweptCallers(now)[CallerOf[r]] >= CallerQuota THEN "caller_quota"
    ELSE IF SweptShares(now)[s] >= ShareLimit THEN "share_full"
    ELSE "admission_full"

JudgeFull(p) ==
    LET r == reading[p].req
        now == reading[p].now
    IN /\ Judging(p)
       /\ Swept(now)[KeyOf(r)] = NoEntry
       /\ Full(r, ShareOf[p], now)
       /\ NotAdded(p)
       /\ Refused(p, FullCode(r, ShareOf[p], now))

NewEntry(r, s) == [req |-> r, share |-> s, answered |-> FALSE, reply |-> NoReply]

\* The request is new: its entry is added and its handler started (go answer;
\* a STREAM_OPEN's session stores no reply).
JudgeNew(p) ==
    LET r == reading[p].req
        now == reading[p].now
    IN /\ Judging(p)
       /\ Swept(now)[KeyOf(r)] = NoEntry
       /\ ~Full(r, ShareOf[p], now)
       /\ entries' = [Swept(now) EXCEPT ![KeyOf(r)] = NewEntry(r, ShareOf[p])]
       /\ callers' = [SweptCallers(now) EXCEPT ![CallerOf[r]] = @ + 1]
       /\ shares' = [SweptShares(now) EXCEPT ![ShareOf[p]] = @ + 1]
       /\ started' = [started EXCEPT ![r] = @ + 1]
       /\ running' = IF r \in StreamOpens THEN running
                     ELSE running \cup {[req |-> r, n |-> started[r] + 1]}
       /\ reading' = [reading EXCEPT ![p] = Idle]
       /\ UNCHANGED sent
------------------------------------------------------------------------------
\* Mutant: store takes whatever entry has the request's id.
StorableByKey(r) == KeyOf(r) \in Held /\ ~entries[KeyOf(r)].answered

\* store: the reply is the one of the request's own entry, not yet answered.
Storable(r) ==
    /\ KeyOf(r) \in Held
    /\ ~entries[KeyOf(r)].answered
    /\ entries[KeyOf(r)].req = r

ReplyFits(c, len) ==
    replyBytes[c] + len <= ReplyBytes /\ replyTotal + len <= ReplyBytesTotal

\* answer once its handler returned: the encoded reply, of len bytes, is
\* stored for the request's copies when there is room, and written.
AnswerRun(x, len) ==
    LET r == x.req
        k == KeyOf(r)
        c == CallerOf[r]
        kept == Storable(r) /\ ReplyFits(c, len)
    IN /\ x \in running
       /\ running' = running \ {x}
       /\ entries' = IF Storable(r)
                     THEN [entries EXCEPT ![k].answered = TRUE,
                                          ![k].reply = IF kept THEN [from |-> r, len |-> len] ELSE @]
                     ELSE entries
       /\ replyBytes' = IF kept THEN [replyBytes EXCEPT ![c] = @ + len] ELSE replyBytes
       /\ replyTotal' = IF kept THEN replyTotal + len ELSE replyTotal
       /\ UNCHANGED <<clock, callers, shares, reading, sent, started, lastSweep>>

Next ==
    \/ Tick
    \/ \E p \in Receiver :
          \/ \E r \in Request : Receive(p, r)
          \/ RefuseDeadline(p)
          \/ JudgeHeld(p)
          \/ JudgeFull(p)
          \/ JudgeNew(p)
    \/ \E x \in running, len \in 1..MaxReplyLen : AnswerRun(x, len)

Spec == Init /\ [][Next]_vars
------------------------------------------------------------------------------
\* Every variable keeps the type of the Go field it stands for.
TypeOK ==
    /\ clock \in Clock
    /\ entries \in [Key -> Entry \cup {NoEntry}]
    /\ callers \in [Caller -> Nat]
    /\ shares \in [Share -> Nat]
    /\ replyBytes \in [Caller -> Nat]
    /\ replyTotal \in Int
    /\ reading \in [Receiver -> Reading \cup {Idle}]
    /\ running \in SUBSET Run
    /\ sent \in [Receiver -> Answer \cup {Idle}]
    /\ started \in [Request -> Nat]
    /\ lastSweep \in Clock

\* The counters admit checks its bounds against are exactly what the entries
\* hold, through every sweep, store and admission: a place or a byte is never
\* lost nor given back twice (admission.go sweep, decrement, store).
CountersExact ==
    /\ \A c \in Caller : callers[c] = Cardinality(HeldBy(c))
    /\ \A s \in Share : shares[s] = Cardinality(HeldOn(s))
    /\ \A c \in Caller : replyBytes[c] = Cardinality(StoredBytesOf(c))
    /\ replyTotal = Cardinality(StoredBytes)

\* "The entries are bounded, and a full bound refuses rather than evicts":
\* what the maps really hold stays within every limit (admission.go:16-21).
WithinLimits ==
    /\ \A c \in Caller : Cardinality(HeldBy(c)) <= CallerQuota
    /\ \A s \in Share : Cardinality(HeldOn(s)) <= ShareLimit
    /\ Cardinality(Held) <= Cap
    /\ \A c \in Caller : Cardinality(StoredBytesOf(c)) <= ReplyBytes
    /\ Cardinality(StoredBytes) <= ReplyBytesTotal

\* A copy is only ever answered with the reply a run of that very request
\* gave, also when its id was used again after its entry expired while the
\* first handler still ran (store's hash check, admission.go:161-163).
CopyGetsOwnReply ==
    \A p \in Receiver, r \in Request, y \in Reply :
        sent[p] = [req |-> r, stored |-> y] => y.from = r

RerunIsStale ==
    \A r \in Request :
        started[r] > 0 /\ started'[r] > started[r]
            => \E p \in Receiver :
                  reading[p] # Idle /\ reading[p].req = r /\ reading[p].now < lastSweep

\* A request whose handler ran starts again only when its receiver judges it
\* with a clock reading older than one a sweep already ran with: the entry
\* outlives every copy the deadline check lets through (admission.go:22-26).
RerunOnlyOnStaleClock == [][RerunIsStale]_vars

\* "a request runs once, whichever of the node's links it arrives on"
\* (admission.go:11-12).
RunsOnce == \A r \in Request : started[r] <= 1
==============================================================================
