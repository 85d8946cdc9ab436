---------------------------------- MODULE Cabi ----------------------------------
(***************************************************************************)
(* What the C ABI keeps for a binding beside a pool (cabi/serve.go,        *)
(* pool.go, pubsub.go, streams.go): one served procedure and one           *)
(* subscription, each with an inbox the pool owns, and a handle for every  *)
(* call or session that waits to be taken.  Handlers run on the links'     *)
(* goroutines; the binding's threads, the stop of the procedure and the    *)
(* close of the pool run beside them.  An inbox is a bounded queue here;   *)
(* Inbox has its locks and signals.                                        *)
(***************************************************************************)
EXTENDS Naturals, Sequences

CONSTANTS
    Item,       \* calls, or sessions, that reach the procedure
    Thread,     \* threads of the binding that answer calls
    BoxRoom     \* inboxCapacity

VARIABLES
    serves,     \* "calls" or "sessions": what the procedure serves
    proc,       \* the procedure: how far its offer, or its stop, is
    handled,    \* each item's handler: how far it is
    given,      \* each pending call: its answer, "none" before
    returns,    \* history: what each call's handler returned
    told,       \* history: the calls whose answer the binding was told was taken
    live,       \* the items with a handle
    pending,    \* served.pending
    left,       \* the pending calls stop took and has still to answer
    late,       \* history: the calls held after stop took the pending ones
    waits,      \* the procedure's inbox
    has,        \* the items the binding took
    done,       \* the sessions that ended
    thread,     \* each thread: the call it answered and has still to forget
    lp,         \* the pool: how far its close is
    owned,      \* livePool.owned
    shutting,   \* the inboxes close took and has still to close
    shut,       \* the closed inboxes
    sub         \* the subscription: how far it is

served_vars == <<serves, proc, handled, given, returns, told, live, pending, left, late, waits,
                 has, done, thread>>
owner_vars == <<lp, owned, shutting, shut, sub>>
cabivars == <<served_vars, owner_vars>>

Box == {"served", "sub", "events"}
NoItem == "none"

CabiInit ==
    /\ serves \in {"calls", "sessions"}
    /\ proc = "offering"
    /\ handled = [i \in Item |-> "none"]
    /\ given = [i \in Item |-> "none"]
    /\ returns = [i \in Item |-> "none"]
    /\ live = {} /\ pending = {} /\ left = {} /\ late = {} /\ told = {}
    /\ waits = <<>> /\ has = {} /\ done = {}
    /\ thread = [t \in Thread |-> NoItem]
    /\ lp = "open" /\ owned = {} /\ shutting = {} /\ shut = {}
    /\ sub \in {"none", "never"}   \* whether the binding subscribes at all

---------------------------------------------------------------------------
(* The handlers *)

\* A call or a session is authorised and its handler starts.
Arrives(i) ==
    /\ proc \in {"offering", "serving", "owned"} /\ lp = "open" /\ handled[i] = "none"
    /\ handled' = [handled EXCEPT ![i] = "arrived"]
    /\ UNCHANGED <<serves, proc, given, returns, told, live, pending, left, late, waits, has, done,
                   thread, owner_vars>>

\* A handle is issued; a call's is kept among the pending ones.
Hold(i) ==
    /\ handled[i] = "arrived"
    /\ handled' = [handled EXCEPT ![i] = "pushing"]
    /\ live' = live \union {i}
    /\ pending' = IF serves = "calls" THEN pending \union {i} ELSE pending
    /\ late' = IF serves = "calls" /\ proc \in {"answering", "stopped"} THEN late \union {i} ELSE late
    /\ UNCHANGED <<serves, proc, given, returns, told, left, waits, has, done, thread, owner_vars>>

\* The item waits in the inbox, once there is room.
Waits(i) ==
    /\ handled[i] = "pushing" /\ "served" \notin shut /\ Len(waits) < BoxRoom
    /\ waits' = Append(waits, i)
    /\ handled' = [handled EXCEPT ![i] = "waiting"]
    /\ UNCHANGED <<serves, proc, given, returns, told, live, pending, left, late, has, done, thread,
                   owner_vars>>

\* Mutant: the deadline answers whatever the binding answered before it.
ExpireOver(i) ==
    /\ returns' = [returns EXCEPT ![i] = "deadline"]
    /\ given' = [given EXCEPT ![i] = "deadline"]

\* The deadline answers for the binding, unless an answer came first.
Expire(i) ==
    LET answer == IF given[i] = "none" THEN "deadline" ELSE given[i] IN
    /\ returns' = [returns EXCEPT ![i] = answer]
    /\ given' = [given EXCEPT ![i] = answer]

\* The inbox closed, or the context ended, before there was room.
NotTaken(i) ==
    /\ handled[i] = "pushing"
    /\ handled' = [handled EXCEPT ![i] = "returned"]
    /\ IF serves = "calls" THEN Expire(i) /\ UNCHANGED <<live, done>>
                           ELSE /\ live' = live \ {i} /\ done' = done \union {i}
                                /\ UNCHANGED <<given, returns>>
    /\ UNCHANGED <<serves, proc, told, pending, left, late, waits, has, thread, owner_vars>>

\* The handler of a waiting call takes its answer from the channel.
Answered(i) ==
    /\ serves = "calls" /\ handled[i] = "waiting" /\ given[i] # "none"
    /\ handled' = [handled EXCEPT ![i] = "returned"]
    /\ returns' = [returns EXCEPT ![i] = given[i]]
    /\ UNCHANGED <<serves, proc, given, told, live, pending, left, late, waits, has, done, thread,
                   owner_vars>>

\* The context of a waiting call ends; its handle stays.
Deadline(i) ==
    /\ serves = "calls" /\ handled[i] = "waiting"
    /\ handled' = [handled EXCEPT ![i] = "returned"]
    /\ Expire(i)
    /\ UNCHANGED <<serves, proc, told, live, pending, left, late, waits, has, done, thread, owner_vars>>

\* The handler of a session returns once the stream is done.
SessionOver(i) ==
    /\ serves = "sessions" /\ handled[i] = "waiting" /\ i \in done
    /\ handled' = [handled EXCEPT ![i] = "returned"]
    /\ UNCHANGED <<serves, proc, given, returns, told, live, pending, left, late, waits, has, done,
                   thread, owner_vars>>

---------------------------------------------------------------------------
(* The binding *)

\* macula_served_next; the procedure's own handle goes with its stop.
ServedNext(i) ==
    /\ proc # "offering" /\ proc # "serving" /\ proc # "stopped" /\ waits # <<>> /\ i = Head(waits)
    /\ waits' = Tail(waits)
    /\ has' = has \union {i}
    /\ UNCHANGED <<serves, proc, handled, given, returns, told, live, pending, left, late, done, thread,
                   owner_vars>>

\* macula_pending_reply or macula_pending_error, up to the answer: the handle
\* must be live, and only the first answer is taken.
Answer(t, i) ==
    /\ serves = "calls" /\ thread[t] = NoItem /\ i \in has /\ i \in live
    /\ thread' = [thread EXCEPT ![t] = i]
    /\ IF given[i] = "none" THEN /\ given' = [given EXCEPT ![i] = "binding"]
                                 /\ told' = told \union {i}
                            ELSE UNCHANGED <<given, told>>
    /\ UNCHANGED <<serves, proc, handled, returns, live, pending, left, late, waits, has, done,
                   owner_vars>>

\* The rest of it: the call is forgotten and its handle freed.
Forget(t) ==
    /\ thread[t] # NoItem
    /\ pending' = pending \ {thread[t]}
    /\ live' = live \ {thread[t]}
    /\ thread' = [thread EXCEPT ![t] = NoItem]
    /\ UNCHANGED <<serves, proc, handled, given, returns, told, left, late, waits, has, done, owner_vars>>

\* A session ends: the peer, the link, or a call of the binding on its stream.
SessionEnds(i) ==
    /\ serves = "sessions" /\ handled[i] = "waiting" /\ i \notin done
    /\ done' = done \union {i}
    /\ UNCHANGED <<serves, proc, handled, given, returns, told, live, pending, left, late, waits, has,
                   thread, owner_vars>>

\* macula_stream_free: a session not done is aborted; the handle is freed.
StreamFree(i) ==
    /\ serves = "sessions" /\ i \in has /\ i \in live
    /\ done' = done \union {i}
    /\ live' = live \ {i}
    /\ UNCHANGED <<serves, proc, handled, given, returns, told, pending, left, late, waits, has, thread,
                   owner_vars>>

---------------------------------------------------------------------------
(* The owner: livePool *)

\* Mutant: an inbox made while the pool closes is kept by a pool that is gone.
ownAnyway(b) == owned' = owned \union {b} /\ UNCHANGED shut

\* A pool already closed closes the inbox at once.
own(b) ==
    IF lp \in {"closed", "over"} THEN shut' = shut \union {b} /\ UNCHANGED owned
                                 ELSE owned' = owned \union {b} /\ UNCHANGED shut

disown(b) == owned' = owned \ {b}

\* pool.Close, before the lock.
PoolClose ==
    /\ lp = "open"
    /\ lp' = "closing"
    /\ UNCHANGED <<served_vars, owned, shutting, shut, sub>>

\* The critical section: closed is set and the owned inboxes are taken.
TakeOwned ==
    /\ lp = "closing"
    /\ lp' = "closed" /\ shutting' = owned /\ owned' = {}
    /\ UNCHANGED <<served_vars, shut, sub>>

\* Each inbox is closed; the events' comes last.
ShutOwned ==
    /\ lp = "closed"
    /\ \/ \E b \in shutting : shutting' = shutting \ {b} /\ shut' = shut \union {b} /\ UNCHANGED lp
       \/ shutting = {} /\ shut' = shut \union {"events"} /\ lp' = "over" /\ UNCHANGED shutting
    /\ UNCHANGED <<served_vars, owned, sub>>

---------------------------------------------------------------------------
(* The procedure: offer and stop *)

\* pool.Serve returns, or fails and leaves nothing served.
Offer ==
    /\ proc = "offering"
    /\ proc' \in {"serving", "refused"}
    /\ UNCHANGED <<serves, handled, given, returns, told, live, pending, left, late, waits, has, done,
                   thread, owner_vars>>

OfferOwns ==
    /\ proc = "serving"
    /\ proc' = "owned"
    /\ own("served")
    /\ UNCHANGED <<serves, handled, given, returns, told, live, pending, left, late, waits, has, done,
                   thread, lp, shutting, sub>>

\* stop: the procedure is withdrawn, then its inbox closed, then disowned.
StopWithdraws ==
    /\ proc = "owned"
    /\ proc' = "withdrawn"
    /\ UNCHANGED <<serves, handled, given, returns, told, live, pending, left, late, waits, has, done,
                   thread, owner_vars>>

StopShuts ==
    /\ proc = "withdrawn"
    /\ proc' = "shut" /\ shut' = shut \union {"served"}
    /\ UNCHANGED <<serves, handled, given, returns, told, live, pending, left, late, waits, has, done,
                   thread, lp, owned, shutting, sub>>

StopDisowns ==
    /\ proc = "shut"
    /\ proc' = "draining" /\ disown("served")
    /\ UNCHANGED <<serves, handled, given, returns, told, live, pending, left, late, waits, has, done,
                   thread, lp, shutting, shut, sub>>

\* What waits is taken: a session is aborted and its handle freed, a call stays
\* among the pending ones.
StopDrains ==
    /\ proc = "draining" /\ waits # <<>>
    /\ waits' = Tail(waits)
    /\ IF serves = "sessions" THEN /\ done' = done \union {Head(waits)}
                                   /\ live' = live \ {Head(waits)}
                              ELSE UNCHANGED <<done, live>>
    /\ UNCHANGED <<serves, proc, handled, given, returns, told, pending, left, late, has, thread,
                   owner_vars>>

\* The critical section: the pending calls are taken.
StopTakesPending ==
    /\ proc = "draining" /\ waits = <<>>
    /\ proc' = "answering" /\ left' = pending /\ pending' = {}
    /\ UNCHANGED <<serves, handled, given, returns, told, live, late, waits, has, done, thread,
                   owner_vars>>

\* Each is answered, unless it was, and its handle freed.
StopAnswers(i) ==
    /\ proc = "answering" /\ i \in left
    /\ left' = left \ {i} /\ live' = live \ {i}
    /\ given' = [given EXCEPT ![i] = IF @ = "none" THEN "withdrawn" ELSE @]
    /\ UNCHANGED <<serves, proc, handled, returns, told, pending, late, waits, has, done, thread,
                   owner_vars>>

StopEnds ==
    /\ proc = "answering" /\ left = {}
    /\ proc' = "stopped"
    /\ UNCHANGED <<serves, handled, given, returns, told, live, pending, left, late, waits, has, done,
                   thread, owner_vars>>

---------------------------------------------------------------------------
(* The subscription *)

\* pool.Subscribe returns, then inboxed ties the inbox to the pool.
Subscribed ==
    /\ sub = "none" /\ lp = "open"
    /\ sub' = "made"
    /\ UNCHANGED <<served_vars, lp, owned, shutting, shut>>

Inboxed ==
    /\ sub = "made"
    /\ sub' = "owned" /\ own("sub")
    /\ UNCHANGED <<served_vars, lp, shutting>>

\* The subscription's events end, with the pool or the unsubscribe: the goroutine
\* that moved them closes the inbox.
EventsOver ==
    /\ sub \in {"owned", "unsubscribed"} /\ (lp # "open" \/ sub = "unsubscribed")
    /\ shut' = shut \union {"sub"}
    /\ UNCHANGED <<served_vars, lp, owned, shutting, sub>>

\* stop: unsubscribed, then the inbox is closed and disowned.
Unsubscribes ==
    /\ sub = "owned"
    /\ sub' = "unsubscribed"
    /\ UNCHANGED <<served_vars, lp, owned, shutting, shut>>

SubStops ==
    /\ sub = "unsubscribed"
    /\ sub' = "stopped" /\ shut' = shut \union {"sub"} /\ disown("sub")
    /\ UNCHANGED <<served_vars, lp, shutting>>

---------------------------------------------------------------------------
CabiNext ==
    \/ \E i \in Item :
          \/ Arrives(i) \/ Hold(i) \/ Waits(i) \/ NotTaken(i) \/ Answered(i) \/ Deadline(i)
          \/ SessionOver(i) \/ ServedNext(i) \/ SessionEnds(i) \/ StreamFree(i) \/ StopAnswers(i)
          \/ \E t \in Thread : Answer(t, i)
    \/ \E t \in Thread : Forget(t)
    \/ PoolClose \/ TakeOwned \/ ShutOwned
    \/ Offer \/ OfferOwns \/ StopWithdraws \/ StopShuts \/ StopDisowns \/ StopDrains
    \/ StopTakesPending \/ StopEnds
    \/ Subscribed \/ Inboxed \/ EventsOver \/ Unsubscribes \/ SubStops

CabiSpec == CabiInit /\ [][CabiNext]_cabivars

---------------------------------------------------------------------------
(* Properties *)

\* An answer the binding was told was taken is the answer the caller gets,
\* whatever the deadline, the stop and other threads do at that moment; and a
\* caller gets the binding's answer only when the binding was told so.
TakenIsReturned ==
    \A i \in Item : returns[i] # "none" => (i \in told <=> returns[i] = "binding")

\* Nothing of the procedure or the subscription outlives its owner: once a stop
\* has returned and no handler is still on its way to the inbox, only the
\* sessions the binding took, and the calls held after the stop took the pending
\* ones, have a handle; once the close of the pool has returned, every inbox made
\* over it is closed.
NothingStranded ==
    /\ /\ proc = "stopped"
       /\ \A i \in Item : handled[i] \notin {"arrived", "pushing"}
       /\ \A t \in Thread : thread[t] = NoItem
       => live \subseteq (late \union IF serves = "sessions" THEN has ELSE {})
    /\ lp = "over" => /\ proc \in {"owned", "stopped"} => "served" \in shut
                      /\ sub \in {"owned", "stopped"} => "sub" \in shut
=============================================================================
