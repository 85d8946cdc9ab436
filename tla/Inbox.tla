-------------------------------- MODULE Inbox --------------------------------
(***************************************************************************)
(* The inbox of the C ABI (cabi/inbox.go): a bounded queue with an end,    *)
(* through which a pool's goroutines hand items to a binding's threads.    *)
(*                                                                         *)
(* Its two channels, ready and room, hold one token each and are signalled *)
(* after the mutex is released, so any number of pushers and takers may    *)
(* run between a change of the queue and the signal that announces it.     *)
(***************************************************************************)
EXTENDS Integers, Sequences

CONSTANTS
    Pusher, Taker, Closer,     \* the goroutines and threads that use it
    Capacity,                  \* inboxCapacity
    MaxDropped                 \* bound of the model on the dropped counter

ASSUME SizeAssumption ==
    Capacity \in Nat \ {0} /\ MaxDropped \in Nat

Policy == {"waitForRoom", "dropNewest", "dropOldest"}

\* push: not called, at the head of its loop with an item, waiting for room,
\* and having queued its item, before its signal.
PushAt == {"idle", "try", "wait", "queued"}

\* next: likewise; having taken an item, before it signals room ("took", or
\* "tookMore" when it signals ready as well), and before its signal of ready.
NextAt == {"idle", "try", "wait", "took", "tookMore", "more"}

\* close: before its signal of ready, and before its signal of room.
CloseAt == {"idle", "ready", "room"}

VARIABLES
    policy,
    items,       \* the queue: TRUE for a notice
    closed, dropped,
    ready, room,             \* whether the channel holds its token
    pushing, notice,         \* per pusher: where it is, and what it pushes
    taking,                  \* per taker: where it is
    closing,                 \* per closer: where it is
    endSeen      \* history: some next has reported inboxClosed

queue == <<items, closed, dropped>>
vars == <<policy, queue, ready, room, pushing, notice, taking, closing, endSeen>>

Init ==
    /\ policy \in Policy
    /\ items = <<>> /\ closed = FALSE /\ dropped = 0
    /\ ready = FALSE /\ room = FALSE
    /\ pushing = [p \in Pusher |-> "idle"]
    /\ notice = [p \in Pusher |-> FALSE]
    /\ taking = [t \in Taker |-> "idle"]
    /\ closing = [c \in Closer |-> "idle"]
    /\ endSeen = FALSE
------------------------------------------------------------------------------
\* A call of push.  Only a subscription's inbox is given notices.
push(p, isNotice) ==
    /\ pushing[p] = "idle" /\ dropped < MaxDropped
    /\ isNotice => policy = "dropNewest"
    /\ pushing' = [pushing EXCEPT ![p] = "try"]
    /\ notice' = [notice EXCEPT ![p] = isNotice]
    /\ UNCHANGED <<policy, queue, ready, room, taking, closing, endSeen>>

\* A push leaves its item, or waits with one, which only an inbox without
\* notices lets it.
PushFrom(p, at) ==
    /\ pushing[p] = "try"
    /\ pushing' = [pushing EXCEPT ![p] = at]
    /\ notice' = [notice EXCEPT ![p] = FALSE]
    /\ UNCHANGED <<policy, closed, ready, room, taking, closing, endSeen>>

\* push's turns of its loop, each under the mutex: refused by a closed inbox,
PushClosed(p) ==
    /\ closed
    /\ PushFrom(p, "idle")
    /\ UNCHANGED <<items, dropped>>

\* Mutant: room is all a push looks for.
PushRoomOnly(p) ==
    /\ Len(items) < Capacity
    /\ PushFrom(p, "queued")
    /\ items' = Append(items, notice[p])
    /\ UNCHANGED dropped

\* queued, there being room,
PushRoom(p) ==
    /\ ~closed /\ Len(items) < Capacity
    /\ PushFrom(p, "queued")
    /\ items' = Append(items, notice[p])
    /\ UNCHANGED dropped

\* refused and counted by a full inbox,
PushRefused(p) ==
    /\ ~closed /\ Len(items) >= Capacity
    /\ policy = "dropNewest" /\ ~notice[p]
    /\ PushFrom(p, "idle")
    /\ dropped' = dropped + 1
    /\ UNCHANGED items

\* queued in the place of the oldest item,
PushOver(p) ==
    /\ ~closed /\ Len(items) >= Capacity
    /\ policy = "dropOldest" \/ (policy = "dropNewest" /\ notice[p])
    /\ PushFrom(p, "queued")
    /\ items' = Append(Tail(items), notice[p])
    /\ dropped' = dropped + 1

\* or left to wait.
PushWaits(p) ==
    /\ ~closed /\ Len(items) >= Capacity
    /\ policy = "waitForRoom"
    /\ PushFrom(p, "wait")
    /\ UNCHANGED <<items, dropped>>

PushSignals(p) ==
    /\ pushing[p] = "queued"
    /\ pushing' = [pushing EXCEPT ![p] = "idle"]
    /\ ready' = TRUE
    /\ UNCHANGED <<policy, queue, room, notice, taking, closing, endSeen>>

\* A waiting push takes the token of room and tries again,
PushWakes(p) ==
    /\ pushing[p] = "wait" /\ room
    /\ pushing' = [pushing EXCEPT ![p] = "try"]
    /\ room' = FALSE
    /\ UNCHANGED <<policy, queue, ready, notice, taking, closing, endSeen>>

\* or its context ends.
PushGivesUp(p) ==
    /\ pushing[p] = "wait"
    /\ pushing' = [pushing EXCEPT ![p] = "idle"]
    /\ UNCHANGED <<policy, queue, ready, room, notice, taking, closing, endSeen>>
------------------------------------------------------------------------------
\* A call of next.
next(t) ==
    /\ taking[t] = "idle"
    /\ taking' = [taking EXCEPT ![t] = "try"]
    /\ UNCHANGED <<policy, queue, ready, room, pushing, notice, closing, endSeen>>

NextFrom(t, at) ==
    /\ taking[t] = "try"
    /\ taking' = [taking EXCEPT ![t] = at]
    /\ UNCHANGED <<policy, closed, dropped, ready, room, pushing, notice, closing>>

\* Mutant: a taker that leaves items behind wakes no other.
NextTakesAlone(t) ==
    /\ items # <<>>
    /\ items' = Tail(items)
    /\ NextFrom(t, "took")
    /\ UNCHANGED endSeen

\* next's turns of its loop: an item taken,
NextTakes(t) ==
    /\ items # <<>>
    /\ items' = Tail(items)
    /\ NextFrom(t, IF Len(items) > 1 \/ closed THEN "tookMore" ELSE "took")
    /\ UNCHANGED endSeen

\* Mutant: the taker that finds the end keeps the token it woke by.
NextEndsAlone(t) ==
    /\ items = <<>> /\ closed
    /\ NextFrom(t, "idle")
    /\ endSeen' = TRUE
    /\ UNCHANGED items

\* the end found, which the other takers are to find too,
NextEnds(t) ==
    /\ items = <<>> /\ closed
    /\ NextFrom(t, "more")
    /\ endSeen' = TRUE
    /\ UNCHANGED items

\* or nothing, and a wait.
NextWaits(t) ==
    /\ items = <<>> /\ ~closed
    /\ NextFrom(t, "wait")
    /\ UNCHANGED <<items, endSeen>>

NextSignalsRoom(t) ==
    /\ taking[t] \in {"took", "tookMore"}
    /\ taking' = [taking EXCEPT ![t] = IF @ = "tookMore" THEN "more" ELSE "idle"]
    /\ room' = TRUE
    /\ UNCHANGED <<policy, queue, ready, pushing, notice, closing, endSeen>>

NextSignalsReady(t) ==
    /\ taking[t] = "more"
    /\ taking' = [taking EXCEPT ![t] = "idle"]
    /\ ready' = TRUE
    /\ UNCHANGED <<policy, queue, room, pushing, notice, closing, endSeen>>

NextWakes(t) ==
    /\ taking[t] = "wait" /\ ready
    /\ taking' = [taking EXCEPT ![t] = "try"]
    /\ ready' = FALSE
    /\ UNCHANGED <<policy, queue, room, pushing, notice, closing, endSeen>>

\* The wait's timeout or its cancel token.
NextGivesUp(t) ==
    /\ taking[t] = "wait"
    /\ taking' = [taking EXCEPT ![t] = "idle"]
    /\ UNCHANGED <<policy, queue, ready, room, pushing, notice, closing, endSeen>>
------------------------------------------------------------------------------
close(c) ==
    /\ closing[c] = "idle"
    /\ closed' = TRUE
    /\ closing' = [closing EXCEPT ![c] = "ready"]
    /\ UNCHANGED <<policy, items, dropped, ready, room, pushing, notice, taking, endSeen>>

CloseSignalsReady(c) ==
    /\ closing[c] = "ready"
    /\ closing' = [closing EXCEPT ![c] = "room"]
    /\ ready' = TRUE
    /\ UNCHANGED <<policy, queue, room, pushing, notice, taking, endSeen>>

CloseSignalsRoom(c) ==
    /\ closing[c] = "room"
    /\ closing' = [closing EXCEPT ![c] = "idle"]
    /\ room' = TRUE
    /\ UNCHANGED <<policy, queue, ready, pushing, notice, taking, endSeen>>

TryPush(p) ==
    \/ PushClosed(p)
    \/ PushRoom(p)
    \/ PushRefused(p)
    \/ PushOver(p)
    \/ PushWaits(p)

TryNext(t) ==
    \/ NextTakes(t)
    \/ NextEnds(t)
    \/ NextWaits(t)

PushStep(p) ==
    \/ \E isNotice \in BOOLEAN : push(p, isNotice)
    \/ TryPush(p)
    \/ PushSignals(p)
    \/ PushWakes(p)
    \/ PushGivesUp(p)

NextStep(t) ==
    \/ next(t)
    \/ TryNext(t)
    \/ NextSignalsRoom(t)
    \/ NextSignalsReady(t)
    \/ NextWakes(t)
    \/ NextGivesUp(t)

CloseStep(c) ==
    \/ close(c)
    \/ CloseSignalsReady(c)
    \/ CloseSignalsRoom(c)

Next ==
    \/ \E p \in Pusher : PushStep(p)
    \/ \E t \in Taker : NextStep(t)
    \/ \E c \in Closer : CloseStep(c)

Spec == Init /\ [][Next]_vars

\* A call runs on, and a select with a token to take takes it, or its context's
\* end.  Nobody has to call, and no context has to end.
Fairness ==
    /\ \A p \in Pusher : WF_vars(TryPush(p) \/ PushSignals(p) \/ PushWakes(p))
    /\ \A t \in Taker : WF_vars(TryNext(t) \/ NextSignalsRoom(t) \/ NextSignalsReady(t) \/ NextWakes(t))
    /\ \A c \in Closer : WF_vars(CloseSignalsReady(c) \/ CloseSignalsRoom(c))

FairSpec == Spec /\ Fairness
------------------------------------------------------------------------------
\* Every variable keeps the type of the Go field it stands for, and the queue its
\* bound.
TypeOK ==
    /\ policy \in Policy
    /\ items \in Seq(BOOLEAN) /\ Len(items) <= Capacity
    /\ closed \in BOOLEAN /\ dropped \in Nat
    /\ ready \in BOOLEAN /\ room \in BOOLEAN
    /\ pushing \in [Pusher -> PushAt]
    /\ notice \in [Pusher -> BOOLEAN]
    /\ taking \in [Taker -> NextAt]
    /\ closing \in [Closer -> CloseAt]
    /\ endSeen \in BOOLEAN

\* What next waits for.
ToTake == items # <<>> \/ closed

\* A taker will be woken: the token is there, or someone is on its way to put it
\* there, or to take the item and pass the token on.
ReadyComing ==
    \/ ready
    \/ \E p \in Pusher : pushing[p] = "queued"
    \/ \E t \in Taker : taking[t] \in {"try", "tookMore", "more"}
    \/ \E c \in Closer : closing[c] = "ready"

\* No wake-up of a taker is lost: while there is an item, or the end, to take, a
\* waiting next is about to be woken (inbox.go next, its signals of ready).
TakersWoken == (\E t \in Taker : taking[t] = "wait") /\ ToTake => ReadyComing

\* "A closed inbox still hands over what it holds before next reports that it
\* ended" (inbox.go:43-44): after one taker saw the end no taker gets an item.
EndIsFinal == endSeen => closed /\ items = <<>>

\* Every taker that waits when the inbox closes learns of it, though close puts
\* down one token: each taker that wakes hands it on.
EndReachesTakers ==
    \A t \in Taker : closed /\ taking[t] = "wait" ~> taking[t] # "wait"

\* A pusher will be woken, as a taker is.
RoomComing ==
    \/ room
    \/ \E p \in Pusher : pushing[p] = "try"
    \/ \E t \in Taker : taking[t] \in {"took", "tookMore"}
    \/ \E c \in Closer : closing[c] \in {"ready", "room"}

\* "waitForRoom makes the pusher wait until there is room, its context ends, or
\* the inbox closes" (inbox.go:30-31).
PushersWoken ==
    (\E p \in Pusher : pushing[p] = "wait") /\ (closed \/ Len(items) < Capacity) => RoomComing
==============================================================================
