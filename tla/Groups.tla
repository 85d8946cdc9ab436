------------------------------- MODULE Groups -------------------------------
(* The keyring of one sealed group (group/keyring.go, group/epoch.go,        *)
(* group/wire.go) as its members use it: joins, publishes, opens, leaves and *)
(* the timer that pulls the group's keys again.  Pulls are made one at a     *)
(* time, under pullMu, and outside mu: the group may be left, or the keyring *)
(* closed, while a pull is under way, and the pull then works on a group     *)
(* nobody holds.  Time is in units of the first backoff.  An epoch is named  *)
(* by its number: the distributor issues epoch n at n * Rotation.            *)
EXTENDS Integers, FiniteSets, FiniteSetsExt

CONSTANTS Rotation, EventLife, EpochTolerance, FirstBackoff,
          UnknownIDs,   \* unknownIDsPerPublisher
          SealDelay,    \* from choosing a publish's epoch to stamping it, at most
          MaxEpoch, MaxGroupTime, MaxJoins, MaxWakes

ASSUME GroupTimes == /\ {Rotation, EventLife, FirstBackoff} \subseteq Nat \ {0}
                     /\ {EpochTolerance, UnknownIDs, SealDelay} \subseteq Nat
                     /\ SealDelay <= EpochTolerance + 1

VARIABLES
  now,      \* the node's clock
  group,    \* the held group, or NoGroup
  joins,    \* how often the group was joined: which group a pull or a timer is of
  timers,   \* the timers set and not stopped: [of, wake, at]
  woken,    \* re-pulls waiting for pullMu: [of, wake]
  pulling,  \* the pull under way, or NoPull
  shut,     \* Keyring.closed
  event     \* the last sealed event a subscriber had opened, what came of it, and
            \* whether its epoch was held or had to be pulled

gvars == <<now, group, joins, timers, woken, pulling, shut, event>>

NoGroup == [joined |-> 0]
NoPull == [by |-> "none"]
NoEvent == [id |-> 0, reason |-> "none", held |-> FALSE]
Unissued == -1             \* an id no distributor issued

-----------------------------------------------------------------------------
(* Epochs *)

IssuedAt(n) == n * Rotation
PublishUntil(n) == IssuedAt(n) + Rotation
AcceptUntil(n) == PublishUntil(n) + EventLife
aheadWindow(n) == (PublishUntil(n) - Rotation \div 3) .. (PublishUntil(n) - 1)

(* Mutant: an epoch is accepted for as long as it may be published under.    *)
acceptableUntilPublished(n) == now <= PublishUntil(n) + EpochTolerance
(* An epoch is accepted for the life of the last event published under it.  *)
acceptable(n) == now <= AcceptUntil(n) + EpochTolerance

live(epochs) == {n \in epochs : acceptable(n)}

forPublish(epochs) == {n \in epochs : IssuedAt(n) <= now /\ now < PublishUntil(n)}

(* The distributor at time t: the current epoch, and the next one inside the *)
(* ahead window; an epoch it issued by its id, while it is accepted.         *)
Current(t) == LET n == t \div Rotation
              IN  {n} \union (IF t \in aheadWindow(n) THEN {n + 1} ELSE {})

ByID(id, t) == IF id # Unissued /\ t <= AcceptUntil(id) THEN {id} ELSE {}

-----------------------------------------------------------------------------
(* A held group *)

Joining == [joined |-> joins + 1, policy |-> "none", epochs |-> {},
            unknown |-> 0, since |-> 0, spent |-> 0, backoff |-> FirstBackoff, wake |-> 0]

Seen(policy) == policy \in {"preferred", "required"}

merge(g, policy, epochs) ==
  [g EXCEPT !.policy = IF policy # "off" \/ ~Seen(g.policy) THEN policy ELSE g.policy,
            !.epochs = @ \union epochs]

(* spend: whether one more id of the publisher may be pulled, and the budget *)
(* after it.                                                                 *)
MaySpend(g) == g.spent = 0 \/ now - g.since >= Rotation \/ g.spent < UnknownIDs

spend(g) == IF g.spent = 0 \/ now - g.since >= Rotation
            THEN [g EXCEPT !.since = now, !.spent = 1]
            ELSE [g EXCEPT !.spent = @ + 1]

OwnTimer(g) == {t \in timers : t.of = g.joined /\ t.wake = g.wake}
IsHeld(g) == group # NoGroup /\ group.joined = g.joined

(* wakeInLocked: the group's pending re-pull replaced by one after delay.    *)
wakeIn(g, delay) ==
  IF shut THEN /\ timers' = timers \ OwnTimer(g)
               /\ group' = IF IsHeld(g) THEN g ELSE group
  ELSE /\ timers' = (timers \ OwnTimer(g))
                      \union {[of |-> g.joined, wake |-> g.wake + 1, at |-> now + delay]}
       /\ group' = IF IsHeld(g) THEN [g EXCEPT !.wake = @ + 1] ELSE group

schedule(g) ==
  LET kept == [g EXCEPT !.backoff = FirstBackoff, !.epochs = live(@)]
  IN  IF kept.epochs = {} THEN wakeIn(kept, FirstBackoff)
      ELSE \E at \in aheadWindow(Max(kept.epochs)) :
             wakeIn(kept, Max({FirstBackoff, at - now}))

backOff(g) ==
  wakeIn([g EXCEPT !.epochs = live(@),
                   !.backoff = Min({@ * 2, Max({Rotation \div 3, FirstBackoff})})],
         g.backoff)

-----------------------------------------------------------------------------
(* What members call, until the pull it needs is asked for *)

Pulls(by, g, id) == pulling' = [by |-> by, g |-> g, id |-> id, asked |-> now]

Join == /\ pulling = NoPull /\ group = NoGroup /\ joins < MaxJoins
        /\ Pulls("join", Joining, 0)
        /\ joins' = joins + 1
        /\ event' = NoEvent
        /\ UNCHANGED <<now, group, timers, woken, shut>>

(* Leave is CloseKeyring too: a closed keyring holds no group and sets no timer.    *)
Drops == /\ timers' = timers \ OwnTimer(group)
         /\ group' = NoGroup
         /\ event' = NoEvent
         /\ UNCHANGED <<now, joins, woken, pulling>>

Leave == group # NoGroup /\ Drops /\ UNCHANGED shut
CloseKeyring == ~shut /\ shut' = TRUE /\
         (IF group = NoGroup THEN UNCHANGED <<now, group, joins, timers, woken, pulling, event>>
          ELSE Drops)

PublishEpoch == /\ pulling = NoPull /\ group # NoGroup /\ group.wake < MaxWakes
                /\ forPublish(group.epochs) = {}
                /\ Pulls("publish", group, 0)
                /\ event' = NoEvent
                /\ UNCHANGED <<now, group, joins, timers, woken, shut>>

(* An event sealed under epoch n, stamped no more than SealDelay after its   *)
(* publisher read the epoch, and still within its life (VerifyPublication);  *)
(* or one that names an id nobody issued.                                    *)
Arrives(id) == \/ id = Unissued
               \/ \E stamped \in IssuedAt(id) .. PublishUntil(id) - 1 + SealDelay :
                    stamped <= now /\ now <= stamped + EventLife

Reports(id, reason, held) == event' = [id |-> id, reason |-> reason, held |-> held]

OpenEpoch(id) ==
  /\ Arrives(id)
  /\ UNCHANGED <<now, joins, timers, woken, shut>>
  /\ \/ /\ group = NoGroup
        /\ Reports(id, "not_joined", FALSE) /\ UNCHANGED <<group, pulling>>
     \/ /\ group # NoGroup /\ id \in group.epochs
        /\ Reports(id, IF acceptable(id) THEN "opened" ELSE "epoch_expired", TRUE)
        /\ UNCHANGED <<group, pulling>>
     \/ /\ group # NoGroup /\ id \notin group.epochs /\ pulling = NoPull
        /\ IF (id = Unissued /\ group.unknown > now) \/ ~MaySpend(group)
           THEN Reports(id, "unknown_epoch", FALSE) /\ UNCHANGED <<group, pulling>>
           ELSE /\ group' = spend(group)
                /\ Pulls("open", group', id)
                /\ event' = NoEvent

-----------------------------------------------------------------------------
(* The timer *)

WakeUp(t) == /\ t.at <= now
             /\ timers' = timers \ {t}
             /\ woken' = woken \union {[of |-> t.of, wake |-> t.wake]}
             /\ event' = NoEvent
             /\ UNCHANGED <<now, group, joins, pulling, shut>>

repull(w) == /\ pulling = NoPull
             /\ woken' = woken \ {w}
             /\ IF group # NoGroup /\ group.wake = w.wake /\ ~shut
                THEN Pulls("repull", group, 0)
                ELSE UNCHANGED pulling
             /\ event' = NoEvent
             /\ UNCHANGED <<now, group, joins, timers, shut>>

-----------------------------------------------------------------------------
(* The pull's end.  Which distributor is asked is left out.                  *)

OpenAnswered(g, id) ==
  /\ group' = IF IsHeld(g) THEN [g EXCEPT !.epochs = live(@)] ELSE group
  /\ Reports(id, IF id \notin live(g.epochs) THEN "no_distributor" ELSE "opened", FALSE)
  /\ UNCHANGED timers

(* Mutant: a re-pull that fails is the last.                                 *)
RepullFailedQuietly(g) == UNCHANGED <<group, timers>>
(* A re-pull that fails is made again, later each time, of a group still held. *)
RepullFailed(g) == IF IsHeld(g) THEN backOff(g) ELSE UNCHANGED <<group, timers>>

Failed(g, reason) ==
  \/ pulling.by = "join" /\ UNCHANGED <<group, timers, event>>
  \/ pulling.by = "publish" /\ backOff(g) /\ UNCHANGED event
  \/ pulling.by = "repull" /\ RepullFailed(g) /\ UNCHANGED event
  \/ /\ pulling.by = "open"
     /\ group' = IF ~IsHeld(g) THEN group
                 ELSE IF reason = "unknown_epoch"
                      THEN [g EXCEPT !.unknown = pulling.asked + EventLife] ELSE g
     /\ Reports(pulling.id, reason, FALSE)
     /\ UNCHANGED timers

PullFails ==
  /\ pulling # NoPull
  /\ \/ \E reason \in {"no_distributor",   \* none advertised, not reached, malformed
                        "not_a_member"} : Failed(pulling.g, reason)
     \/ /\ pulling.by = "open" /\ ByID(pulling.id, pulling.asked) = {}
        /\ Failed(pulling.g, IF pulling.id = Unissued THEN "unknown_epoch" ELSE "epoch_expired")
  /\ pulling' = NoPull
  /\ UNCHANGED <<now, joins, woken, shut>>

PullAnswers ==
  /\ pulling # NoPull
  /\ \E policy \in {"off", "required"} :
       LET epochs == IF pulling.by = "open" THEN ByID(pulling.id, pulling.asked)
                     ELSE Current(pulling.asked)
           g == merge(pulling.g, policy, epochs)
       IN  /\ epochs # {}
           /\ CASE pulling.by = "join" ->
                     IF shut THEN UNCHANGED <<group, timers, event>>
                     ELSE \E at \in aheadWindow(Max(epochs)) :
                            /\ group' = [g EXCEPT !.wake = 1, !.epochs = live(@)]
                            /\ timers' = timers \union
                                 {[of |-> g.joined, wake |-> 1,
                                   at |-> IF live(epochs) = {} THEN now + FirstBackoff
                                          ELSE now + Max({FirstBackoff, at - now})]}
                            /\ UNCHANGED event
                [] pulling.by = "publish" -> schedule(g) /\ UNCHANGED event
                [] pulling.by = "repull" ->
                     IF IsHeld(g) THEN schedule(g) /\ UNCHANGED event
                     ELSE UNCHANGED <<group, timers, event>>
                [] OTHER -> OpenAnswered(g, pulling.id)
  /\ pulling' = NoPull
  /\ UNCHANGED <<now, joins, woken, shut>>

(* The clock.  The instance stops at the last epoch it knows of.             *)
Passes == /\ now < MaxGroupTime
          /\ now' = now + 1
          /\ event' = NoEvent
          /\ UNCHANGED <<group, joins, timers, woken, pulling, shut>>

GInit == /\ now = 0 /\ group = NoGroup /\ joins = 0 /\ timers = {} /\ woken = {}
         /\ pulling = NoPull /\ shut = FALSE /\ event = NoEvent

GNext == \/ Join \/ Leave \/ CloseKeyring \/ PublishEpoch \/ PullFails \/ PullAnswers \/ Passes
         \/ \E id \in {Unissued} \union 0..MaxEpoch : OpenEpoch(id)
         \/ \E t \in timers : WakeUp(t)
         \/ \E w \in woken : repull(w)

GSpec == GInit /\ [][GNext]_gvars

-----------------------------------------------------------------------------
(* Every held group is going to be pulled again, whatever was called, failed *)
(* or was left meanwhile: its own timer is set, or has fired and waits for   *)
(* its turn, or the pull under way is the one that sets it.                  *)
RepullPending ==
  group # NoGroup =>
    \/ OwnTimer(group) # {}
    \/ \E w \in woken : w.wake = group.wake
    \/ pulling # NoPull /\ pulling.by \in {"publish", "repull"} /\ IsHeld(pulling.g)

(* A member that holds an event's epoch opens it however late in its life it *)
(* arrives: acceptUntil and the tolerance cover a publish stamped after its  *)
(* epoch stopped publishing, as PublishGroup reads the epoch before it seals.*)
NoEarlyExpiry == ~(event.held /\ event.reason = "epoch_expired")
=============================================================================
