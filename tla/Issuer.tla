-------------------------------- MODULE Issuer --------------------------------
(***************************************************************************)
(* The statement issuer of a node (identity/issuer.go) and what a verifier *)
(* makes of its bindings and statements (identity/binding.go).             *)
(*                                                                         *)
(* The issuer restates its bindings at every tick, rotates the CONNECT key *)
(* when it is due, and does due work itself when a dial asks for material. *)
(* Its clock may be stepped, either way, and its work may fail.  Signatures*)
(* are the node's own and verify: a verifier's answer depends on the times.*)
(***************************************************************************)
EXTENDS Integers

CONSTANTS
    Tolerance,           \* toleranceMs, a verifier's
    StatementEvery, StatementValid, ConnectBindingValid, ConnectRotateEvery,
    MaxTime,             \* bound of the model on the clock
    MaxRotations         \* bound of the model on the rotations

ASSUME IssuerTimes ==
    /\ Tolerance \in Nat /\ StatementEvery \in Nat /\ MaxTime \in Nat
    /\ StatementValid \in Nat /\ ConnectBindingValid \in Nat
    /\ StatementEvery < StatementValid /\ ConnectRotateEvery < ConnectBindingValid

VARIABLES
    clock,       \* what the issuer's clock reads
    bindings,    \* the bindings held, by the rotation that made each
    current,     \* the current one, the last rotation
    subscription,\* a link's: the binding it dialed with, the statement in its channel, whether it is open
    handed       \* history: what ConnectMaterial last returned, in a set: empty for nothing

ivars == <<clock, bindings, current, subscription, handed>>

Time == 0..MaxTime
NoSubscription == [of |-> 0, ch |-> -1, open |-> FALSE]

\* statedBinding: the binding runs from boundAt to notAfter, its newest
\* statement was stated at statedAt and says issuedAt.
BoundAt(now) == [boundAt |-> now, statedAt |-> now, issuedAt |-> now, notAfter |-> now + ConnectBindingValid]

IInit ==
    /\ clock = MaxTime \div 2
    /\ bindings = [n \in {1} |-> BoundAt(clock)]
    /\ current = 1
    /\ subscription = NoSubscription /\ handed = {}
-----------------------------------------------------------------------------
\* verifyBinding and VerifyStatus, at a verifier whose clock reads now.
BindingVerifies(from, to, now) ==
    /\ from >= 0 /\ from <= to /\ to - from <= ConnectBindingValid
    /\ now + Tolerance >= from /\ now - Tolerance <= to

StatusVerifies(issuedAt, now) ==
    /\ issuedAt >= 0
    /\ issuedAt <= now + Tolerance /\ now - Tolerance <= issuedAt + StatementValid

rotationDue(b, now) == now < b.boundAt - Tolerance \/ now >= b.boundAt + ConnectRotateEvery
restatementDue(b, now) == now < b.statedAt - Tolerance \/ now >= b.statedAt + StatementEvery

inForce(b, now) ==
    /\ b.boundAt - Tolerance <= now /\ now <= b.notAfter
    /\ b.statedAt - Tolerance <= now /\ now < b.statedAt + StatementValid

\* later: after the previous statement, within the tolerance of now.
later(previous, now) ==
    IF previous + 1 > now + Tolerance THEN now
    ELSE IF previous + 1 > now THEN previous + 1 ELSE now

\* reissue: a new statement for each binding not past its not_after, but for
\* the failed ones.
Reissued(held, now, failed) ==
    [n \in DOMAIN held |->
        IF held[n].notAfter < now \/ n \in failed THEN held[n]
        ELSE [held[n] EXCEPT !.statedAt = now, !.issuedAt = later(held[n].issuedAt, now)]]

\* deliver: the subscription of a restated binding holds its new statement.
Delivered(held, now, failed) ==
    LET n == subscription.of
    IN  IF subscription.open /\ n \in DOMAIN held /\ n \notin failed /\ held[n].notAfter >= now
        THEN [subscription EXCEPT !.ch = later(held[n].issuedAt, now)]
        ELSE subscription

\* dropExpired: bindings past their not_after go, but for the current one, and
\* their subscriptions close.
Kept(held, now, cur) == [n \in {m \in DOMAIN held : held[m].notAfter >= now \/ m = cur} |-> held[n]]
Closed(sub, held, now) ==
    IF sub.open /\ sub.of \in DOMAIN held /\ held[sub.of].notAfter < now THEN [sub EXCEPT !.open = FALSE] ELSE sub

\* tick: reissue, rotate when it is due, drop; failed are the bindings whose
\* statement failed, rotates is false when the rotation fails.
Ticked(now, failed, rotates) ==
    LET restated == Reissued(bindings, now, failed)
        rotated  == rotationDue(restated[current], now) /\ rotates
        cur      == IF rotated THEN current + 1 ELSE current
        after    == [n \in DOMAIN bindings \union {cur} |-> IF rotated /\ n = cur THEN BoundAt(now) ELSE restated[n]]
    IN  /\ current + 1 \in 1..MaxRotations \/ ~rotated
        /\ current' = cur
        /\ bindings' = Kept(after, now, cur)
        /\ subscription' = Closed(Delivered(bindings, now, failed), after, now)

Tick(failed, rotates) ==
    /\ Ticked(clock, failed, rotates)
    /\ UNCHANGED <<clock, handed>>

\* Mutant: a dial carries the newest statement, whatever the clock says.
dialStatementNewest(b, now) == b.issuedAt

\* dialStatement: the newest, or one issued at now when that one is dated too
\* far ahead.
dialStatement(b, now) == IF b.issuedAt - Tolerance <= now THEN b.issuedAt ELSE now

\* ConnectMaterial: due work first, then the current binding and a statement,
\* or nothing when they are not in force.
ConnectMaterial(failed, rotates) ==
    /\ IF rotationDue(bindings[current], clock) \/ restatementDue(bindings[current], clock)
       THEN Ticked(clock, failed, rotates)
       ELSE failed = {} /\ rotates /\ UNCHANGED <<bindings, current, subscription>>
    /\ LET b == bindings'[current']
       IN  handed' = IF inForce(b, clock)
                     THEN {[binding |-> current', from |-> b.boundAt, to |-> b.notAfter,
                             issuedAt |-> dialStatement(b, clock), at |-> clock]}
                     ELSE {}
    /\ UNCHANGED clock

\* The link of a dial, once its handshake is over, subscribes to the binding it
\* dialed with, which may be gone by then.
Subscribe ==
    /\ subscription = NoSubscription
    /\ \E m \in handed :
          /\ m.binding \in DOMAIN bindings /\ bindings[m.binding].notAfter >= clock
          /\ subscription' = [of |-> m.binding, ch |-> -1, open |-> TRUE]
    /\ UNCHANGED <<clock, bindings, current, handed>>

\* sendStatements: the statement in the channel goes to the peer.
SendStatement ==
    /\ subscription.ch # -1
    /\ subscription' = [subscription EXCEPT !.ch = -1]
    /\ UNCHANGED <<clock, bindings, current, handed>>

\* unsubscribe, as the link ends.
Unsubscribe ==
    /\ subscription # NoSubscription
    /\ subscription' = NoSubscription
    /\ UNCHANGED <<clock, bindings, current, handed>>

ClockMoves(t) ==
    /\ clock' = t /\ t # clock
    /\ handed' = {}
    /\ UNCHANGED <<bindings, current, subscription>>

INext ==
    \/ \E failed \in SUBSET DOMAIN bindings, rotates \in BOOLEAN : Tick(failed, rotates) \/ ConnectMaterial(failed, rotates)
    \/ Subscribe \/ SendStatement \/ Unsubscribe
    \/ \E t \in Time : ClockMoves(t)

ISpec == IInit /\ [][INext]_ivars
-----------------------------------------------------------------------------
\* What ConnectMaterial hands a dial is accepted by a verifier whose clock reads
\* the same, whatever ticks were missed or failed and however the clock moved.
MaterialVerifies ==
    \A m \in handed : BindingVerifies(m.from, m.to, m.at) /\ StatusVerifies(m.issuedAt, m.at)
=============================================================================
