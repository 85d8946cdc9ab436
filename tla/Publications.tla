----------------------------- MODULE Publications -----------------------------
(***************************************************************************)
(* Publishing over several links and delivering once: the seq a node's     *)
(* links share and Publish (stationlink/pubsub.go, pool/pubsub.go), the    *)
(* signing and verifying of a publication (frame/publication.go), the      *)
(* station's fan-out (teststation), and a subscriber's evented with the    *)
(* EventDedup its links share (stationlink/dedup.go).                      *)
(*                                                                         *)
(* Each reader of a link reads its clock, verifies, and only then takes    *)
(* the dedup's mutex.  A copy may be heard late, again, or not at all.     *)
(***************************************************************************)
EXTENDS Naturals, FiniteSets

CONSTANTS
    Path,             \* the links the publisher sends on and the subscriber hears on
    ReplicationFactor,
    MaxClock,         \* bound of the model on both clocks
    MaxPublications,  \* bound of the model on the publications
    TTL, Tolerance    \* how long a publication lives; publicationToleranceMs

ASSUME PublisherClockAssumption == MaxClock \in Nat
ASSUME PublicationTimes == TTL \in Nat /\ Tolerance \in Nat

VARIABLES
    lastSeq,      \* PublicationSeq.last
    published,    \* history: the publications signed, [seq, at]
    collided,     \* history: a publication was signed with the seq of another
    carried,      \* copies on their way: <<path, publication>>
    clock,        \* the subscriber's clock
    hearing,      \* each path's evented past verification: {} or {[pub, now]}
    seen,         \* EventDedup.seen: the publications held, each until it expires
    delivered,    \* how often each publication was handed to the subscriptions
    stale         \* history: publications judged on a clock reading from before they expired

pubvars == <<lastSeq, published, collided, carried, clock, hearing, seen, delivered, stale>>

Publication == [seq : 0..(MaxClock + MaxPublications), at : 0..MaxClock]

PubInit ==
    /\ lastSeq = 0 /\ published = {} /\ collided = FALSE /\ carried = {} /\ clock = 0
    /\ hearing = [l \in Path |-> {}]
    /\ seen = {} /\ delivered = [p \in {} |-> 0] /\ stale = {}

\* PublicationSeq.Next, the clock reading t.
NextSeq(t) == IF t > lastSeq + 1 THEN t ELSE lastSeq + 1

ExpiresAt(p) == p.at + TTL + Tolerance

\* publish: signed once, then sent on the first ReplicationFactor links, of
\* which some may fail; the publisher's clock may read anything.
Publish(t, on) ==
    /\ Cardinality(published) < MaxPublications
    /\ LET p == [seq |-> NextSeq(t), at |-> t]
       IN  /\ lastSeq' = NextSeq(t)
           /\ published' = published \union {p}
           /\ collided' = (collided \/ \E q \in published : q.seq = p.seq)
           /\ carried' = carried \union {<<l, p>> : l \in on}
    /\ UNCHANGED <<clock, hearing, seen, delivered, stale>>

\* VerifyPublication's freshness: no further ahead than the tolerance, and not
\* past its expiry; its other refusals are the same for every copy.
Verifies(p, now) == p.at <= now + Tolerance /\ now <= ExpiresAt(p)

\* evented up to the dedup: the clock is read and the publication verified.
Hears(l, p) ==
    /\ <<l, p>> \in carried /\ hearing[l] = {}
    /\ Verifies(p, clock)
    /\ hearing' = [hearing EXCEPT ![l] = {[pub |-> p, now |-> clock]}]
    /\ UNCHANGED <<lastSeq, published, collided, carried, clock, seen, delivered, stale>>

\* Mutant: a publication is let go in the last moment it is still accepted.
SweptOnTime(now) == {p \in seen : ExpiresAt(p) > now}

\* What first keeps of the publications it holds.
Swept(now) == {p \in seen : ~(ExpiresAt(p) < now)}

\* first, and the delivery to the link's subscriptions.
Delivers(l) ==
    /\ hearing[l] # {}
    /\ LET h == CHOOSE x \in hearing[l] : TRUE
           times == IF h.pub \in DOMAIN delivered THEN delivered[h.pub] ELSE 0
       IN  /\ stale' = IF clock > ExpiresAt(h.pub) THEN stale \union {h.pub} ELSE stale
           /\ \/ h.pub \in seen /\ UNCHANGED <<seen, delivered>>
              \/ /\ h.pub \notin seen
                 /\ seen' = Swept(h.now) \union {h.pub}
                 /\ delivered' = [p \in DOMAIN delivered \union {h.pub} |->
                                    IF p = h.pub THEN times + 1 ELSE delivered[p]]
    /\ hearing' = [hearing EXCEPT ![l] = {}]
    /\ UNCHANGED <<lastSeq, published, collided, carried, clock>>

\* A copy is lost.
Lost(copy) ==
    /\ carried' = carried \ {copy}
    /\ UNCHANGED <<lastSeq, published, collided, clock, hearing, seen, delivered, stale>>

Tick ==
    /\ clock < MaxClock /\ clock' = clock + 1
    /\ UNCHANGED <<lastSeq, published, collided, carried, hearing, seen, delivered, stale>>

PubNext ==
    \/ \E t \in 0..MaxClock, on \in {s \in SUBSET Path : s # {} /\ Cardinality(s) <= ReplicationFactor} : Publish(t, on)
    \/ \E l \in Path : Delivers(l) \/ \E p \in published : Hears(l, p)
    \/ \E copy \in carried : Lost(copy)
    \/ Tick

PubSpec == PubInit /\ [][PubNext]_pubvars
-----------------------------------------------------------------------------
\* A publication's seq is its own, whatever the clock did meanwhile, so no two
\* publications of one node are the same to a subscriber.
SeqsDistinct == ~collided

\* A publication is delivered once, however many copies the node's links hear,
\* until it expires; again only when a link judges it on a clock reading it
\* took before the expiry and acts on after it.
EventOnce == \A p \in DOMAIN delivered : delivered[p] > 1 => p \in stale
=============================================================================
