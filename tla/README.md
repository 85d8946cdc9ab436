# Verification of macula-go

TLA+ models of the parts of macula-go where goroutines, links and budgets meet,
checked with TLC on small instances and, where the argument carries to every
size, proved with TLAPS. Each definition that models code names its source lines in
`PROJECT.json` (`map`); paths there and below are relative to the repository's root
(written `src/`).

## The system

macula-go is a client library for the macula mesh. A node holds **links** to
stations (`stationlink`), each a QUIC connection with a control stream and one
stream per streaming session. A **pool** (`pool`) keeps links to several stations and
offers calls, serving, publish/subscribe, content and groups over all of them. The
**C ABI** (`cabi`) exports the pool to other languages. Below these lie frames,
CBOR, records, keys, seals and UCANs, which are mostly pure functions.

| Part | Code | State and what changes it | Module |
|---|---|---|---|
| request admission | `stationlink/admission.go`, `called`/`answer` in `serve.go` | entries, counters; `admit`, `sweep`, `store` from any link's goroutines | `Admission` |
| provider streams | `stationlink/stream.go`, `stream_serve.go` | inbox, both sides' ends, session and drain places; reader, handler, `end`, the link's end | `ServedStreams` |
| caller streams, resealing | `stationlink/stream_open.go`, `stream_seal.go`, `adopt` in `stream.go` | sessions, the retained copy, replay | `CallerStream` |
| link lifecycle | `stationlink/link.go`, probes in `call.go` | the reader, probes, timers, `end`, `Close` | `LinkLife`, `ServedStreams` |
| link publish/subscribe | `stationlink/pubsub.go`, `register.go`, `dedup.go` | subscriptions, awaited acks; seq, seen events | `LinkPubSub`, `Publications` |
| serving | `stationlink/serve.go`, `authorize.go`, `pool/serve.go` | advertisements, renewal, retries, `Stop`; policies | `Serving`, `Ucan` |
| pool calls, sealing | `pool/call.go`, `stationlink/call.go`, `confidential.go`, `seal/keyring.go` | resolution, learnt keys, reseal, rotation | `Calling` |
| pool subscriptions | `pool/pubsub.go`, `delivery.go`, `member.go`, `pool.go` | attachments, delivery queue, notices, `Close` | `PoolSubscription`, `SubscriptionPromise` |
| groups | `pool/group.go`, `group/` | epoch keys, pulls, backoff | `Groups` |
| content | `pool/content.go`, `manifest` | shared roots and chunks, fetch workers | `Content` |
| handshake | `handshake`, `transport`, `stationlink/link.go` | one exchange per connection | `Handshake` |
| statement issuer | `identity/issuer.go`, `binding.go` | bindings, statements, CONNECT key | `Issuer` |
| key files | `identity/key_file*.go`, `sealed_*.go`, `cabi/keys.go` | files, directory, crashes | `KeyFiles` |
| C ABI | `cabi/inbox.go`; `serve.go`, `pool.go`, `pubsub.go`, `streams.go` | queue and tokens; pending calls, handles, owned inboxes | `Inbox`; `Cabi` |
| frames, CBOR | `frame`, `cbor` | none: what is built and what is accepted | `Frames`, `Cbor` |
| records, UCANs | `record`, `ucan` | the station's store; token chains | `Records`, `Ucan` |

The hazards, with the line where each bites, are in `PROJECT.json`.

## Modules and their code

**`Admission`**. `entries` and the counters are the fields of `Admission`. A request
stands for its hash; two requests may have one key (caller and id). A *receiver* is a
goroutine that judges one request at a time (a link's read loop, or an incoming
stream's): `Receive` is `called` or `admitStream` up to the call of `admit`, and keeps
the clock it read, because `time.Now` is read before the mutex is taken.
`RefuseDeadline` is the check before the lock; `JudgeHeld`, `JudgeFull` and
`JudgeNew` are the three outcomes of the critical section, each with the whole sweep
in it. `AnswerRun` is `answer` after its handler: `store` and the write. `running` holds the
handler goroutines, which may outlive their entries. Replies are a request and a
length. The model's only bound is `MaxClock`.

**`ServedStreams`**. One link's incoming streams. `OpenSession`, `RefuseOpen`, `DrainEnds`,
`giveDrain` and `Serve` are the stages of `incoming`; failures before a session exists are
`DropOpen`. The reader reads a frame (`ReadFrame`) and applies it in a later step,
because the stream may end in between. `Send`, `Written` and `WriteFails` are a write
under `sendMu`, which may last as long as the caller does not read. `Recv` and
`RecvRefund` are the two halves of `Recv`, around its unlock. `end` is a call
(`CallEnd`, of which `endOnce` takes the first), its critical section (`EndBegin`), the
cancellation and refund (`EndRefund`), and the release (`EndRelease`). `EndStreams`
to `LinkDone` are the end of `Link.end`. Frames are a kind and a size: decoding,
verifying and unsealing appear as the choice between a frame and `ReadMalformed`. Errors
of sealing or signing a frame of this side, which leave the stream as it is, are left
out. `charge` on the budgets follows `chargeInbox`.

**`Inbox`**. Each call of `push`, `next` and `close` is a process that takes the mutex once
per turn of its loop and signals after it; the steps between the unlock and the
signal are separate. A channel of capacity one is a Boolean. Notices are pushed only under
`dropNewest`, as the pool's subscriptions do. `MaxDropped` bounds the counter.

**`LinkPubSub`**. The subscriptions of one realm and topic on one link: the first sends
SUBSCRIBE and waits, the others wait for its verdict, the last to leave sends
UNSUBSCRIBE. The maps change under the link's mutex and the frames leave after it, so
two clients' frames may cross; the station may be late with an ack, or never send it. It may
also stop reading: a write on the control stream (`sendControl`) has no deadline, and lasts
until the stream takes the frame (`Window` of them fit) or the connection is closed.

**`Publications`**. `nextSeq`, `Publish` over every link of a pool, a station's fan-out
and `evented`. A reader takes its clock, verifies with it and only then asks
the dedup the links share; copies come late, repeated or never.

**`PoolSubscription`** and **`SubscriptionPromise`**. One subscription over links that come up
and end: `Subscribe`'s first round, `attach` (`AttachCovers`, `AttachLate`),
`forward`, `push` into a bounded channel, the notices, `Unsubscribe`, `Close`. A link
is one incarnation; a member's next link is another. A link's end is two steps here: its error is set
(`LinkErr`), then the channels of its subscriptions and the connection are closed (`LinkClosed`). A link's
`Subscribe` that entered before the end and registers after it keeps a channel nobody closes, and the
subscription counts that link as a cover until a later attach drops it (`endEnded`). Events come without bound; what
overflows is dropped. `SubscriptionPromise` is what the
comments of `Delivery` promise about `Interrupted` and `Gap`, with no links or queues;
`PoolSubscription` instantiates it with a refinement mapping (a subscription is dark
when every link that carries it has ended).

**`Serving`**. An offer on two uplinks: an attempt signs, takes the procedure's entry,
sends ADVERTISE and waits; a failure is repeated, a refusal is not; renewal and lapse
on each link; the link's end beside them; the station's routes. `Stop` ends and withdraws link by
link, each in two steps (`StopEnds`, `StopWithdraws`), while renewals and ends go on. The pool's
`Close` is seen as the end of its links.

**`Calling`**. `Call` from the resolution through candidates, the seal, the link's
`Call`, the provider's `open` and its refusal, to one adoption or reseal. Providers
rotate their key at any time, stop opening a replaced one, restart without any of them, and renew their
advertisements late; they may serve clear requests, refuse them with their key, or
refuse without, and a key may be of a profile the caller cannot seal to. A Call may require
confidentiality. What one Call learns the pool's other Calls share.

**`Groups`**. `Join`, `Publish`, `Open`, `Leave`, the wake-up that pulls again and `Close`.
Pulls are made one at a time, under `pullMu`, each in several steps outside the keyring's mutex: the
group may be left, or the keyring closed, meanwhile. Joins are numbered, so that a timer or a pull
is of one of them. An event may be stamped `SealDelay` after its epoch was chosen. Time is in units
of the first backoff.

**`Content`**. `ShareContent` (the chunks kept, then the announcement made, then its renewal
installed, with other calls in between), `UnshareContent`, renewal and the served requests, and a
`FetchContent` whose sharer may give anything: a manifest with one of the `Lies`, any
block. Parallel workers fetch chunks; the first error stops the others. A hash is
the term it is of.

**`Handshake`**. Both sides of OPENER, CHALLENGE, CONNECT and HELLO over two
connections. Signatures are symbolic, a party may be handed what was sent on the other
connection, and each connection has at most one fault, which stands for one of the
code's refusals. The proof of work is a puzzle that is solved or missing and the byte layout is left
out; the checks run in the code's order (`Checks`).

**`Issuer`**. Ticks, rotation, `dialStatement` and its due work, with a clock that may step
either way and work that may fail; `verifyBinding` and `verifyStatus` by their times.

**`LinkLife`**. The reader's outcome for each control frame, the probe and its
one-place channel, the timers, and the link's one end. Pongs come in the order of the pings, on the
one control stream, and the station may leave some out; a ping that cannot be sent
starts the count of misses again, as `missesAfter` does for any error but a timeout. A probe empties the
channel, sends its ping, and waits; its deadline may fire with the answer already in the channel, and the
`select` then takes either.

**`CallerStream`**. The owner, the reader and the adopting goroutine of one stream.
`sendMu` is a variable, held by an adoption from the copy it takes to the last replayed
frame. The owner may end its side, or abort, at any point; a reader that runs on after the end finds the
stream closed. The provider's side is the refusals and the frames it can send.

**`Frames`**. Which objects a node signs (`SignRequest` to `SignStream`) and, through
the checks of each reader in their order, which it takes as the answer to its request, when
frames come late, repeated, on another stream or from another build: `Odd` names what differs (a field
missing, added or of another value, an extension that is critical or malformed, another signer or envelope).

**`Cbor`**. The encoder and the decoder on sequences of bytes with scaled widths (floats narrow and wide
included), what a sender checks before it signs (`CheckPayload`), and the bytes a frame may have (`Fits`).
Every input up to `MaxInput` bytes is decoded.

**`Records`**. A record is built, refreshed, withdrawn, put and found, alone (`FindRecord`) or in a list
that leaves out what does not verify (`FindRecords`); a row per type
(`lifetimeClassOf`, `slotOf`, signer) as in `record.go`. The authorization of an
advertisement by its org is a chain of three records.

**`Ucan`**. `Create`, and `Authorize` from the caller's token to the policy's issuer, with
chains of up to three tokens of which one may be spoilt. The request may be for a procedure of no org. `walk` is a recursive function of how many
tokens it has climbed, each step (`climb`) one call of the code's `walk`.

**`Cabi`**. One served procedure and one subscription of a binding: a handler's push, the
binding's threads that take and answer, the deadline, `stop` in its steps, `own` and the pool's
`close`. A served call or session has a handle until it is taken or drained.

**`KeyFiles`**. `Save` as its system calls, concurrent saves and loads, and a crash that
keeps any prefix of the directory holding what a sync covered and may lose unsynced
contents; a load's checks, of the purpose and the profile it was asked for too; sealing a file and
loading a sealed one.

`MC*` modules hold the constants TLC uses. `MCClocked` (what a node decides by its clock), `MCHolding` (what it
holds open for its users), `MCLinks`, `MCPool`, `MCLinkLive` and `MCCabi` each
check several components whose states are disjoint: a variable `part`, chosen in
the initial state, says which one a behaviour runs, so the runs' states are the sum and not
the product. `*Proofs` modules hold the theorems.

## Runs

| Run | Instance | Shows |
|---|---|---|
| `admission` | 5 requests of 3 callers (two under one id, one a stream open), 2 receivers on 2 shares (a symmetric pair), clock 0..2, each tolerance 1; a group of 2 epochs, 2 joins, time 0..6; record times 0..2, lifetimes 2 to 4 | `CountersExact`, `WithinLimits`, `CopyGetsOwnReply`, `RerunOnlyOnStaleClock`; `RepullPending`, `NoEarlyExpiry`; `WithdrawalHolds`, `AuthorizationCovers` |
| `admission_once` | the requests of `admission` alone | `RunsOnce` fails |
| `served_streams` | 2 symmetric streams of one caller that may have 1 session, one-byte inboxes, 1 drain; a subscription over 2 symmetric links, a queue of 1 | `InboxBudgetExact`, `PlacesExact`, `BothEndedEnds`; `NoLinkForgotten`, `NewestNoticeKept`, `EndsWithPool`, the refinement `Promise` |
| `served_streams_live` | 1 stream; 2 clients and 3 calls on a topic, a control stream of 2 frames; 3 probes; with fairness | `LeavingReleases`, `DrainsReturn`, `LinkEndFinishes`; `NoLingering`, `HeldIsRouted`, `SubscribeReturns`; `LostOnlyUnanswered` |
| `served_streams_give_back` | 1 stream | `EndGivesAllBack` fails |
| `served_streams_overflow` | 1 stream, with fairness | `OverflowReleases` fails |
| `inbox` | 1 pusher, 2 takers, 1 closer, capacity 2, each policy; 2 served items, 2 binding threads; 2 savers, 1 crash, no file or one of two at the path | `TakersWoken`, `EndIsFinal`, `EndReachesTakers`; `TakenIsReturned`, `NothingStranded`; `SavedSurvives` |
| `inbox_room` | the inbox alone, with 2 pushers | `PushersWoken` fails |
| `pool` | 2 symmetric links and 2 advertisements; 2 symmetric providers with 2 keys, 2 calls of one caller; a stream of 3 sends; 3 contents that share blocks, 2 shares, 2 workers; 2 publications over 2 paths | `NoRouteUnserved`, `ServedEverywhere`; `HandlerOnce`, `NeverClearAgain`; `SessionsWhole`; `FetchedIsAsked`; `EventOnce` |
| `links` | 2 connections with at most one fault each; time 0..5; 3 requests and 2 signed frames; inputs of up to 3 bytes; chains of 3 tokens | `Agreement`; `MaterialVerifies`; `AnswersItsRequest`; `SentIsTaken`; `ServedIsGranted` |
| `calling_refused_key` | 1 provider with 2 keys, 3 calls | `RefusedKeyForgotten` fails |
| `content_shared` | the contents of `pool` | `SharedIsServed` fails |

**Why the bounds are enough to be interesting.** Admission: a clock of three readings lets an entry
be admitted, expire and be admitted again while a receiver still holds its first
reading; quotas of one and two make every refusal happen. Streams: two streams
suffice for one to meet the caller's budget as the other left it, and its one session taken; a
queue of one event makes "full" a reachable state. Inbox: two waiters of a kind are what a token that wakes
one of them needs to go wrong (takers in `inbox`, pushers in `inbox_room`), and capacity 2 leaves
an item behind the one taken.
Subscriptions: with two links one can carry while the other ends, and with a channel of
one a notice meets a full one. The links of a group's subscription come and go too, but the pool closes around
the other kind only: a group's differs in its queues, which `Close` leaves alone. Topics: three calls are a Subscribe, its Unsubscribe, and a Subscribe
that crosses it. Probes: three are a miss whose pong comes late and two that it could spoil. Calling: two keys are a rotation; the second Call meets what the first learnt.
Groups: two epochs overlap in their windows, the clock passes the end of the first one's publishing and of its
acceptance, and a second join meets what the first left under way. Handshake: two connections are what a replay needs. Caller streams: one send more than the copy
retains. CBOR: a payload one level deeper, and one element more, than allowed. Records: the times
span the longest lifetime, so a tombstone can lapse before and after what it withdraws. Key
files: two saves and a crash, one of them reported saved before it.

Behaviours the statements leave out because the code permits them, each named in the
comment of its property: a SUBSCRIBE that crosses the UNSUBSCRIBE of the last subscription at the
station; a renewal under way when `Stop` withdraws; a call held by a handler after
`stop` took the pending ones.

**Deadlock** is checked in `admission`, `admission_once` and `inbox_room`. The other
runs turn it off: streams, links, calls and bindings end, and then nothing is left to
do.

**Fairness.** Weak fairness of the steps the code takes without waiting on anyone: the
reader applies what it read; reads and writes of a cancelled stream or a lost
connection fail; `end` and `endStreams` run on; a drain is timed by
`refusalDrainWait`; a handler whose context is cancelled (`serve` does so when the stream is
done) returns. One assumption is about the peer: while this side's reader reads, the caller
makes room for this side's writes. Nothing is assumed of a write while the reader has
stopped, which is what `served_streams_overflow` turns on. In `Inbox` a call runs on
and a `select` with a token to take takes it; nobody has to call, and no context ends. In
`LinkPubSub` each client in `Subscribe` or `Unsubscribe` runs on, the timer of its wait included,
except in a write, which the control stream must have room for;
nothing is assumed of the station or the wire, and `SubscribeReturns` leaves out a station that
stops reading for good.

## What the failing runs show

- **`RunsOnce`**: "a request runs once, whichever of the node's links it arrives on"
  (`admission.go:11-12`). A receiver reads the clock, is overtaken by another whose
  later reading sweeps the request's entry, and then admits the copy as new.
  `RerunOnlyOnStaleClock`, proved, says that this is the only way.
- **`EndGivesAllBack`**: `end` gives back "what it held" (`stream.go:693-695`). The
  reader delivers, and charges, a frame it verified before the end after the
  refund; with the handler gone nothing reads it, and the node's budget keeps it.
- **`OverflowReleases`**: the reader takes `sendMu` "never to handle a frame of a session
  it is already reading" (`stream.go:134-135`), and an overflow releases the stream
  (`stream.go:25-27`). `fail` sends under `sendMu` first, behind a handler's write that
  waits for a caller that does not read.
- **`PushersWoken`**: a pusher waits "until there is room, its context ends, or the
  inbox closes" (`inbox.go:30-31`). `close` signals room once, and a pusher that wakes to
  a closed inbox does not hand the token on, as a taker does with `ready`.
- **`RefusedKeyForgotten`**: a refused key "is stale, and keeping it would seal every later call
  to a key the provider no longer opens" (`pool/call.go:407-409`). A Call that
  names no provider remembers what it learns under the zero node, and `resealed` forgets under the
  provider's.
- **`SharedIsServed`**: `ShareContent` serves its data "until UnshareContent or Close"
  (`pool/content.go:127-128`). `forgetShared` deletes chunks that another shared root names.

## Proofs

All theorems are of the form `Spec => []P` (or an action property, or in `PromiseKept` an
abstract specification), for every value of the constants that satisfies the named
assumptions: finite sets of requests and streams, positive limits with each per-caller bound
within its total (what `AdmissionLimits.Validate` demands), an entry kept at least as long as
the past tolerance (both are five minutes), periods and tolerances that are natural numbers
with each renewal within its validity, a positive tolerance of the records' clock
(`ClockToleranceMs`; with none, the tombstone of an expired record would not outlive its own
making), delivery queues that hold at least one delivery (`BufferHolds`), a positive block size and contents
that are sequences of bytes (`ContentAssumption`), tokens whose capabilities are listed by
position and whose fault is one of the code's (`MadeAssumption`), and null values apart
from the data. The bounds of the models (`MaxSends`, `MaxFiles`, `MaxRecordTime` and so on)
are constants too, so what is proved holds for all of them. The specifications are the
components' own, without fairness; the runs check the same definitions composed.

- **`AdmissionProofs`**. `TypeCorrect`; `CountersAreExact` and `LimitsHold` from `BoundsInv`:
  a bound is checked against a counter, so the limits follow only together with
  the exactness of the counters, and that needs that an unanswered entry has no reply
  (else `store` would count bytes twice). `CopiesGetTheirOwnReply` from `ReplyInv`: an
  entry's reply comes from its own request. `RerunsNeedAStaleClock` from
  `RunInv`: a request that ran is still held, or some sweep ran with a reading past
  its time; the second with the deadline check makes a fresh reading refuse it.
- **`ServedStreamsProofs`**. `PlacesAreExact` and `PlacesAreBounded` from `PlacesInv`, with
  `Unplaced` (a stream whose open was not taken holds no place). `BothEndsMeet` from
  `EndsInv`: the mark the reader looks at (`sentEnd`) is set wherever this side's last frame
  is written, so whichever side is marked second sees the first. `InboxBudgetsAreExact` from `BytesInv`:
  a stream's `held` is the sum of its queue (`HeldExact`), and a caller's budget and the node's are
  the sums over their streams of what is queued, taken by a Recv or found by `end` and not given back yet
  (`BudgetsExact`). The sums are the community modules' folds; what the proof needs of them (a
  sum takes a member apart, is the same for equal values, a queue's sum grows by what is appended and
  falls by its head) is by induction on the size of the set.
- **`LinkProofs`**. *Caller streams*: `SessionsAreWhole` from `StreamInv`: the sessions follow each other in
  one order (`SessionInv`), the number the next frame takes is the length of the installed session's
  wire, a write under way holds `sendMu` with that number and those keys (`WireInv`), and what
  the owner asked for is the copy on a clear stream, and on an adopted one what is on the wire with
  what is left to replay (`Carries`). *Links*: `AnswersAreOwn` from `FramesInv`: a stream frame that was signed is numbered below its side's
  count. `SubscriptionsStay` and `RegistrationsGo` from `TopicInv`: while the link is up, the
  subscriptions it routes to are those of the clients that hold one, subscribe, or wait
  (`Shared`), and, until the station refuses a SUBSCRIBE or ignores an UNSUBSCRIBE, a registration it holds
  or will hold is one that some client wants or will withdraw (`Minded`). `LossesAreExcused` from `MissInv`: what is in the channel came
  after the probe emptied it, so the answer of a probe that no older pong and no deadline spoilt finds room,
  and lies there until the probe reads it; a count of one miss is of the last probe.
- **`CabiProofs`**. *Key files*: `SavedKeysSurvive` from `KeyInv`: no file put over a good one (whole,
  synced, loadable) is worse, so covering a saved file by the directory's sync keeps a good one
  at the path through any crash; what a Save has staged is as good as its stage says. What
  the loads accept follows from lemmas on the chains of checks. *Served calls*:
  `AnswersTakenAreReturned` from `AnswerInv`: the answer in a call's one place, what the binding
  was told and what the handler returned agree at each stage, so that whichever of answer and deadline
  comes second sees the first. `OwnersStrandNothing` from `OwnedInv` (an inbox made over a pool is
  the pool's to close until it is closed) and `HandlesInv` (where a thing with a handle is).
  *Inbox*: `TypeCorrect` (with the capacity), `NoWakeupLost` and `EndReportedLast`.
- **`PubSubProofs`**. `PromiseKept`: `PromiseStep` takes each step of the pool to a step of the
  promise or to none, given `CoverInv` (a covering link is an attached one that came up, a
  subscription that ended or is interrupted has none, a link's channel is closed only by the
  link's end, an attach under way (`Busy`) is on a link that came up). `LinksRemembered` from `AskedInv`: a link attached or being attached to was
  asked, a link of the first round is asked or about to be, and the replay on a later one finds
  the subscription in the pool. `NoticesGetIn` from `QueueInv`: deliveries pass the three queues in
  order, so upstream of the newest notice there are only events, and the oldest delivery a full
  queue gives up for a notice is never the newest one. `SubscriptionsEndWithPool` from `RestInv`: a
  Subscribe that failed ended its subscription, one that goes on left it to the pool, and every link
  of the first round has an attempt whose result is waited for. `GroupsArePulledAgain` and `EpochsOutliveEvents`
  from `KeyringInv`: a pull works on the group it was asked for until that one is left, no
  other is joined meanwhile, and a closed keyring holds none; a publish is stamped at most `SealDelay`
  after its epoch's last moment, which the tolerance covers (`GroupTimes`). `SeqsAreDistinct`, whatever the clock reads, from `SeqInv`: every
  seq given out is at most the shared `lastSeq`, which `SeqRises` raises at each use. `EventsComeOnce`
  from `OnceInv`: a publication that was delivered is still in the dedup or past its expiry, because
  a sweep goes by a reading that is never ahead of the clock.
- **`ServingProofs`**. `OfferIsEverywhere` and `NoRouteIsLeft` from `ServeInv`: a link's entry is that of the one
  attempt that took it or of what is served (`EntryInv`); the links Serve asked, then the links
  replayed, are covered (`CoverInv`); a link whose entry is free ends without a route, since its
  control stream is empty or ends with an UNADVERTISE, and an ADVERTISE goes only to such a link
  (`RouteInv`, for the links `NoRouteUnserved` does not except, and once Stop's withdrawal was sent). `HandlersRunOnce` and `SealedStaysSealed` from `CallInv`: nothing of a Call was sent
  before it reaches a candidate, a handler has run only when its answer is what the Call has, and each CALL
  that goes out is sealed or the first of a Call that need not be.
- **`SessionProofs`**. `SessionsAgree` from `HandshakeInv`: every CONNECT on any wire answers the challenge of
  the connection its proof names, and every accepting HELLO is of the connection whose exported keys
  it covers (`FramesFrom`), so a frame that reaches another connection fails its check. `WithdrawalsHold` and
  `AuthorizationsCover` from `RecordsInv`: what is signed is a record of its type with the type's payload that
  Sign passes, and an authorization is of two records that carry none; then `VerifyIs` and
  `SignIs` say what the checks amount to, and the rest is arithmetic on lifetimes. `MaterialAlwaysVerifies`
  from `HeldInv`: the newest statement of every binding is dated between the time it was stated
  and a tolerance after, whatever fails and however the clock moves, so that what is in force by the
  time it was stated verifies by its date.
- **`EvidenceProofs`**. `FetchesGiveWhatWasAsked` from `FetchInv`: the manifest a fetch took has the id it
  asked for, and what it holds of the chunks is bytes. A root hash tells the hashes it is folded from
  (`FoldedApart`, level by level), so a manifest with the id of shared content has its size and its number of
  chunks, and chunks that pass `Verify` against that root are the content's own blocks in their order
  (`RootTells`, `ChunksApart`). `ServedRequestsAreGranted` from `RequestInv`, whose last conjunct is the
  property: `WalkTells` follows the walk, keeping the path climbed so far (`Climbed`: every token
  on it sound, each the proof of the one below, the capability in hand covered by its own), and
  `AuthorizeTells` reads the grant off a walk that ended without a refusal.

A check chain (`Checks`) answers `"none"` when all of its checks pass. `FaultIs` is the one fact about
it the proofs rest on, by the well-foundedness of the naturals: it answers with the error of a check that
fails, or none does.

Leaves without arithmetic name Zenon: the SMT translation slows down with the number
of obligations it has seen in a module, and a trivial leaf late in a long module would time out.
For the same reason the components are grouped into modules of similar size.

The library's induction rules take the property as an operator, which none of the provers at hand
can instantiate. Where a proof needs induction over data (a manifest's levels, a chain of tokens, a sum) it is
stated of a set instead: a set of naturals that holds 0 and the next of each member is all of them
(`Induction`, from the well-foundedness of the naturals). That a recursive function is what its
definition says is proved the same way, over its finite domain (`LevelsExist`, `WholesExist`, `CallsExist`).

Only model-checked: the liveness properties (`LeavingReleases`, `DrainsReturn`, `LinkEndFinishes`,
`SubscribeReturns`, `EndReachesTakers`), which need fairness and are out of the
prover's reach; and `SentIsTaken`, whose decoder is a family of mutually recursive operators over bytes,
with widths scaled so that TLC can decode every input: a theorem about it would be about
those widths. What the failing runs show is shown by their counterexamples.

## Plan

1. `LinkPubSub` under `PoolSubscription`: the links' own registrations in place of an attach
   that succeeds or not.
2. Direct links: `linkTo`, its bound and the members' redial.
3. Concurrent `Recv` calls on one stream; cancel tokens of the C ABI.

## Not modelled

- Cryptography (`identity/node_key.go`, `post_quantum.go`, `seal/seal.go`): a signature verifies when the
  signer made it, a seal opens for the key's holder.
- Byte formats beyond CBOR's heads and the rules of the frames: `frame/codec.go`, `control.go`,
  `session.go`, the JSON of `cabi`, the texts of CBOR's negative numbers.
- The builders of record types that differ in their payload only (`node_record`,
  `station_endpoint`, `content_announcement`, `app_record`, `realm_member_endorsement`), device
  requests and ownership proofs: single signed objects without state.
- Metrics, reports and logging; the QUIC library, which is a connection that carries
  frames until it is closed; the Windows form of the key file.
- `linkTo`'s table of direct links and a member's redial delays; two concurrent `Recv`
  calls; cancel tokens.
- The test station beyond its side of CONNECT, SUBSCRIBE, ADVERTISE and the DHT's puts; the
  examples and scripts.

Observations without a run, where a comment and the code part in a way the models do not turn on:
`DialTarget` "refuses a handshake on another group or cipher suite"
(`transport/profile_dial.go:62-63`), while `checkProfileConnection` says the suite is not
checked (`:159-161`); a HELLO that refuses before CHALLENGE is reported as an unexpected frame; `Subscribe` "returns once the
station acknowledges it (macula#12), within 30 seconds" (`stationlink/pubsub.go:164-165`), while the write before that wait has no
deadline; "a pong that arrived after its probe's deadline must not take the place of this probe's"
(`stationlink/call.go:349-350`), while one that arrives between the emptying of the channel and this probe's
own answer does; `UnshareContent` while a `ShareContent` of the same data is announcing
leaves an announcement, and its renewal, of content that is no longer served.
