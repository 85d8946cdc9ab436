------------------------------ MODULE Content ------------------------------
(* Node-served content (pool/content.go over manifest/manifest.go).  A node  *)
(* keeps the roots and the chunks of what it shares, announces each root and *)
(* renews the announcement; a fetcher asks one announcing sharer at a time,  *)
(* and checks everything it is given, as a sharer may give anything.  Bytes  *)
(* are small numbers, a hash is the term it is of, and MaxBlock is the most  *)
(* bytes of one block and of one chunk.                                      *)
EXTENDS Integers, Sequences, FiniteSets

CONSTANTS Shared,      \* what is shared and fetched, as sequences of bytes
          Lies,        \* what is wrong with a sharer's manifest
          Blocks,      \* the blocks a sharer may give for any other
          MaxBlock, MaxBytes, MaxChunks,
          Op,          \* calls of ShareContent, each made once
          Worker       \* the fetchers of one fetchParts

VARIABLES
  roots, chunks,   \* sharedRealm.roots and .chunks
  announcements,   \* sharedRealm.announcements: the call that announced, or "none"
  ops,             \* each call of ShareContent: what it shares, and how far it is
  renewers,        \* the renewals that run: [of, by]
  stopped,         \* the announcements whose stop is closed
  records,         \* the DHT's record of each root: "none", "announced", "withdrawn"
  fetch            \* the fetch under way

ctvars == <<roots, chunks, announcements, ops, renewers, stopped, records, fetch>>

-----------------------------------------------------------------------------
(* Manifests *)

ASSUME ContentAssumption == /\ MaxBlock \in Nat \ {0}
                            /\ Shared \subseteq Seq(Nat) /\ Blocks \subseteq Seq(Nat)

(* doChunk: cut every MaxBlock bytes, the last block as long as what is left. *)
doChunk(data) == [i \in 1..((Len(data) + MaxBlock - 1) \div MaxBlock) |->
                    SubSeq(data, (i - 1) * MaxBlock + 1,
                           IF i * MaxBlock > Len(data) THEN Len(data) ELSE i * MaxBlock)]

hash(block) == <<"block", block>>

(* combine: pairs from the front, an odd one at the end with itself.         *)
combine(hs) == [i \in 1..(Len(hs) + 1) \div 2 |->
                  <<"pair", hs[2 * i - 1], IF 2 * i <= Len(hs) THEN hs[2 * i] ELSE hs[2 * i - 1]>>]

(* The hashes left when they are combined until one is: each pass but the    *)
(* last leaves fewer, so there are fewer passes than hashes.                 *)
folded(hs) == LET level[n \in 0..Len(hs)] ==
                    IF n = 0 THEN hs
                    ELSE LET below == level[n - 1]
                         IN  IF Len(below) > 1 THEN combine(below) ELSE below
              IN  level[Len(hs)][1]
rootHashFor(hs) == IF hs = <<>> THEN hash(<<>>) ELSE folded(hs)

makeChunkInfos(cut) == [i \in 1..Len(cut) |-> [index |-> i, offset |-> (i - 1) * MaxBlock,
                                               size |-> Len(cut[i]), hash |-> hash(cut[i])]]
Hashes(infos) == [i \in 1..Len(infos) |-> infos[i].hash]

createWithCreated(data) == LET infos == makeChunkInfos(doChunk(data))
                IN  [size |-> Len(data), count |-> Len(infos), chunk_size |-> MaxBlock,
                     root |-> rootHashFor(Hashes(infos)), chunks |-> infos]

(* computeMcid: over the manifest's fields, and not its chunks.              *)
McidFor(m) == <<"manifest", m.size, m.chunk_size, m.count, m.root>>
BlockMcid(block) == <<"raw", hash(block)>>
IsBlock(data) == Len(data) <= MaxBlock
Mcid(data) == IF IsBlock(data) THEN BlockMcid(data) ELSE McidFor(createWithCreated(data))

chunksFor(m) == (m.size + m.chunk_size - 1) \div m.chunk_size
cutAt(c, i, m) == LET left == m.size - (i - 1) * m.chunk_size
                  IN  /\ c.index = i /\ c.offset = (i - 1) * m.chunk_size /\ c.size > 0
                      /\ c.size = IF left < m.chunk_size THEN left ELSE m.chunk_size
CheckWhole(m) == /\ m.chunk_size > 0 /\ m.count = Len(m.chunks) /\ m.count = chunksFor(m)
                 /\ \A i \in 1..Len(m.chunks) : cutAt(m.chunks[i], i, m)

(* Mutant: the bytes the chunks make are not checked against the manifest.   *)
VerifyAnything(m, data) == TRUE
(* Verify: the size, and the root hash of the data cut again.                *)
Verify(m, data) == /\ Len(data) = m.size
                   /\ rootHashFor(Hashes(makeChunkInfos(doChunk(data)))) = m.root

(* The manifest of data as a sharer gives it, with what is wrong with it.    *)
Manifests(data) ==
  LET m == createWithCreated(data)
  IN  [none |-> m, size |-> [m EXCEPT !.size = @ + 1], root |-> [m EXCEPT !.root = hash(<<>>)],
       count |-> [m EXCEPT !.count = @ - 1], short |-> [m EXCEPT !.chunks = Tail(@)],
       chunk |-> [m EXCEPT !.chunks[1].hash = hash(CHOOSE b \in Blocks : Len(b) = MaxBlock)],
       offset |-> [m EXCEPT !.chunks[1].offset = 1]]

-----------------------------------------------------------------------------
(* The sharer *)

ChunksOf(data) == IF IsBlock(data) THEN {} ELSE {doChunk(data)[i] : i \in 1..Len(doChunk(data))}

ShareKeeps(o, data) ==
  /\ ops[o].step = "idle"
  /\ roots' = roots \union {data}
  /\ chunks' = chunks \union ChunksOf(data)
  /\ ops' = [ops EXCEPT ![o] = [step |-> IF announcements[data] = "none" THEN "announcing" ELSE "done",
                                of |-> data]]
  /\ UNCHANGED <<announcements, renewers, stopped, records, fetch>>

AnnounceContent(o) ==
  /\ ops[o].step = "announcing"
  /\ records' = [records EXCEPT ![ops[o].of] = "announced"]
  /\ ops' = [ops EXCEPT ![o].step = "announced"]
  /\ UNCHANGED <<roots, chunks, announcements, renewers, stopped, fetch>>

ShareInstalls(o) ==
  /\ ops[o].step = "announced"
  /\ announcements' = [announcements EXCEPT ![ops[o].of] = o]
  /\ renewers' = renewers \union {[of |-> ops[o].of, by |-> o, putting |-> FALSE]}
  /\ ops' = [ops EXCEPT ![o].step = "done"]
  /\ UNCHANGED <<roots, chunks, stopped, records, fetch>>

forgetShared(data) ==
  /\ roots' = roots \ {data}
  /\ chunks' = IF data \in roots THEN chunks \ ChunksOf(data) ELSE chunks
  /\ announcements' = [announcements EXCEPT ![data] = "none"]

ShareFails(o) ==
  /\ ops[o].step \in {"announcing", "announced"}    \* the put fails, or only its answer
  /\ forgetShared(ops[o].of)
  /\ ops' = [ops EXCEPT ![o].step = "done"]
  /\ UNCHANGED <<renewers, stopped, records, fetch>>

(* UnshareContent: what is kept is dropped; with an announcement, its        *)
(* renewal is told to stop, and the tombstone is put after that, and may     *)
(* fail.  A share still being announced has no announcement to withdraw.     *)
UnshareContent(o, data) ==
  /\ ops[o].step = "idle"
  /\ forgetShared(data)
  /\ \/ /\ announcements[data] = "none"
        /\ ops' = [ops EXCEPT ![o] = [step |-> "unshared", of |-> data]]
        /\ UNCHANGED stopped
     \/ /\ announcements[data] # "none"
        /\ stopped' = stopped \union {announcements[data]}
        /\ ops' = [ops EXCEPT ![o] = [step |-> "withdrawing", of |-> data]]
  /\ UNCHANGED <<renewers, records, fetch>>

Withdrawn(o) ==
  /\ ops[o].step = "withdrawing"
  /\ records' \in {records, [records EXCEPT ![ops[o].of] = "withdrawn"]}
  /\ ops' = [ops EXCEPT ![o].step = "done"]
  /\ UNCHANGED <<roots, chunks, announcements, renewers, stopped, fetch>>

(* renewAnnouncement: half a lifetime passes, or stop is closed first; the   *)
(* announcement is put, and one that fails is put again the next time.       *)
RenewStops(r) == /\ ~r.putting /\ r.by \in stopped
                 /\ renewers' = renewers \ {r}
                 /\ UNCHANGED <<roots, chunks, announcements, ops, stopped, records, fetch>>

RenewBegins(r) == /\ ~r.putting
                  /\ renewers' = (renewers \ {r}) \union {[r EXCEPT !.putting = TRUE]}
                  /\ UNCHANGED <<roots, chunks, announcements, ops, stopped, records, fetch>>

RenewPuts(r) == /\ r.putting
                /\ records' \in {records, [records EXCEPT ![r.of] = "announced"]}
                /\ renewers' = (renewers \ {r}) \union {[r EXCEPT !.putting = FALSE]}
                /\ UNCHANGED <<roots, chunks, announcements, ops, stopped, fetch>>

-----------------------------------------------------------------------------
(* The fetcher *)

NoFetch == [step |-> "none"]
Answered(result) == fetch' = [step |-> "done", of |-> fetch.of, result |-> result]

(* GetContent: the sharers that announce the content, this node and another. *)
GetContent(data) ==
  /\ fetch = NoFetch
  /\ fetch' = IF records[data] = "announced"
              THEN [step |-> "next", of |-> data, left |-> {"this", "other"}]
              ELSE [step |-> "not_shared"]
  /\ UNCHANGED <<roots, chunks, announcements, ops, renewers, stopped, records>>

NextSharer ==
  /\ fetch.step = "next"
  /\ IF fetch.left = {} THEN fetch' = [step |-> "unavailable"]
     ELSE \E s \in fetch.left :
            fetch' = [step |-> "root", of |-> fetch.of, left |-> fetch.left \ {s}, from |-> s]
  /\ UNCHANGED <<roots, chunks, announcements, ops, renewers, stopped, records>>

SharerFails == fetch' = [step |-> "next", of |-> fetch.of, left |-> fetch.left]

(* The bodies the sharer asked may answer with: what it keeps, if it keeps   *)
(* it; anything, when it is another.                                         *)
RootBodies == IF fetch.from = "other"
              THEN {[kind |-> "block", bytes |-> b] : b \in Blocks}
                     \union (IF IsBlock(fetch.of) THEN {}
                             ELSE {[kind |-> "manifest", m |-> Manifests(fetch.of)[l]] : l \in Lies})
              ELSE IF fetch.of \notin roots THEN {}
              ELSE IF IsBlock(fetch.of) THEN {[kind |-> "block", bytes |-> fetch.of]}
              ELSE {[kind |-> "manifest", m |-> createWithCreated(fetch.of)]}

ChunkBodies(h) == IF fetch.from = "other" THEN Blocks ELSE {b \in chunks : hash(b) = h}

(* fetchOne takes a body of the kind asked for, within a block's size.       *)
Taken(body) == body.kind = "manifest" \/ Len(body.bytes) <= MaxBlock

ManifestTaken(m, mcid) == /\ CheckWhole(m)                     \* FromWire
                          /\ McidFor(m) = mcid                 \* VerifyMcid
                          /\ m.size <= MaxBytes /\ m.count <= MaxChunks

RootAnswered ==
  /\ fetch.step = "root"
  /\ \/ SharerFails                     \* no stream, no answer in time, not_shared
     \/ \E body \in RootBodies :
          IF ~Taken(body) THEN SharerFails
          ELSE IF body.kind = "block"
          THEN IF BlockMcid(body.bytes) = Mcid(fetch.of) THEN Answered(body.bytes) ELSE SharerFails
          ELSE IF ~ManifestTaken(body.m, Mcid(fetch.of)) THEN SharerFails
          ELSE fetch' = [step |-> "parts", of |-> fetch.of, left |-> fetch.left, from |-> fetch.from,
                         m |-> body.m, parts |-> [i \in 1..body.m.count |-> <<>>],
                         fed |-> 0, at |-> [w \in Worker |-> 0], closed |-> FALSE,
                         cancelled |-> FALSE]
  /\ UNCHANGED <<roots, chunks, announcements, ops, renewers, stopped, records>>

(* feedChunks hands the next index to a worker that waits for one; it may do *)
(* so once more after the fetch was cancelled.                               *)
feedChunks(w) ==
  /\ fetch.step = "parts" /\ ~fetch.closed /\ fetch.at[w] = 0
  /\ fetch' = [fetch EXCEPT !.fed = @ + 1, !.at[w] = fetch.fed + 1,
                            !.closed = fetch.cancelled \/ fetch.fed + 1 = fetch.m.count]
  /\ UNCHANGED <<roots, chunks, announcements, ops, renewers, stopped, records>>

FeedStops == /\ fetch.step = "parts" /\ ~fetch.closed /\ fetch.cancelled
             /\ fetch' = [fetch EXCEPT !.closed = TRUE]
             /\ UNCHANGED <<roots, chunks, announcements, ops, renewers, stopped, records>>

fetchChunk(w) ==
  /\ fetch.step = "parts" /\ fetch.at[w] # 0
  /\ LET i == fetch.at[w]
         h == fetch.m.chunks[i].hash
     IN  fetch' \in {[fetch EXCEPT !.at[w] = 0, !.cancelled = TRUE]}
           \union {IF hash(b) = h /\ Len(b) <= MaxBlock
                   THEN [fetch EXCEPT !.at[w] = 0, !.parts[i] = b]
                   ELSE [fetch EXCEPT !.at[w] = 0, !.cancelled = TRUE] :
                     b \in {b \in ChunkBodies(h) : ~fetch.cancelled}}
  /\ UNCHANGED <<roots, chunks, announcements, ops, renewers, stopped, records>>

Joined(parts) == LET whole[n \in 0..Len(parts)] == IF n = 0 THEN <<>> ELSE whole[n - 1] \o parts[n]
                 IN  whole[Len(parts)]

fetchChunks ==
  /\ fetch.step = "parts" /\ fetch.closed /\ \A w \in Worker : fetch.at[w] = 0
  /\ IF ~fetch.cancelled /\ Verify(fetch.m, Joined(fetch.parts))
     THEN Answered(Joined(fetch.parts)) ELSE SharerFails
  /\ UNCHANGED <<roots, chunks, announcements, ops, renewers, stopped, records>>

CtInit == /\ roots = {} /\ chunks = {} /\ renewers = {} /\ stopped = {}
          /\ announcements = [d \in Shared |-> "none"]
          /\ records = [d \in Shared |-> "none"]
          /\ ops = [o \in Op |-> [step |-> "idle"]]
          /\ fetch = NoFetch

CtNext == \/ \E o \in Op : \/ \E d \in Shared : ShareKeeps(o, d) \/ UnshareContent(o, d)
                           \/ AnnounceContent(o) \/ ShareInstalls(o) \/ ShareFails(o) \/ Withdrawn(o)
          \/ \E r \in renewers : RenewStops(r) \/ RenewBegins(r) \/ RenewPuts(r)
          \/ \E d \in Shared : GetContent(d)
          \/ NextSharer \/ RootAnswered \/ FeedStops \/ fetchChunks
          \/ \E w \in Worker : feedChunks(w) \/ fetchChunk(w)

CtSpec == CtInit /\ [][CtNext]_ctvars
-----------------------------------------------------------------------------
(* Whatever the sharers answer, in whatever order the chunks arrive, a fetch *)
(* gives the bytes that were shared under the content id, or an error.       *)
FetchedIsAsked == fetch.step = "done" => fetch.result = fetch.of

(* Content is served whole from when ShareContent announced it until         *)
(* UnshareContent or Close.  It is not: forgetShared drops the chunks of one *)
(* root though another names them, and a share that cannot be announced      *)
(* takes the root from under one that was.                                   *)
SharedIsServed ==
  \A d \in Shared : /\ announcements[d] # "none"
                    /\ \A o \in Op : ops[o] # [step |-> "unshared", of |-> d]
                    => d \in roots /\ ChunksOf(d) \subseteq chunks
=============================================================================
