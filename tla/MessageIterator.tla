-------------------------- MODULE MessageIterator --------------------------
(***************************************************************************)
(* MessageIterator (go/turbodata/internal/iter/iterator.go, group.go and   *)
(* group_preloaded.go): the messages a query asks for, merged over the     *)
(* topic groups of a file.                                                 *)
(*                                                                         *)
(* A query without a ReadStrategy is served lazily, one index chunk and    *)
(* one data chunk at a time.  A cost-aware one fetches all index chunks,   *)
(* then all the data it needs, before its first message; the plan and the  *)
(* fetch are those of Planner and Fetch, and are used here by what they    *)
(* promise.  Any read may fail, and a caller may go on after an error.  A  *)
(* lazy read that fails with io.EOF, of a file that was cut off, is taken  *)
(* for the end of the group and is no error of the call.                   *)
(*                                                                         *)
(* What a file is, and what the Writer guarantees of it, is in Layout.     *)
(***************************************************************************)
EXTENDS Format, Layout

CONSTANTS
  Files,    \* the files that are read
  Queries   \* [ids, start, end, reverse, videoDecodable, costAware]

ASSUME IteratorAssumption ==
  /\ \A f \in Files : f \in Seq(Group) /\ InOrder(f) /\ Truthful(f)
  /\ Queries \subseteq [ids : SUBSET Nat, start : Int, end : Int, reverse : BOOLEAN,
                        videoDecodable : BOOLEAN, costAware : BOOLEAN]

VARIABLES
  file, query,
  pc,         \* "start", "indexes", "data": Prepare;  "idle": with the caller;
              \* "pull", "chunk", "pop": in NextInto;  "refused", "panic"
  iters,      \* the group iterators
  pulled,     \* the group whose Next is running
  heap,       \* the next message of every group that has one
  loaded,     \* initLoad is done
  popped,     \* the message NextInto will return
  ranges,     \* the byte ranges last planned, of which LoadedBytes is made
  delivered,  \* what NextInto returned so far
  result,     \* of the last NextInto: "none", "message", "eof", "error"
  failed      \* history: some read or decompression of NextInto failed

vars == <<file, query, pc, iters, pulled, heap, loaded, popped, ranges, delivered, result, failed>>

NoItem == [key |-> 0, id |-> 0, ts |-> 0, off |-> 0, len |-> 0, iter |-> 0]
NoMessage == [item |-> NoItem, bytes |-> {}]

Start ==
  /\ pc = "start"
  /\ iters = <<>>
  /\ pulled = 0
  /\ heap = <<>>
  /\ loaded = FALSE
  /\ popped = NoMessage
  /\ ranges = <<>>
  /\ delivered = <<>>
  /\ result = "none"
  /\ failed = FALSE

Init == file \in Files /\ query \in Queries /\ Start
-----------------------------------------------------------------------------
(* Prepare. *)

GroupMatches(g) == file[g].ids \cap query.ids # {}

(* Mutant: a chunk that ends where the range starts is left out. *)
ChunksAfter(g) ==
  LET c == file[g].chunks
  IN  Arranged({i \in DOMAIN c : query.start < c[i].end /\ c[i].start <= query.end})

(* The chunks of a group that the time range of the query meets. *)
Chunks(g) ==
  LET c == file[g].chunks
  IN  Arranged({i \in DOMAIN c : /\ query.start <= c[i].end
                               /\ \A j \in 1 .. i : query.start <= c[j].end => c[j].start <= query.end})

(* What sortAndFilter keeps of a chunk. *)
Kept(g, i) ==
  LET c == file[g].chunks[i]
  IN  SortAndFilter(c.topics, c.ulen, query.ids, query.start, query.end,
                    query.videoDecodable /\ file[g].video)

First(s) == IF query.reverse THEN Len(s) ELSE 1
Step == IF query.reverse THEN -1 ELSE 1

(* An iterator of a group: the chunks it visits, which one is next (of a   *)
(* preloaded group: is current), the messages kept of the current chunk,   *)
(* the cursor in them, and the chunk whose bytes its buffer holds: 0 if it *)
(* is empty, -1 if a read of it failed and it holds some bytes.            *)
Iterator(g, chunks, kept) ==
  [group |-> g, chunks |-> chunks, next |-> First(chunks), kept |-> kept, cur |-> First(kept), buf |-> 0]

Matching == Arranged({g \in DOMAIN file : GroupMatches(g)})

PrepareLazy ==
  /\ pc = "start" /\ ~query.costAware
  /\ iters' = [k \in DOMAIN Matching |->
                 [Iterator(Matching[k], Chunks(Matching[k]), <<>>) EXCEPT !.cur = 1]]
  /\ pc' = "idle"
  /\ UNCHANGED <<file, query, pulled, heap, loaded, popped, ranges, delivered, result, failed>>

Scoped == Arranged({g \in DOMAIN file : GroupMatches(g) /\ Chunks(g) # <<>>})

(* rangesA: the index chunks of all groups. *)
IndexRanges ==
  FlattenSeq([k \in DOMAIN Scoped |->
    LET g == Scoped[k]
    IN  [i \in DOMAIN Chunks(g) |-> [offset |-> file[g].chunks[Chunks(g)[i]].index, length |-> 1]]])

KeptChunks(g) == Arranged({i \in ToSet(Chunks(g)) : Kept(g, i) # <<>>})

ChunkRange(g, i) == [offset |-> file[g].chunks[i].off, length |-> file[g].chunks[i].len]
MessageRanges(g, i) ==
  [k \in DOMAIN Kept(g, i) |->
     [offset |-> file[g].chunks[i].off + Kept(g, i)[k].off, length |-> Kept(g, i)[k].len]]
RangesOf(g) ==
  LET c == KeptChunks(g)
  IN  IF file[g].compressed THEN [i \in DOMAIN c |-> ChunkRange(g, c[i])]
      ELSE FlattenSeq([i \in DOMAIN c |-> MessageRanges(g, c[i])])

(* Mutant: the groups are listed in the order they are read in. *)
DataRangesAsRead ==
  FlattenSeq([k \in DOMAIN Scoped |->
    IF query.reverse THEN Reverse(RangesOf(Scoped[k])) ELSE RangesOf(Scoped[k])])

(* rangesB: a compressed group is read by chunk, another by message. *)
DataRanges == FlattenSeq([k \in DOMAIN Scoped |-> RangesOf(Scoped[k])])

PlanIndexes ==
  /\ pc = "start" /\ query.costAware
  /\ ranges' = IndexRanges
  /\ pc' = IF Scoped = <<>> THEN "idle" ELSE "indexes"
  /\ UNCHANGED <<file, query, iters, pulled, heap, loaded, popped, delivered, result, failed>>

PlanData ==
  /\ pc = "indexes"
  /\ ranges' = DataRanges
  /\ pc' = "data"
  /\ UNCHANGED <<file, query, iters, pulled, heap, loaded, popped, delivered, result, failed>>

Preload ==
  /\ pc = "data"
  /\ LET groups == Arranged({g \in ToSet(Scoped) : KeptChunks(g) # <<>>})
         c(g) == KeptChunks(g)
     IN  iters' = [k \in DOMAIN groups |->
                     LET g == groups[k] IN Iterator(g, c(g), Kept(g, c(g)[First(c(g))]))]
  /\ pc' = "idle"
  /\ UNCHANGED <<file, query, pulled, heap, loaded, popped, ranges, delivered, result, failed>>

(* A read of either fetch fails: there is no iterator. *)
FetchFails ==
  /\ pc \in {"indexes", "data"} /\ ranges # <<>>
  /\ pc' = "refused"
  /\ UNCHANGED <<file, query, iters, pulled, heap, loaded, popped, ranges, delivered, result, failed>>
-----------------------------------------------------------------------------
(* NextInto. *)

it == iters[pulled]

(* Mutant: every call loads the first message of every group. *)
CallReloads ==
  /\ pc = "idle"
  /\ pulled' = IF iters = <<>> THEN 0 ELSE 1
  /\ pc' = IF iters = <<>> THEN "pop" ELSE "pull"
  /\ loaded' = (iters = <<>>)
  /\ result' = "none"
  /\ UNCHANGED <<file, query, iters, heap, popped, ranges, delivered, failed>>

Call ==
  /\ pc = "idle"
  /\ IF loaded THEN pulled' = 0 /\ pc' = "pop" /\ loaded' = loaded
     ELSE IF iters = <<>> THEN pulled' = 0 /\ pc' = "pop" /\ loaded' = TRUE
     ELSE pulled' = 1 /\ pc' = "pull" /\ loaded' = loaded
  /\ result' = "none"
  /\ UNCHANGED <<file, query, iters, heap, popped, ranges, delivered, failed>>

(* The bytes off .. off+len-1 of the buffer of an iterator.  If no chunk   *)
(* was completely read into it they are some bytes, written as <<0, x>>.   *)
Buffered(i, off, len) ==
  IF i.buf <= 0 THEN {<<0, x>> : x \in 0 .. len - 1}
  ELSE Bytes(file[i.group].chunks[i.buf].data, off, len)

(* LoadedBytes.Get: what was last registered at an offset, as bytes of the *)
(* file.                                                                   *)
Loaded(offset) ==
  LET at == {k \in DOMAIN ranges : ranges[k].offset = offset}
  IN  ranges[CHOOSE k \in at : \A j \in at : j <= k]
FileBytes(r) ==
  UNION {UNION {Bytes(c.data, r.offset - c.off, r.length) : c \in ToSet(file[g].chunks)}
           : g \in {h \in DOMAIN file : ~file[h].compressed}}

(* The payload of a heap item.  It is a slice of the buffer of its group,  *)
(* except in a preloaded group that is not compressed.                     *)
Payload(item) ==
  LET i == iters[item.iter]
  IN  IF query.costAware /\ ~file[i.group].compressed THEN FileBytes(Loaded(item.off))
      ELSE Buffered(i, item.off, item.len)

(* The payload is copied before its group moves on. *)
Pop ==
  /\ pc = "pop" /\ heap # <<>>
  /\ popped' = [item |-> Head(heap), bytes |-> Payload(Head(heap))]
  /\ heap' = Popped(heap)
  /\ pulled' = Head(heap).iter
  /\ pc' = "pull"
  /\ UNCHANGED <<file, query, iters, loaded, ranges, delivered, result, failed>>

Eof ==
  /\ pc = "pop" /\ heap = <<>>
  /\ result' = "eof"
  /\ pc' = "idle"
  /\ UNCHANGED <<file, query, iters, pulled, heap, loaded, popped, ranges, delivered, failed>>

(* Mutant: the payload is copied after its group has moved on. *)
ReturnedLate(p) == [id |-> p.item.id, ts |-> p.item.ts,
                    bytes |-> IF query.costAware /\ ~file[iters[p.item.iter].group].compressed THEN p.bytes
                              ELSE Buffered(iters'[p.item.iter], p.item.off, p.item.len)]

Returned(p) == [id |-> p.item.id, ts |-> p.item.ts, bytes |-> p.bytes]

(* Next of the group answered: initLoad goes on to the next group, and     *)
(* after the last one NextInto starts popping; or NextInto returns.        *)
Answered ==
  \/ /\ ~loaded /\ pulled < Len(iters)
     /\ pulled' = pulled + 1
     /\ pc' = "pull"
     /\ UNCHANGED <<loaded, delivered, popped, result>>
  \/ /\ ~loaded /\ pulled = Len(iters)
     /\ loaded' = TRUE
     /\ pulled' = 0
     /\ pc' = "pop"
     /\ UNCHANGED <<delivered, popped, result>>
  \/ /\ loaded
     /\ delivered' = Append(delivered, Returned(popped))
     /\ popped' = NoMessage
     /\ pulled' = 0
     /\ result' = "message"
     /\ pc' = "idle"
     /\ UNCHANGED loaded

(* Next of the group failed.  initLoad will start over with the first      *)
(* group; the popped message and the rest of its group are lost.           *)
Failed ==
  /\ result' = "error"
  /\ failed' = TRUE
  /\ popped' = NoMessage
  /\ pulled' = 0
  /\ pc' = "idle"
  /\ UNCHANGED <<file, query, heap, loaded, ranges, delivered>>

(* Next of the group failed with io.EOF, which its callers take for the    *)
(* end of the group.                                                       *)
EndsWithEof ==
  /\ failed' = TRUE
  /\ UNCHANGED <<file, query, heap, ranges>>
  /\ Answered

(* Mutant: the heap is in time order whatever the order of the query is. *)
ForwardKey(ts) == ts

Key(ts) == IF query.reverse THEN -ts ELSE ts

Item(m, off) == [key |-> Key(m.ts), id |-> m.id, ts |-> m.ts, off |-> off, len |-> m.len, iter |-> pulled]

EndOfGroup ==
  /\ pc = "pull"
  /\ it.cur \notin DOMAIN it.kept /\ it.next \notin DOMAIN it.chunks
  /\ UNCHANGED <<file, query, iters, heap, ranges, failed>>
  /\ Answered
-----------------------------------------------------------------------------
(* Next of a lazy group. *)

(* Mutant: the chunk is not passed by. *)
StayAtChunk(i) ==
  LET kept == Kept(i.group, i.chunks[i.next])
  IN  [i EXCEPT !.next = IF kept = <<>> THEN @ ELSE @ + Step, !.kept = kept, !.cur = First(kept)]

AfterIndex(i) ==
  LET kept == Kept(i.group, i.chunks[i.next])
  IN  [i EXCEPT !.next = @ + Step, !.kept = kept, !.cur = First(kept)]

LoadIndexChunk ==
  /\ pc = "pull" /\ ~query.costAware
  /\ it.cur \notin DOMAIN it.kept /\ it.next \in DOMAIN it.chunks
  /\ \/ /\ iters' = [iters EXCEPT ![pulled] = AfterIndex(@)]
        /\ pc' = IF iters'[pulled].kept = <<>> THEN "pull" ELSE "chunk"
        /\ UNCHANGED <<file, query, pulled, heap, loaded, popped, ranges, delivered, result, failed>>
     \/ UNCHANGED iters /\ (Failed \/ EndsWithEof)

CurrentChunk == it.chunks[it.next - Step]

(* A seek that fails leaves the buffer alone, and so does a failed read of *)
(* a compressed chunk, which goes through another buffer, but not its      *)
(* decompression.                                                          *)
LoadDataChunk ==
  /\ pc = "chunk"
  /\ \/ /\ iters' = [iters EXCEPT ![pulled].buf = CurrentChunk]
        /\ pc' = "pull"
        /\ UNCHANGED <<file, query, pulled, heap, loaded, popped, ranges, delivered, result, failed>>
     \/ UNCHANGED iters /\ (Failed \/ (EndsWithEof /\ file[it.group].compressed))
     \/ iters' = [iters EXCEPT ![pulled].buf = -1] /\ (Failed \/ (EndsWithEof /\ ~file[it.group].compressed))

(* The slice may not fit in a buffer that another chunk was read into, or  *)
(* that a decompression which failed has left.                             *)
Overruns(m) ==
  IF it.buf = -1 THEN file[it.group].compressed
  ELSE m.off + m.len > IF it.buf = 0 THEN 0 ELSE file[it.group].chunks[it.buf].ulen

(* Mutant: the cursor moves twice. *)
AdvancedTwice(i) == [i EXCEPT !.cur = @ + 2 * Step]

Advanced(i) == [i EXCEPT !.cur = @ + Step]

Serve ==
  /\ pc = "pull" /\ ~query.costAware /\ it.cur \in DOMAIN it.kept
  /\ LET m == it.kept[it.cur]
     IN  /\ Overruns(m) => it.buf # 0    \* a buffer may be larger than its chunk
         /\ heap' = Pushed(heap, Item(m, m.off))
  /\ iters' = [iters EXCEPT ![pulled] = Advanced(@)]
  /\ Answered
  /\ UNCHANGED <<file, query, ranges, failed>>

Panic ==
  /\ pc = "pull" /\ ~query.costAware /\ it.cur \in DOMAIN it.kept
  /\ Overruns(it.kept[it.cur])
  /\ pc' = "panic"
  /\ UNCHANGED <<file, query, iters, pulled, heap, loaded, popped, ranges, delivered, result, failed>>
-----------------------------------------------------------------------------
(* Next of a preloaded group. *)

(* Mutant: the messages of the next chunk are read from the first one on. *)
AdvanceChunkForward ==
  /\ pc = "pull" /\ query.costAware
  /\ it.cur \notin DOMAIN it.kept /\ it.next \in DOMAIN it.chunks
  /\ LET next == it.next + Step
         kept == IF next \in DOMAIN it.chunks THEN Kept(it.group, it.chunks[next]) ELSE <<>>
     IN  iters' = [iters EXCEPT ![pulled] = [@ EXCEPT !.next = next, !.kept = kept, !.cur = 1]]
  /\ UNCHANGED <<file, query, pc, pulled, heap, loaded, popped, ranges, delivered, result, failed>>

AdvanceChunk ==
  /\ pc = "pull" /\ query.costAware
  /\ it.cur \notin DOMAIN it.kept /\ it.next \in DOMAIN it.chunks
  /\ LET next == it.next + Step
         kept == IF next \in DOMAIN it.chunks THEN Kept(it.group, it.chunks[next]) ELSE <<>>
     IN  iters' = [iters EXCEPT ![pulled] = [@ EXCEPT !.next = next, !.kept = kept, !.cur = First(kept)]]
  /\ UNCHANGED <<file, query, pc, pulled, heap, loaded, popped, ranges, delivered, result, failed>>

ServePreloaded ==
  /\ pc = "pull" /\ query.costAware /\ it.cur \in DOMAIN it.kept
  /\ LET m == it.kept[it.cur]
         c == it.chunks[it.next]
         compressed == file[it.group].compressed
     IN  /\ iters' = [iters EXCEPT ![pulled] =
                        [Advanced(it) EXCEPT !.buf = IF compressed THEN c ELSE it.buf]]
         /\ heap' = Pushed(heap, Item(m, IF compressed THEN m.off ELSE file[it.group].chunks[c].off + m.off))
  /\ Answered
  /\ UNCHANGED <<file, query, ranges, failed>>

(* A chunk that is met for the first time cannot be decompressed: bytes    *)
(* may be in the buffer, which is not taken for that chunk's.              *)
DecompressFails ==
  /\ pc = "pull" /\ query.costAware /\ it.cur \in DOMAIN it.kept
  /\ file[it.group].compressed /\ it.buf # it.chunks[it.next]
  /\ Failed
  /\ UNCHANGED iters \/ iters' = [iters EXCEPT ![pulled].buf = -1]
-----------------------------------------------------------------------------
(* ReadMessages returned an error, or the process is gone. *)
Over == pc \in {"refused", "panic"} /\ UNCHANGED vars

Prepare == PrepareLazy \/ PlanIndexes \/ PlanData \/ Preload \/ FetchFails
Answer  == \/ Pop \/ Eof \/ EndOfGroup
           \/ LoadIndexChunk \/ LoadDataChunk \/ Serve \/ Panic
           \/ AdvanceChunk \/ ServePreloaded \/ DecompressFails

Next == Prepare \/ Call \/ Answer \/ Over

Spec == Init /\ [][Next]_vars
-----------------------------------------------------------------------------
(* Cursors stay within one place of what they walk over, and every heap    *)
(* item belongs to an iterator.                                            *)
TypeOK ==
  /\ pc \in {"start", "indexes", "data", "idle", "pull", "chunk", "pop", "refused", "panic"}
  /\ result \in {"none", "message", "eof", "error"}
  /\ loaded \in BOOLEAN
  /\ pulled \in 0 .. Len(iters)
  /\ pc \in {"pull", "chunk"} => pulled # 0
  /\ \A k \in DOMAIN iters :
       LET i == iters[k] IN
         /\ i.group \in DOMAIN file
         /\ ToSet(i.chunks) \subseteq DOMAIN file[i.group].chunks
         /\ i.next \in 0 .. Len(i.chunks) + 1
         /\ ~failed /\ pc # "chunk" => i.cur \in 0 .. Len(i.kept) + 1
         /\ i.buf \in {-1, 0} \cup ToSet(i.chunks)
  /\ \A k \in DOMAIN heap : heap[k].iter \in DOMAIN iters /\ heap[k].id \in file[iters[heap[k].iter].group].ids
  /\ \A k \in DOMAIN ranges : ranges[k].offset \in Nat /\ ranges[k].length \in Nat

Frames(g) == UNION {ToSet(c.msgs) : c \in ToSet(file[g].chunks)}

(* The times of the key frames at or before the start of the range, of a   *)
(* group that is to be decoded.                                            *)
Anchors(g) ==
  {m.ts : m \in {n \in Frames(g) : /\ query.videoDecodable /\ file[g].video
                                   /\ n.key /\ n.ts <= query.start}}

(* The messages a query asks for, by the documentation of the options: a   *)
(* message in the time range, whose start is moved back to the latest key  *)
(* frame of the group at or before it (WithVideoDecodable).                *)
Asked(g, m) ==
  /\ m.id \in query.ids /\ m.ts <= query.end
  /\ m.ts >= query.start \/ (Anchors(g) # {} /\ \A t \in Anchors(g) : t <= m.ts)

(* What the code does that only if: the chunk of that key frame meets the  *)
(* range, and the chunks before it end before the key frame.  A start      *)
(* between two chunks, or after the last, loses the anchor (SnapsBack).    *)
AnchorIsRead(g) ==
  Anchors(g) # {} =>
    \E i \in DOMAIN file[g].chunks :
      LET c == file[g].chunks IN
        /\ query.start <= c[i].end
        /\ \E m \in ToSet(c[i].msgs) : /\ m.key /\ m.ts \in Anchors(g) /\ \A t \in Anchors(g) : t <= m.ts
                                       /\ \A j \in 1 .. i - 1 : c[j].end < m.ts

(* Of a group that loses it, only messages of the range itself are judged. *)
Judged(g, ts) == AnchorIsRead(g) \/ query.start <= ts

(* A message as the caller is to get it. *)
Own(n, len) == {<<n, x>> : x \in 0 .. len - 1}
Record(m) == [id |-> m.id, ts |-> m.ts, bytes |-> Own(m.n, m.len)]

Expected(g, id) ==
  LET all == FlattenSeq([i \in DOMAIN file[g].chunks |->
               LET m == file[g].chunks[i].msgs
               IN  Picked(m, {q \in DOMAIN m : m[q].id = id /\ Asked(g, m[q]) /\ Judged(g, m[q].ts)})])
      message == [k \in DOMAIN all |-> Record(all[k])]
  IN  IF query.reverse THEN Reverse(message) ELSE message

Of(id) == Picked(delivered, {k \in DOMAIN delivered : delivered[k].id = id})
JudgedOf(g, id) == Picked(Of(id), {k \in DOMAIN Of(id) : Judged(g, Of(id)[k].ts)})

(* The bytes of a message of no bytes and of the one after it are swapped  *)
(* if they are of two topics (EveryMessageItsBytes of Writer), and are     *)
(* those of the latter for both if ranges are looked up (PathsAgree).      *)
BytesKept(g) ==
  \A c \in ToSet(file[g].chunks) :
    /\ \A t, u \in DOMAIN c.topics : t # u => ToSet(Offs(c.topics[t].msgs)) \cap ToSet(Offs(c.topics[u].msgs)) = {}
    /\ query.costAware /\ ~file[g].compressed => \A m \in ToSet(c.msgs) : m.len > 0
Shown(g, s) == IF BytesKept(g) THEN s ELSE [k \in DOMAIN s |-> [s[k] EXCEPT !.bytes = {}]]

(* End of file is complete: as long as no read has failed, a topic's       *)
(* messages come in the order they were written, each with its own bytes,  *)
(* and after io.EOF none of those the query asks for is missing.  Of the   *)
(* known exceptions, a failed read is that of EofHidesNothing, Judged that *)
(* of SnapsBack, and Shown leaves out bytes that are not kept apart.       *)
EofMeansAll ==
  ~failed => \A g \in DOMAIN file : \A id \in file[g].ids :
    /\ IsPrefix(Shown(g, JudgedOf(g, id)), Shown(g, Expected(g, id)))
    /\ result = "eof" => Shown(g, JudgedOf(g, id)) = Shown(g, Expected(g, id))

(* The merged stream is in time order. *)
TimeOrdered ==
  \A k \in 1 .. Len(delivered) - 1 : Key(delivered[k].ts) <= Key(delivered[k + 1].ts)
TiesInFile == \A g \in DOMAIN file : \A c \in ToSet(file[g].chunks) : TiesAgree(c)

(* What makes it safe that a heap item is a slice of its group's buffer: a *)
(* group has no second item, and the one it has is in the buffer.          *)
OneItemPerGroup ==
  ~failed =>
    /\ \A j, k \in DOMAIN heap : heap[j].iter = heap[k].iter => j = k
    /\ pc = "pop" /\ loaded =>
         \A k \in DOMAIN iters :
           (\E j \in DOMAIN heap : heap[j].iter = k) \/ iters[k].cur \notin DOMAIN iters[k].kept

(* No other frame has the time of a key frame. *)
KeysApart(g) == \A m, n \in Frames(g) : m.key /\ m.ts = n.ts => m = n

(* WithVideoDecodable: a decoder can start with the first frame it is      *)
(* given, a key frame; and it is the latest one at or before the start of  *)
(* the range, if there is one and its chunk is read.                       *)
DecodableCold ==
  query.videoDecodable /\ ~query.reverse /\ ~failed =>
    \A g \in DOMAIN file : \A id \in file[g].ids :
      file[g].video /\ KeysApart(g) /\ Of(id) # <<>> =>
        \E m \in Frames(g) :
          /\ m.key /\ Of(id)[1] = Record(m)
          /\ AnchorIsRead(g) /\ Anchors(g) # {} => m.ts \in Anchors(g) /\ \A t \in Anchors(g) : t <= m.ts

(* What the documentation says of every start: the first frame is the      *)
(* latest key frame at or before it.  A start between two chunks of a      *)
(* video is after the end of the one that has the key frame, which is left *)
(* out.                                                                    *)
SnapsBack ==
  query.videoDecodable /\ ~query.reverse /\ ~failed =>
    \A g \in DOMAIN file : \A id \in file[g].ids :
      Anchors(g) # {} /\ Of(id) # <<>> =>
        \E m \in Frames(g) :
          m.key /\ Of(id)[1] = Record(m) /\ m.ts \in Anchors(g) /\ \A t \in Anchors(g) : t <= m.ts

(* The precondition of Plan holds by construction: the ranges of both      *)
(* fetches are in the order of their offsets.                              *)
PlanPrecondition ==
  \A k \in 1 .. Len(ranges) - 1 : ranges[k].offset <= ranges[k + 1].offset

(* What is left to do in a call: groups to load first, then the pop and    *)
(* the group of the popped message, in one order or the other, by chunks.  *)
Todo(popFirst) ==
  LET groups == IF loaded THEN 0 ELSE Len(iters) + 1 - pulled
      phase  == IF pc \notin {"pull", "chunk", "pop"} THEN 0
                ELSE IF (pc = "pop") = popFirst THEN 2 ELSE 1
      chunks == IF pulled = 0 THEN 0 ELSE IF query.reverse THEN it.next ELSE Len(it.chunks) + 1 - it.next
      bound  == 3 + 2 * FoldLeft(LAMBDA n, i : n + Len(i.chunks) + 1, 0, iters)
  IN  bound * (3 * groups + phase) + 2 * chunks + IF pc = "chunk" THEN 1 ELSE 0
=============================================================================
