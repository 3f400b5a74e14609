------------------------------ MODULE Sampler ------------------------------
(***************************************************************************)
(* The sampling engine (go/turbodata/internal/iter/sample.go): for every   *)
(* query, a topic and ascending timestamps, the last message of the topic  *)
(* that is not after each timestamp.                                       *)
(*                                                                         *)
(* Phase A finds the messages, in waves.  A wave fetches the index chunks  *)
(* that are candidates and not yet cached, and looks every pending         *)
(* timestamp up; one that precedes the topic's messages in its chunk goes  *)
(* on to the chunk before in the next wave.  Phase B reads the data of all *)
(* messages found at once.  The plans and the fetches are those of Planner *)
(* and Fetch, used by what they promise: all ranges, or an error.          *)
(*                                                                         *)
(* Files are as in MessageIterator.  A cell <<q, j>> is the j-th timestamp *)
(* of query q; what the code keeps in lists is a function of the cells.    *)
(***************************************************************************)
EXTENDS Format, Layout

(* What the engine relies on in a file of the Writer: time ascends, within *)
(* chunks and from one to the next, a chunk starts with its first message, *)
(* and a chunk of a video with a key frame.                                *)
Sampleable(f) ==
  /\ f \in Seq(Group)
  /\ \A g \in DOMAIN f :
       /\ Ascending(Starts(f[g].chunks))
       /\ ~(f[g].compressed /\ f[g].video)
       /\ \A c \in ToSet(f[g].chunks) : \A t \in ToSet(c.topics) :
            /\ Ascending(Stamps(t.msgs)) /\ Ascending(t.keys)
            /\ \A k \in DOMAIN t.msgs : c.start <= t.msgs[k].ts
            /\ f[g].video => t.keys # <<>> /\ t.keys[1] = 0

(* And in the queries of a call, sequences of [id, ts], which its callers  *)
(* check: timestamps strictly increase, and a topic is asked for once.     *)
Askable(f, a) ==
  /\ a \in Seq([id : Nat, ts : Seq(Int)])
  /\ \A q \in DOMAIN a : /\ \A j \in 1 .. Len(a[q].ts) - 1 : a[q].ts[j] < a[q].ts[j + 1]
                        /\ \E g \in DOMAIN f : a[q].id \in f[g].ids
  /\ \A p, q \in DOMAIN a : a[p].id = a[q].id => p = q

VARIABLES
  file, specs, videoDecodable,   \* the arguments
  stage,      \* "start"; "wave", "index", "walk": phase A; "data": phase B; "done", "failed"
  pending,    \* the candidate chunk of a cell, 0 if it is not pending
  resolved,   \* where the message of a cell was found: [chunk, key, target]
  cached,     \* the index chunks decoded so far, <<group, chunk>>
  ranges,     \* the data ranges that were fetched
  results     \* the hits

sampleVars == <<file, specs, videoDecodable, stage, pending, resolved, cached, ranges, results>>
arguments == <<file, specs, videoDecodable>>

Cells == UNION {{<<q, j>> : j \in DOMAIN specs[q].ts} : q \in DOMAIN specs}
Id(x) == specs[x[1]].id
T(x) == specs[x[1]].ts[x[2]]

NotFound == [chunk |-> 0, key |-> 0, target |-> 0]
NoHit == [found |-> FALSE, ts |-> 0, video |-> FALSE, bytes |-> {}, frames |-> <<>>, reset |-> FALSE]

SampleStart ==
  /\ stage = "start"
  /\ pending = [x \in Cells |-> 0]
  /\ resolved = [x \in Cells |-> NotFound]
  /\ cached = {}
  /\ ranges = {}
  /\ results = [x \in Cells |-> NoHit]

-----------------------------------------------------------------------------
(* What is known of a cell: its group, and the index of its topic in a     *)
(* chunk, which is empty if the chunk does not have the topic.             *)
GroupOf(x) == CHOOSE g \in DOMAIN file : Id(x) \in file[g].ids
ChunksOf(x) == file[GroupOf(x)].chunks
IsVideo(x) == file[GroupOf(x)].video /\ videoDecodable
IndexIn(x, c) ==
  LET here == {t \in ToSet(ChunksOf(x)[c].topics) : t.id = Id(x)}
  IN  IF here = {} THEN [id |-> Id(x), msgs |-> <<>>, keys |-> <<>>] ELSE CHOOSE t \in here : TRUE
Entries(x, c) == IndexIn(x, c).msgs

(* Mutant: the cursor stops at an equal timestamp. *)
Before(times, limit) ==
  CHOOSE n \in 0 .. Len(times) : /\ \A j \in 1 .. n : times[j] < limit
                                 /\ n < Len(times) => times[n + 1] >= limit

(* A forward cursor over ascending values: it stops before the first one   *)
(* that is above the limit.                                                *)
Upto(times, limit) ==
  CHOOSE n \in 0 .. Len(times) : /\ \A j \in 1 .. n : times[j] <= limit
                                 /\ n < Len(times) => times[n + 1] > limit

(* assignInitialCandidates: the last chunk that starts by then, or none. *)
Assign ==
  /\ stage = "start"
  /\ pending' = [x \in Cells |-> Upto(Starts(ChunksOf(x)), T(x))]
  /\ stage' = "wave"
  /\ UNCHANGED <<arguments, resolved, cached, ranges, results>>
-----------------------------------------------------------------------------
(* Phase A. *)

Pending == {x \in Cells : pending[x] # 0}
KeyOf(x) == <<GroupOf(x), pending[x]>>
Needs == {KeyOf(x) : x \in Pending} \ cached

Gather ==
  /\ stage = "wave" /\ Pending # {}
  /\ stage' = IF Needs = {} THEN "walk" ELSE "index"
  /\ UNCHANGED <<arguments, pending, resolved, cached, ranges, results>>

FetchIndexes ==
  /\ stage = "index"
  /\ cached' = cached \cup Needs
  /\ stage' = "walk"
  /\ UNCHANGED <<arguments, pending, resolved, ranges, results>>

(* Where the message of a pending cell is in its candidate, 0 if it is not *)
(* there, and the last key frame up to it.                                 *)
Target(x) == Upto(Stamps(Entries(x, pending[x])), T(x))
Anchor(x) ==
  LET keys == IndexIn(x, pending[x]).keys
      n == Upto(keys, Target(x) - 1)
  IN  IF n = 0 THEN 0 ELSE keys[n] + 1

Looked(x) == pending[x] # 0 /\ KeyOf(x) \in cached

(* Mutant: the cell stays with its chunk. *)
Stuck(x) == IF Looked(x) /\ Target(x) # 0 THEN 0 ELSE pending[x]

(* A cell that was looked up and not found falls back to the chunk before, *)
(* and before the first chunk there is nothing.                            *)
FallBack(x) ==
  IF ~Looked(x) THEN pending[x] ELSE IF Target(x) = 0 THEN pending[x] - 1 ELSE 0

(* A video frame without a key frame is as good as none. *)
Resolve(x) ==
  IF Looked(x) /\ Target(x) # 0 /\ (IsVideo(x) => Anchor(x) # 0)
  THEN [chunk |-> pending[x], key |-> IF IsVideo(x) THEN Anchor(x) ELSE 0, target |-> Target(x)]
  ELSE resolved[x]

Walk ==
  /\ stage = "walk"
  /\ pending' = [x \in Cells |-> FallBack(x)]
  /\ resolved' = [x \in Cells |-> Resolve(x)]
  /\ stage' = IF \E x \in Cells : Looked(x) THEN "wave" ELSE "failed"
  /\ UNCHANGED <<arguments, cached, ranges, results>>
-----------------------------------------------------------------------------
(* Phase B. *)

Found == {x \in Cells : resolved[x] # NotFound}
At(x) == ChunksOf(x)[resolved[x].chunk]
EntryOf(x, k) == Entries(x, resolved[x].chunk)[k]

(* perTopicLens: the length of the k-th message of a topic in a chunk. *)
LengthIn(c, id, k) ==
  LET sorted == Merged(c.topics)
      p == CHOOSE i \in DOMAIN sorted : sorted[i].id = id /\ sorted[i].k = k
  IN  EndOf(sorted, p, c.ulen) - sorted[p].off
LengthOf(x, k) == LengthIn(At(x), Id(x), k)
EndAt(x, k) == EntryOf(x, k).off + LengthOf(x, k)

(* Two cells want frames of the same group of pictures. *)
SamePictures(x, y) ==
  /\ GroupOf(x) = GroupOf(y)
  /\ resolved[x].chunk = resolved[y].chunk /\ resolved[x].key = resolved[y].key

(* Mutant: the range ends with the frame of the first cell. *)
FirstAsked(x) ==
  LET cells == {y \in Found : SamePictures(x, y)}
      y == CHOOSE y \in cells : \A z \in cells : y[2] <= z[2]
  IN  EndAt(y, resolved[y].target)

Furthest(x) == Max({EndAt(y, resolved[y].target) : y \in {z \in Found : SamePictures(x, z)}})

RangeOf(x) ==
  LET c == At(x)
      from == EntryOf(x, IF IsVideo(x) THEN resolved[x].key ELSE resolved[x].target).off
  IN  IF file[GroupOf(x)].compressed THEN [offset |-> c.off, length |-> c.len]
      ELSE [offset |-> c.off + from,
            length |-> IF IsVideo(x) THEN Furthest(x) - from ELSE LengthOf(x, resolved[x].target)]

(* One range per offset.  Ranges that share one, which only payloads of no *)
(* bytes can do, stand for the one that is registered or found.            *)
OnePerOffset(all) ==
  {s \in SUBSET all : \A r \in all : \E u \in s : \A w \in s : w.offset = r.offset <=> w = u}

Plan ==
  /\ stage = "wave" /\ Pending = {}
  /\ ranges' \in OnePerOffset({RangeOf(x) : x \in Found})
  /\ stage' = IF Found = {} THEN "done" ELSE "data"
  /\ results' = [x \in Cells |-> [NoHit EXCEPT !.video = IsVideo(x)]]
  /\ UNCHANGED <<arguments, pending, resolved, cached>>

(* LoadedBytes.Get, and bytes of the data chunks of a group in the file. *)
Get(offset) == CHOOSE r \in ranges : r.offset = offset
FileBytes(x, r) == UNION {Bytes(c.data, r.offset - c.off, r.length) : c \in ToSet(ChunksOf(x))}

Data(x) ==
  LET e == EntryOf(x, resolved[x].target)
  IN  IF file[GroupOf(x)].compressed THEN Bytes(At(x).data, e.off, LengthOf(x, resolved[x].target))
      ELSE FileBytes(x, Get(At(x).off + e.off))

(* A row goes on with the frame after its previous hit if that was of the  *)
(* same pictures; otherwise it starts with the key frame.                  *)
Continues(x) ==
  \E y \in Found : /\ y[1] = x[1] /\ y[2] < x[2] /\ SamePictures(x, y)
                   /\ \A z \in Found : z[1] = x[1] /\ z[2] < x[2] => z[2] <= y[2]
Previous(x) ==
  CHOOSE y \in Found : /\ y[1] = x[1] /\ y[2] < x[2]
                       /\ \A z \in Found : z[1] = x[1] /\ z[2] < x[2] => z[2] <= y[2]
FirstFrame(x) == IF Continues(x) THEN resolved[Previous(x)].target + 1 ELSE resolved[x].key

(* A frame is a slice of the range that begins with its key frame. *)
Frame(x, k) ==
  LET base == EntryOf(x, resolved[x].key).off
      raw == FileBytes(x, Get(At(x).off + base))
  IN  [ts |-> EntryOf(x, k).ts, key |-> k = resolved[x].key,
       bytes |-> raw \cap Bytes(At(x).data, EntryOf(x, k).off, LengthOf(x, k))]

Hit(x) ==
  IF x \notin Found THEN [NoHit EXCEPT !.video = IsVideo(x)]
  ELSE IF ~IsVideo(x)
  THEN [NoHit EXCEPT !.found = TRUE, !.ts = EntryOf(x, resolved[x].target).ts, !.bytes = Data(x)]
  ELSE [found |-> TRUE, ts |-> EntryOf(x, resolved[x].target).ts, video |-> TRUE, bytes |-> {},
        frames |-> [i \in 1 .. resolved[x].target + 1 - FirstFrame(x) |-> Frame(x, FirstFrame(x) + i - 1)],
        reset |-> ~Continues(x)]

Materialize ==
  /\ stage = "data"
  /\ results' = [x \in Cells |-> Hit(x)]
  /\ stage' = "done"
  /\ UNCHANGED <<arguments, pending, resolved, cached, ranges>>

SampleFails ==
  /\ stage \in {"index", "data"}
  /\ stage' = "failed"
  /\ UNCHANGED <<arguments, pending, resolved, cached, ranges, results>>

SampleNext == \/ Assign \/ Gather \/ FetchIndexes \/ Walk
              \/ Plan \/ Materialize \/ SampleFails
-----------------------------------------------------------------------------
(* A message of the cell's topic that is not after its timestamp. *)
Within(x, c, k) == Entries(x, c)[k].ts <= T(x)
AllAfter(x, c) == \A k \in DOMAIN Entries(x, c) : ~Within(x, c, k)

(* Phase A finds the floor.  A message that was resolved is not after the  *)
(* timestamp and every later one of the topic, in its chunk or in a later  *)
(* one, is; a pending cell has passed by no message it could have taken;   *)
(* and a cell that is neither has no message at all.                       *)
FloorResolved ==
  stage # "start" => \A x \in Cells :
    LET c == IF pending[x] # 0 THEN pending[x] ELSE resolved[x].chunk
    IN  /\ \A d \in DOMAIN ChunksOf(x) : d > c => AllAfter(x, d)
        /\ resolved[x] # NotFound =>
             /\ pending[x] = 0 /\ c \in DOMAIN ChunksOf(x)
             /\ resolved[x].target \in DOMAIN Entries(x, c)
             /\ \A k \in DOMAIN Entries(x, c) : Within(x, c, k) <=> k <= resolved[x].target

(* Waves are bounded by the number of chunks: in each of them every        *)
(* pending cell is resolved or goes to an earlier chunk, and the error for *)
(* a wave without progress is never returned.                              *)
EveryWaveDescends ==
  [][stage = "walk" =>
       /\ stage' = "wave"
       /\ \A x \in Cells : pending'[x] < pending[x] \/ (pending[x] = 0 /\ pending'[x] = 0)]_sampleVars
=============================================================================
