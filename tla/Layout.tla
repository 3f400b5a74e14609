------------------------------- MODULE Layout -------------------------------
(***************************************************************************)
(* What the readers rely on in a file (go/turbodata/format/types.go and    *)
(* go/turbodata/writer.go): a file is a sequence of topic groups, a group  *)
(* one of chunks.  A chunk has its time range start .. end, the file       *)
(* offset `index' of its index chunk, and the data chunk: file offset and  *)
(* length, uncompressed length, topic indexes, bytes (see Format) and, for *)
(* the properties only, the messages that were written.                    *)
(***************************************************************************)
EXTENDS Integers, Sequences, SequencesExt, Lists

TopicIndex == [id : Nat, msgs : Seq([ts : Int, off : Nat]), keys : Seq(Nat)]
Chunk == [start : Int, end : Int, index : Nat, off : Nat, len : Nat, ulen : Nat,
          topics : Seq(TopicIndex), data : Seq([n : Nat, at : Nat, len : Nat]),
          msgs : Seq([id : Nat, ts : Int, n : Nat, len : Nat, key : BOOLEAN])]
Group == [compressed : BOOLEAN, video : BOOLEAN, ids : SUBSET Nat, chunks : Seq(Chunk)]

Ascending(s) == \A i, j \in DOMAIN s : i <= j => s[i] <= s[j]
Stamps(s) == [i \in DOMAIN s |-> s[i].ts]
Offs(s) == [i \in DOMAIN s |-> s[i].off]
Starts(s) == [i \in DOMAIN s |-> s[i].start]

(* What the Writer stores of a message, in the index of its topic: one of  *)
(* the group's, a time in the range of the chunk, a place in its bytes.    *)
(* Messages are stored as they come, which is in the order of their times. *)
ChunkInOrder(c, ids) ==
  /\ \A t \in ToSet(c.topics) :
       /\ t.id \in ids
       /\ Ascending(Stamps(t.msgs)) /\ Ascending(Offs(t.msgs))
       /\ \A k \in DOMAIN t.msgs : /\ c.start <= t.msgs[k].ts /\ t.msgs[k].ts <= c.end
                                   /\ t.msgs[k].off <= c.ulen
  /\ \A t, u \in ToSet(c.topics) : \A m \in ToSet(t.msgs), n \in ToSet(u.msgs) :
       m.off < n.off => m.ts <= n.ts

(* Two topics have messages of one offset, of which all but one have no    *)
(* bytes, only if these have one time as well.                             *)
TiesAgree(c) ==
  \A t, u \in DOMAIN c.topics : t # u =>
    \A m \in ToSet(c.topics[t].msgs), n \in ToSet(c.topics[u].msgs) : m.off = n.off => m.ts = n.ts

(* Time goes on from one chunk of a group to the next; chunks and index    *)
(* chunks follow each other in the order of the groups.                    *)
InOrder(f) ==
  /\ \A g \in DOMAIN f : LET c == f[g].chunks IN
       /\ \A i \in DOMAIN c : /\ ChunkInOrder(c[i], f[g].ids)
                              /\ ~f[g].compressed => c[i].len = c[i].ulen
       /\ \A i, j \in DOMAIN c : i < j => /\ c[i].end <= c[j].start
                                          /\ c[i].index <= c[j].index
                                          /\ c[i].off + c[i].len <= c[j].off
  /\ \A g, h \in DOMAIN f : g < h =>
       \A c \in ToSet(f[g].chunks), d \in ToSet(f[h].chunks) :
         c.index <= d.index /\ c.off + c.len <= d.off
-----------------------------------------------------------------------------
(* The messages of a topic, by their place in the chunk. *)
MessagesOf(c, id) == Arranged({q \in DOMAIN c.msgs : c.msgs[q].id = id})

(* An index chunk tells the truth: the messages of a chunk follow each     *)
(* other in its bytes, and the index of a topic has an entry for each of   *)
(* the topic's messages and knows which are key frames.                    *)
IsTrue(c) ==
  /\ c.msgs # <<>> /\ DOMAIN c.data = DOMAIN c.msgs /\ c.data[1].at = 0
  /\ \A q \in DOMAIN c.msgs :
       /\ c.data[q].n = c.msgs[q].n /\ c.data[q].len = c.msgs[q].len
       /\ c.data[q].at + c.data[q].len = IF q = Len(c.msgs) THEN c.ulen ELSE c.data[q + 1].at
       /\ \E t \in ToSet(c.topics) : t.id = c.msgs[q].id
  /\ \A t, u \in DOMAIN c.topics : c.topics[t].id = c.topics[u].id => t = u
  /\ \A t \in ToSet(c.topics) :
       LET mine == MessagesOf(c, t.id)
       IN  /\ t.msgs = [k \in DOMAIN mine |-> [ts |-> c.msgs[mine[k]].ts, off |-> c.data[mine[k]].at]]
           /\ Ascending(t.keys)
           /\ {key + 1 : key \in ToSet(t.keys)} = {k \in DOMAIN mine : c.msgs[mine[k]].key}

(* The messages of a group are numbered in the order they were written, a  *)
(* group of video has one topic and each of its chunks begins with a key   *)
(* frame, and a topic is in one group.                                     *)
Truthful(f) ==
  /\ \A g \in DOMAIN f : LET c == f[g].chunks IN
       /\ \A i \in DOMAIN c : IsTrue(c[i]) /\ (f[g].video => c[i].msgs[1].key /\ Len(c[i].topics) = 1)
       /\ \A i, j \in DOMAIN c : \A q \in DOMAIN c[i].msgs, r \in DOMAIN c[j].msgs :
            i < j \/ (i = j /\ q < r) => c[i].msgs[q].n < c[j].msgs[r].n
  /\ \A g \in DOMAIN f : f[g].video => \A i, j \in f[g].ids : i = j
  /\ \A g, h \in DOMAIN f : g # h => f[g].ids \cap f[h].ids = {}

(* The messages of a group, chunk by chunk: one after the other in time,   *)
(* each in the range of its chunk and of one of the group's topics; and a  *)
(* topic is in one group.                                                  *)
Chronological(f) ==
  /\ \A g \in DOMAIN f : LET c == f[g].chunks IN
       /\ \A i \in DOMAIN c : \A q \in DOMAIN c[i].msgs :
            /\ c[i].start <= c[i].msgs[q].ts /\ c[i].msgs[q].ts <= c[i].end
            /\ c[i].msgs[q].id \in f[g].ids
       /\ \A i \in DOMAIN c : c[i].start <= c[i].end /\ Ascending(Stamps(c[i].msgs))
       /\ \A i, j \in DOMAIN c : i < j => c[i].end <= c[j].start
  /\ \A g, h \in DOMAIN f : g # h => f[g].ids \cap f[h].ids = {}
=============================================================================
