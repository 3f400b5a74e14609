------------------------------- MODULE Format -------------------------------
(***************************************************************************)
(* The structures of a .td file (go/turbodata/format/types.go) and what a  *)
(* reader that follows them gets back from a stream of written records.    *)
(*                                                                         *)
(* Bytes are abstracted to RECORDS: one per Write call of the Writer on    *)
(* its output stream, [at, len, kind, body], `at' being the file offset of *)
(* its first byte.  A message payload is a segment [n, at, len] of a data  *)
(* chunk: message number n occupies bytes at .. at+len-1 of the            *)
(* uncompressed chunk.                                                     *)
(***************************************************************************)
EXTENDS Integers, Sequences, SequencesExt, SortFilter

(* type IndexChunkInfo: the time range and the offset of one index chunk. *)
IndexChunkInfo == [start : Int, end : Int, off : Nat]

(* Timestamps and offsets a topic index or a whole index chunk mentions. *)
Timestamps(c) == UNION {{c.topics[id].msgs[k].ts : k \in DOMAIN c.topics[id].msgs}
                           : id \in DOMAIN c.topics}
OffsetsOf(c, id) == {c.topics[id].msgs[k].off : k \in DOMAIN c.topics[id].msgs}
Offsets(c) == UNION {OffsetsOf(c, id) : id \in DOMAIN c.topics}

(* First free file offset after the records already written. *)
StreamEnd(stream) ==
  IF stream = <<>> THEN 0 ELSE stream[Len(stream)].at + stream[Len(stream)].len

(* The record of the given kind that fills bytes off .. off+len-1. *)
RecordsAt(stream, kind, off, len) ==
  {stream[k] : k \in {j \in DOMAIN stream : /\ stream[j].kind = kind
                                            /\ stream[j].at = off
                                            /\ stream[j].len = len}}

(* TopicsInfo.IndexChunkLen: distance to the next offset, and for the last *)
(* index chunk the distance that wraps around through TotalLen.            *)
IndexChunkLen(group, i) ==
  IF i < Len(group.infos)
  THEN group.infos[i + 1].off - group.infos[i].off
  ELSE group.total - group.infos[i].off + group.infos[1].off

-----------------------------------------------------------------------------
(* What the readers get back, steps 4 and 5 of the reading algorithm.      *)

(* The bytes off .. off+len-1 of a data chunk: <<message, position>> pairs.*)
Bytes(data, off, len) ==
  UNION {{<<p.n, x - p.at>> : x \in (p.at .. p.at + p.len - 1) \cap (off .. off + len - 1)}
           : p \in ToSet(data)}

(* An index chunk as ReadIndexChunk decodes it: a topic without messages   *)
(* in the chunk has no topic index.                                        *)
Decoded(c) ==
  LET ids == SetToSortSeq({i \in DOMAIN c.topics : c.topics[i].msgs # <<>>}, <)
  IN  [k \in DOMAIN ids |-> [id |-> ids[k], msgs |-> c.topics[ids[k]].msgs,
                             keys |-> c.topics[ids[k]].keys]]

(* Index chunk i of a group can be located and so can its data chunk, and  *)
(* the entries of the index lie within that data chunk.                    *)
ChunkReadable(stream, group, i) ==
  \E r \in RecordsAt(stream, "index", group.infos[i].off, IndexChunkLen(group, i)) :
    /\ RecordsAt(stream, "data", r.body.off, r.body.len) # {}
    /\ \A o \in Offsets(r.body) : o <= r.body.ulen

(* Messages of a topic in index chunk i: bytes and time.                   *)
ChunkMessages(stream, group, i, id) ==
  LET r == CHOOSE x \in RecordsAt(stream, "index", group.infos[i].off, IndexChunkLen(group, i)) : TRUE
      d == CHOOSE x \in RecordsAt(stream, "data", r.body.off, r.body.len) : TRUE
      kept == Merged(Decoded(r.body))
      mine == SelectSeq([k \in DOMAIN kept |->
                           [id |-> kept[k].id, ts |-> kept[k].ts,
                            bytes |-> Bytes(d.body, kept[k].off,
                                            EndOf(kept, k, r.body.ulen) - kept[k].off)]],
                        LAMBDA m : m.id = id)
  IN  [k \in DOMAIN mine |-> <<mine[k].bytes, mine[k].ts>>]

(* Everything a reader finds of one topic of a group, in file order. *)
TopicMessages(stream, group, id) ==
  FlattenSeq([i \in DOMAIN group.infos |-> ChunkMessages(stream, group, i, id)])

(* In some index chunk of the group two topics have messages at one        *)
(* offset: one of them has no bytes, and the merge of sortAndFilter does   *)
(* not know which was written first.                                       *)
OffsetsShared(stream, group) ==
  \E i \in DOMAIN group.infos :
    \E r \in RecordsAt(stream, "index", group.infos[i].off, IndexChunkLen(group, i)) :
      \E id, jd \in DOMAIN r.body.topics :
        id # jd /\ OffsetsOf(r.body, id) \cap OffsetsOf(r.body, jd) # {}

(* The summary as a reader locates it: right before the footer. *)
SummariesOf(stream) ==
  LET foot == stream[Len(stream)]
  IN  {r.body : r \in RecordsAt(stream, "summary", foot.at - foot.body, foot.body)}
=============================================================================
