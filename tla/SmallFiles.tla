----------------------------- MODULE SmallFiles -----------------------------
(***************************************************************************)
(* The files TLC reads in the models of the readers, laid out as the       *)
(* Writer does: the data chunks of all groups and then their index chunks. *)
(* A content is a sequence of groups [compressed, video, ids, chunks], a   *)
(* chunk a sequence of messages; FileOf adds offsets and indexes.          *)
(***************************************************************************)
EXTENDS Integers, Sequences, SequencesExt, FiniteSets, FiniteSetsExt

Msg(id, ts, n, len, key) == [id |-> id, ts |-> ts, n |-> n, len |-> len, key |-> key]

IndexOf(msgs, id) ==
  LET mine == SetToSortSeq({k \in DOMAIN msgs : msgs[k].id = id}, <)
      Before(k) == FoldLeft(LAMBDA n, m : n + m.len, 0, SubSeq(msgs, 1, k - 1))
  IN  [id |-> id,
       msgs |-> [j \in DOMAIN mine |-> [ts |-> msgs[mine[j]].ts, off |-> Before(mine[j])]],
       keys |-> LET keys == SetToSortSeq({j \in DOMAIN mine : msgs[mine[j]].key}, <)
                IN  [j \in DOMAIN keys |-> keys[j] - 1]]

LaidOut(msgs, compressed, off, index) ==
  LET Before(k) == FoldLeft(LAMBDA n, m : n + m.len, 0, SubSeq(msgs, 1, k - 1))
      ulen == Before(Len(msgs) + 1)
      ids == SetToSortSeq({msgs[k].id : k \in DOMAIN msgs}, <)
  IN  [start |-> msgs[1].ts, end |-> msgs[Len(msgs)].ts, index |-> index, off |-> off,
       len |-> IF compressed THEN ulen + 1 ELSE ulen, ulen |-> ulen,
       topics |-> [k \in DOMAIN ids |-> IndexOf(msgs, ids[k])],
       data |-> [k \in DOMAIN msgs |-> [n |-> msgs[k].n, at |-> Before(k), len |-> msgs[k].len]],
       msgs |-> msgs]

(* Data chunks from offset 8 on, index chunks of one byte from 100 on. *)
FileOf(content) ==
  LET Size(g, i) == FoldLeft(LAMBDA n, m : n + m.len,
                             IF content[g].compressed THEN 1 ELSE 0, content[g].chunks[i])
      Earlier(g, i) == {<<h, j>> \in (1 .. Len(content)) \X (1 .. 4) :
                          j \in DOMAIN content[h].chunks /\ (h < g \/ (h = g /\ j < i))}
      Off(g, i) == 8 + MapThenSumSet(LAMBDA p : Size(p[1], p[2]), Earlier(g, i))
  IN  [g \in DOMAIN content |->
         [content[g] EXCEPT !.chunks =
            [i \in DOMAIN @ |-> LaidOut(@[i], content[g].compressed, Off(g, i),
                                        100 + Cardinality(Earlier(g, i)))]]]
=============================================================================
