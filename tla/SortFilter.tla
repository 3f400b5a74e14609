----------------------------- MODULE SortFilter -----------------------------
(***************************************************************************)
(* sortAndFilter (go/turbodata/internal/iter/sort_filter.go): the messages *)
(* of one index chunk that a query keeps, in the order of their offsets,   *)
(* each with the length that the next offset gives it.                     *)
(*                                                                         *)
(* An index chunk is a sequence of topic indexes [id, msgs, keys]; an      *)
(* entry of msgs is [ts, off].  The result is a sequence of [id, ts, off,  *)
(* len].                                                                   *)
(***************************************************************************)
EXTENDS Integers, Sequences, SequencesExt, FiniteSets, Heap, Lists

Entry(topics, t, k) ==
  [id |-> topics[t].id, ts |-> topics[t].msgs[k].ts, off |-> topics[t].msgs[k].off,
   key |-> topics[t].msgs[k].off, topic |-> t, k |-> k]

(* The entries of a chunk, by topic and place. *)
AllEntries(topics) == UNION {{<<t, k>> : k \in DOMAIN topics[t].msgs} : t \in DOMAIN topics}

(* The k-way merge: the entries of all topics by offset.  Entries of equal *)
(* offset, which payloads of no bytes have, come in the order the heap     *)
(* happens to give them.                                                   *)
Merged(topics) ==
  LET total == Cardinality(AllEntries(topics))
      first[t \in 0 .. Len(topics)] ==
        IF t = 0 THEN <<>>
        ELSE IF topics[t].msgs = <<>> THEN first[t - 1]
        ELSE Pushed(first[t - 1], Entry(topics, t, 1))
      Turn(s) ==
        LET e == Head(s.heap)
            rest == Popped(s.heap)
        IN  IF s.heap = <<>> THEN s
            ELSE [out  |-> Append(s.out, e),
                  heap |-> IF e.k = Len(topics[e.topic].msgs) THEN rest
                           ELSE Pushed(rest, Entry(topics, e.topic, e.k + 1))]
      after[n \in 0 .. total] == IF n = 0 THEN [out |-> <<>>, heap |-> first[Len(topics)]]
                          ELSE Turn(after[n - 1])
  IN  after[total].out

(* The offset at which the k-th entry ends. *)
EndOf(sorted, k, totalLen) == IF k < Len(sorted) THEN sorted[k + 1].off ELSE totalLen

(* Mutant: the lower bound of the query is not moved. *)
NoSnap(topics, start) == start

(* keyFrameStart: the last key frame that is not after start, if the chunk *)
(* has one.  Only the first topic is looked at: a video group has one.     *)
KeyFrameStart(topics, start) ==
  LET keys == IF topics = <<>> THEN <<>> ELSE topics[1].keys
      Stamp(k) == topics[1].msgs[keys[k] + 1].ts
      before == {k \in DOMAIN keys : \A j \in 1 .. k : Stamp(j) <= start}
  IN  IF before = {} THEN start ELSE Stamp(CHOOSE k \in before : \A j \in before : j <= k)

WithLengths(sorted, totalLen) ==
  [k \in DOMAIN sorted |->
     [id |-> sorted[k].id, ts |-> sorted[k].ts, off |-> sorted[k].off,
      len |-> EndOf(sorted, k, totalLen) - sorted[k].off]]

SortAndFilter(topics, totalLen, ids, start, end, videoDecodable) ==
  LET from == IF videoDecodable THEN KeyFrameStart(topics, start) ELSE start
      all == WithLengths(Merged(topics), totalLen)
  IN  Picked(all, {k \in DOMAIN all : all[k].id \in ids /\ from <= all[k].ts /\ all[k].ts <= end})
=============================================================================
