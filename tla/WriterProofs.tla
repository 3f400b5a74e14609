---------------------------- MODULE WriterProofs ----------------------------
(***************************************************************************)
(* Proofs about Writer, for every value of its constants.  In order:       *)
(*   - types                                              TypeOK           *)
(*   - the index of the chunk in progress and of those    IndexInv         *)
(*     on the stream                                                       *)
(*   - the shapes of the steps of a healthy Writer        HealthyStep      *)
(*   - time order of the chunks of a group                OrderInv         *)
(*   - time ranges in the summary                         RangeInv         *)
(*   - key frames                                         FrameInv, KeyInv *)
(*   - chunk boundaries                                   CutInv           *)
(*   - topic ids                                          IdsInv           *)
(* Each invariant contains the ones above that its proof rests on.         *)
(***************************************************************************)
EXTENDS Writer, OrderLemmas, FiniteSetTheorems, TLAPS

LEMMA IdType == ASSUME WriterAssumption, NEW i \in Nat PROVE i % IdSpace \in TopicIds
BY DEF WriterAssumption, TopicIds

LEMMA RecordFields == ASSUME NEW r \in Record PROVE r.at \in Nat /\ r.len \in Nat
BY DEF Record

LEMMA StreamEndType == ASSUME stream \in Seq(Record) PROVE StreamEnd(stream) \in Nat
<1>1. CASE stream = <<>> BY <1>1 DEF StreamEnd
<1>2. CASE stream # <<>>
  <2>1. stream[Len(stream)] \in Record BY <1>2
  <2> QED BY <2>1, <1>2, RecordFields DEF StreamEnd
<1> QED BY <1>1, <1>2

LEMMA BufferedType ==
  ASSUME NEW c \in ChunkType, log \in Seq(Message), NEW id \in TopicIds,
         NEW ts \in Times, NEW len \in Nat, NEW key \in BOOLEAN
  PROVE  Buffered(c, id, ts, len, key) \in ChunkType
<1> DEFINE e == [ts |-> ts, off |-> c.len]
           s == [n |-> Len(log) + 1, at |-> c.len, len |-> len]
<1>1. e \in MessageIndex BY DEF MessageIndex, ChunkType
<1>2. s \in Segment BY DEF Segment, ChunkType
<1>3. Append(c.index[id], e) \in Seq(MessageIndex) BY <1>1 DEF ChunkType
<1>4. Append(c.buf, s) \in Seq(Segment) BY <1>2 DEF ChunkType
<1>5. (IF key THEN Append(c.keys[id], Len(c.index[id])) ELSE c.keys[id]) \in Seq(Nat)
  <2>1. Len(c.index[id]) \in Nat BY DEF ChunkType
  <2> QED BY <2>1 DEF ChunkType
<1>6. [c.index EXCEPT ![id] = Append(@, e)] \in [TopicIds -> Seq(MessageIndex)]
  BY <1>3 DEF ChunkType
<1>7. [c.keys EXCEPT ![id] = IF key THEN Append(@, Len(c.index[id])) ELSE @]
        \in [TopicIds -> Seq(Nat)]
  BY <1>5 DEF ChunkType
<1>8. c.len + len \in Nat BY DEF ChunkType
<1> QED BY <1>4, <1>6, <1>7, <1>8 DEF ChunkType, Buffered

LEMMA DrainedType ==
  ASSUME NEW c \in ChunkType
  PROVE  Unindexed(c) \in ChunkType /\ ClearedBuf(c) \in ChunkType /\ Drained(c) \in ChunkType
<1>1. \A d \in ChunkType : ClearedBuf(d) \in ChunkType BY DEF ClearedBuf, ChunkType
<1>2. Unindexed(c) \in ChunkType BY DEF Unindexed, ChunkType
<1> QED BY <1>1, <1>2 DEF Drained

LEMMA IndexChunkType ==
  ASSUME NEW c \in ChunkType, NEW packed \in Nat, offset \in Nat
  PROVE  IndexChunkOf(c, packed) \in IndexChunk
<1>1. \A id \in TopicIds : [msgs |-> c.index[id], keys |-> c.keys[id]] \in TopicIndex
  BY DEF ChunkType, TopicIndex
<1>2. [msgs |-> <<>>, keys |-> <<>>] \in TopicIndex BY DEF TopicIndex
<1> QED BY <1>1, <1>2 DEF IndexChunkOf, IndexChunk, ChunkType

LEMMA EmitType ==
  ASSUME stream \in Seq(Record), offset \in Nat,
         NEW ok \in BOOLEAN, NEW kind, NEW len \in Nat, NEW body,
         [kind |-> kind, at |-> StreamEnd(stream), len |-> len, body |-> body] \in Record,
         Emit(ok, kind, len, body)
  PROVE  stream' \in Seq(Record) /\ offset' \in Nat /\ sinkFailed' \in BOOLEAN
BY DEF Emit
-----------------------------------------------------------------------------
(* Types are preserved: one lemma per group of actions. *)

LEMMA CountedType ==
  ASSUME config \in Config, NEW st \in [start : Int, size : Nat, count : Nat],
         NEW ts \in Int, NEW len \in Nat
  PROVE  Counted(st, ts, len) \in [start : Int, size : Nat, count : Nat]
BY DEF Counted, Config, Modes

LEMMA FreshStatusType == FreshStatus \in [start : Int, size : Nat, count : Nat]
BY DEF FreshStatus

(* ids of the topics of the current group *)
LEMMA ConfigIds ==
  ASSUME config \in Config, NEW nm \in DOMAIN config.ids
  PROVE  config.ids[nm] \in TopicIds /\ nm \in Names
BY DEF Config

LEMMA DataRecord ==
  ASSUME stream \in Seq(Record), NEW c \in ChunkType, NEW packed \in Nat
  PROVE  [kind |-> "data", at |-> StreamEnd(stream), len |-> packed, body |-> c.buf] \in Record
BY StreamEndType DEF Record, ChunkType

LEMMA ChunkLensType ==
  ASSUME WriterAssumption, NEW c \in ChunkType, NEW packed \in ChunkLens(c)
  PROVE  packed \in Nat
BY DEF WriterAssumption, ChunkLens, ChunkType

LEMMA WriteChunkType ==
  ASSUME WriterAssumption, TypeOK, NEW c \in ChunkType, NEW ok \in BOOLEAN, WriteChunk(c, ok)
  PROVE  /\ indexChunks' \in Seq(IndexChunk) /\ stream' \in Seq(Record)
         /\ offset' \in Nat /\ sinkFailed' \in BOOLEAN
<1>1. PICK packed \in ChunkLens(c) :
        /\ indexChunks' = Append(indexChunks, IndexChunkOf(c, packed))
        /\ Emit(ok, "data", packed, c.buf)
  BY DEF WriteChunk
<1>2. packed \in Nat BY ChunkLensType
<1>3. stream \in Seq(Record) /\ offset \in Nat /\ indexChunks \in Seq(IndexChunk) BY DEF TypeOK
<1>4. IndexChunkOf(c, packed) \in IndexChunk BY <1>2, <1>3, IndexChunkType
<1>5. [kind |-> "data", at |-> StreamEnd(stream), len |-> packed, body |-> c.buf] \in Record
  BY <1>2, <1>3, DataRecord
<1>6. stream' \in Seq(Record) /\ offset' \in Nat /\ sinkFailed' \in BOOLEAN
  BY <1>1, <1>2, <1>3, <1>5, EmitType
<1>7. indexChunks' \in Seq(IndexChunk) BY <1>1, <1>3, <1>4
<1> QED BY <1>6, <1>7

Position == (Nat \ {0}) \X (Nat \ {0}) \X Nat
LEMMA PositionFields ==
  /\ \A p \in Position : p[1] \in Nat \ {0} /\ p[2] \in Nat \ {0} /\ p[3] \in Nat
  /\ \A i \in Nat \ {0}, j \in Nat \ {0}, n \in Nat : <<i, j, n>> \in Position
BY DEF Position

LEMMA ReplaceType ==
  ASSUME NEW S, NEW s \in Seq(S), NEW i \in 1 .. Len(s), NEW x \in S
  PROVE  [s EXCEPT ![i] = x] \in Seq(S)
OBVIOUS

LEMMA SinkOutcomesType == ASSUME NEW ok \in SinkOutcomes PROVE ok \in BOOLEAN
BY DEF SinkOutcomes

LEMMA RejectedType == ASSUME TypeOK, NEW err \in Results, Rejected(err) PROVE TypeOK'
BY DEF TypeOK, Rejected, topicVars, chunkVars, fileVars, closeVars, sinkVars

LEMMA PanicType == ASSUME TypeOK, Panic PROVE TypeOK'
BY DEF TypeOK, Results, Panic, topicVars, chunkVars, fileVars, closeVars, sinkVars

LEMMA AcceptType ==
  ASSUME WriterAssumption, TypeOK, config \in Config, NEW nm \in DOMAIN config.ids,
         NEW ts \in Times, NEW len \in Nat,
         NEW frame \in {"plain", "key", "delta"}, Accept(nm, len, ts, frame)
  PROVE  lastTimestamp' \in Int /\ count' \in [TopicIds -> Nat] /\ log' \in Seq(Message)
<1>1. config.ids[nm] \in TopicIds /\ nm \in Names BY ConfigIds
<1>2. [name |-> nm, ts |-> ts, len |-> len, frame |-> frame] \in Message BY <1>1 DEF Message
<1>3. count' \in [TopicIds -> Nat]
  <2>1. count \in [TopicIds -> Nat] BY DEF TypeOK
  <2>2. count' = [count EXCEPT ![config.ids[nm]] = @ + 1] BY DEF Accept
  <2> QED BY <1>1, <2>1, <2>2
<1>4. log' \in Seq(Message) BY <1>2 DEF TypeOK, Accept
<1> QED BY <1>3, <1>4 DEF Accept, WriterAssumption

LEMMA WriteMessageType ==
  ASSUME WriterAssumption, TypeOK, NEW nm \in Names, NEW len \in Lens, NEW ts \in Times,
         WriteMessage(nm, len, ts)
  PROVE  TypeOK'
<1> DEFINE c == Buffered(chunk, config.ids[nm], ts, len, FALSE)
           st == Counted(status, ts, len)
<1>1. len \in Nat /\ ts \in Int BY DEF WriterAssumption
<1>2. config \in Config /\ nm \in DOMAIN config.ids BY DEF WriteMessage, Writable, TypeOK
<1>3. c \in ChunkType BY <1>1, <1>2, ConfigIds, BufferedType DEF TypeOK
<1>4. st \in [start : Int, size : Nat, count : Nat] BY <1>1, <1>2, CountedType DEF TypeOK
<1>5. lastTimestamp' \in Int /\ count' \in [TopicIds -> Nat] /\ log' \in Seq(Message)
  BY <1>1, <1>2, AcceptType DEF WriteMessage
<1> HIDE DEF c, st
<1>6. CASE /\ chunk' = c /\ status' = st /\ ret' = "ok"
           /\ UNCHANGED <<indexChunks, sinkVars>>
  BY <1>3, <1>4, <1>5, <1>6 DEF TypeOK, Results, WriteMessage, fileVars, closeVars, sinkVars
<1>7. ASSUME NEW ok \in SinkOutcomes,
             /\ WriteChunk(c, ok)
             /\ chunk' = IF ok THEN Drained(c) ELSE Unindexed(c)
             /\ status' = IF ok THEN FreshStatus ELSE st
             /\ ret' = IF ok THEN "ok" ELSE "io"
      PROVE  TypeOK'
  <2>1. chunk' \in ChunkType BY <1>3, <1>7, DrainedType
  <2>2. status' \in [start : Int, size : Nat, count : Nat] BY <1>4, <1>7, FreshStatusType
  <2>3. /\ indexChunks' \in Seq(IndexChunk) /\ stream' \in Seq(Record)
        /\ offset' \in Nat /\ sinkFailed' \in BOOLEAN
    BY <1>3, <1>7, SinkOutcomesType, WriteChunkType
  <2>4. ret' \in Results BY <1>7 DEF Results
  <2> QED BY <1>5, <2>1, <2>2, <2>3, <2>4 DEF TypeOK, WriteMessage, fileVars, closeVars
<1> QED BY <1>6, <1>7 DEF WriteMessage, c, st

LEMMA WriteVideoMessageType ==
  ASSUME WriterAssumption, TypeOK, NEW nm \in Names, NEW len \in Lens, NEW ts \in Times,
         NEW key \in BOOLEAN, WriteVideoMessage(nm, len, ts, key)
  PROVE  TypeOK'
<1> DEFINE id == config.ids[nm]
           frame == IF key THEN "key" ELSE "delta"
<1>1. len \in Nat /\ ts \in Int BY DEF WriterAssumption
<1>2. config \in Config /\ nm \in DOMAIN config.ids BY DEF WriteVideoMessage, Writable, TypeOK
<1>3. id \in TopicIds /\ chunk \in ChunkType /\ log \in Seq(Message)
  BY <1>2, ConfigIds DEF TypeOK
<1>4. \A c \in ChunkType : Buffered(c, id, ts, len, key) \in ChunkType
  BY <1>1, <1>3, BufferedType
<1>5. \A st \in [start : Int, size : Nat, count : Nat] :
        Counted(st, ts, len) \in [start : Int, size : Nat, count : Nat]
  BY <1>1, <1>2, CountedType
<1>6. ASSUME Accept(nm, len, ts, frame)
      PROVE  lastTimestamp' \in Int /\ count' \in [TopicIds -> Nat] /\ log' \in Seq(Message)
  BY <1>1, <1>2, <1>6, AcceptType
<1> HIDE DEF id, frame
<1>7. CASE /\ Accept(nm, len, ts, frame)
           /\ chunk' = Buffered(chunk, id, ts, len, key)
           /\ status' = Counted(status, ts, len)
           /\ ret' = "ok"
           /\ UNCHANGED <<indexChunks, sinkVars>>
  BY <1>3, <1>4, <1>5, <1>6, <1>7
  DEF TypeOK, Results, WriteVideoMessage, fileVars, closeVars, sinkVars
<1>8. ASSUME NEW ok \in SinkOutcomes, WriteChunk(chunk, ok), ok,
             Accept(nm, len, ts, frame),
             chunk' = Buffered(Drained(chunk), id, ts, len, key),
             status' = Counted(FreshStatus, ts, len),
             ret' = "ok"
      PROVE  TypeOK'
  <2>1. chunk' \in ChunkType BY <1>3, <1>4, <1>8, DrainedType
  <2>2. status' \in [start : Int, size : Nat, count : Nat] BY <1>5, <1>8, FreshStatusType
  <2>3. /\ indexChunks' \in Seq(IndexChunk) /\ stream' \in Seq(Record)
        /\ offset' \in Nat /\ sinkFailed' \in BOOLEAN
    BY <1>3, <1>8, SinkOutcomesType, WriteChunkType
  <2> QED BY <1>6, <1>8, <2>1, <2>2, <2>3
      DEF TypeOK, Results, WriteVideoMessage, fileVars, closeVars
<1>9. ASSUME NEW ok \in SinkOutcomes, WriteChunk(chunk, ok),
             chunk' = Unindexed(chunk),
             ret' = "io",
             UNCHANGED <<lastTimestamp, count, log, status>>
      PROVE  TypeOK'
  <2>1. chunk' \in ChunkType BY <1>3, <1>9, DrainedType
  <2>2. /\ indexChunks' \in Seq(IndexChunk) /\ stream' \in Seq(Record)
        /\ offset' \in Nat /\ sinkFailed' \in BOOLEAN
    BY <1>3, <1>9, SinkOutcomesType, WriteChunkType
  <2> QED BY <1>9, <2>1, <2>2 DEF TypeOK, Results, WriteVideoMessage, fileVars, closeVars
<1> QED BY <1>7, <1>8, <1>9 DEF WriteVideoMessage, id, frame

LEMMA OpenTopicsType ==
  ASSUME WriterAssumption, TypeOK, NEW r \in OpenRequests, OpenTopics(r)
  PROVE  TypeOK'
<1> DEFINE Id(i) == NextId(i)
           ids == {Id(i) : i \in DOMAIN r.names}
           PlaceOf(nm) == CHOOSE i \in DOMAIN r.names : r.names[i] = nm
           topics == [i \in DOMAIN r.names |-> [id |-> Id(i), name |-> r.names[i], count |-> 0]]
           info == [topics |-> topics, infos |-> <<>>, total |-> 0]
<1>1. /\ r.names \in Seq(Names) /\ r.mode \in Modes /\ r.limit \in Nat
      /\ r.compressed \in BOOLEAN /\ r.video \in BOOLEAN
  BY DEF WriterAssumption
<1>2. lastId \in Nat BY DEF TypeOK, TopicIds
<1>3. ASSUME NEW i \in Nat PROVE Id(i) \in TopicIds
  <2>1. lastId + i \in Nat BY <1>2
  <2> QED BY <2>1, IdType DEF NextId
<1>4. ToSet(r.names) \subseteq Names BY <1>1 DEF ToSet
<1>5. \A nm \in ToSet(r.names) : PlaceOf(nm) \in DOMAIN r.names BY DEF ToSet
<1>6. DOMAIN r.names \subseteq Nat /\ Len(r.names) \in Nat BY <1>1
<1>7. [nm \in ToSet(r.names) |-> Id(PlaceOf(nm))] \in [ToSet(r.names) -> TopicIds]
  BY <1>3, <1>5, <1>6
<1>8. topics \in Seq([id : TopicIds, name : Names, count : Nat])
  <2>1. \A i \in 1 .. Len(r.names) :
          [id |-> Id(i), name |-> r.names[i], count |-> 0] \in [id : TopicIds, name : Names, count : Nat]
    <3> HIDE DEF Id
    <3> QED BY <1>1, <1>3
  <2>2. DOMAIN r.names = 1 .. Len(r.names) BY <1>1
  <2> HIDE DEF Id
  <2> QED BY <1>6, <2>1, <2>2
<1>9. info \in TopicsInfo BY <1>8 DEF TopicsInfo
<1>10. groups' = Append(groups, info) /\ lastId' = Id(Len(r.names)) BY DEF OpenTopics
<1>11. config' = [ids |-> [nm \in ToSet(r.names) |-> Id(PlaceOf(nm))], mode |-> r.mode,
                  limit |-> r.limit, compressed |-> r.compressed, video |-> r.video]
  BY DEF OpenTopics
<1>12. chunk' = [index |-> [id \in TopicIds |-> IF id \in ids THEN <<>> ELSE chunk.index[id]],
                 keys  |-> [id \in TopicIds |-> IF id \in ids THEN <<>> ELSE chunk.keys[id]],
                 buf   |-> chunk.buf, len |-> chunk.len]
  BY DEF OpenTopics
<1>13. count' = [id \in TopicIds |-> IF id \in ids THEN 0 ELSE count[id]] BY DEF OpenTopics
<1>14. groups' \in Seq(TopicsInfo) /\ lastId' \in TopicIds
  <2>1. groups \in Seq(TopicsInfo) BY DEF TypeOK
  <2>2. Id(Len(r.names)) \in TopicIds BY <1>3, <1>6
  <2> HIDE DEF info, Id
  <2>3. groups' \in Seq(TopicsInfo) BY <1>9, <1>10, <2>1
  <2> QED BY <1>10, <2>2, <2>3
<1>15. config' \in Config
  <2> HIDE DEF Id, PlaceOf
  <2> QED BY <1>1, <1>4, <1>7, <1>11 DEF Config
<1>16. chunk' \in ChunkType /\ count' \in [TopicIds -> Nat]
  <2> HIDE DEF ids
  <2>1. chunk \in ChunkType /\ count \in [TopicIds -> Nat] BY DEF TypeOK
  <2>2. chunk' \in ChunkType BY <1>12, <2>1 DEF ChunkType
  <2> QED BY <1>13, <2>1, <2>2
<1>17. /\ openedNames' \subseteq Names /\ isTopicOpen' \in BOOLEAN /\ lastTimestamp' \in Int
       /\ status' \in [start : Int, size : Nat, count : Nat] /\ ret' \in Results
  BY <1>4, FreshStatusType DEF OpenTopics, TypeOK, Results
<1>18. UNCHANGED <<indexChunks, indexList, closeVars, pc, sinkVars, log>> BY DEF OpenTopics
<1> HIDE DEF ids, Id, PlaceOf, topics, info
<1> QED BY <1>14, <1>15, <1>16, <1>17, <1>18 DEF TypeOK, sinkVars, closeVars

LEMMA OpenRejectedLateType ==
  ASSUME TypeOK, NEW r, OpenRejectedLate(r)
  PROVE  TypeOK'
<1>1. isTopicOpen' \in BOOLEAN /\ lastTimestamp' \in Int /\ ret' \in Results
  BY DEF OpenRejectedLate, Results, OpenErrors
<1>2. UNCHANGED <<config, chunkVars, fileVars, count, closeVars, pc, sinkVars, log>>
  BY DEF OpenRejectedLate
<1> QED BY <1>1, <1>2 DEF TypeOK, chunkVars, fileVars, closeVars, sinkVars

LEMMA CloseTopicType ==
  ASSUME WriterAssumption, TypeOK, CloseTopic
  PROVE  TypeOK'
<1>1. chunk \in ChunkType /\ offset \in Nat /\ stream \in Seq(Record)
      /\ indexChunks \in Seq(IndexChunk) /\ indexList \in Seq(Seq(IndexChunk))
  BY DEF TypeOK
<1>2. CASE /\ chunk' = ClearedBuf(chunk)
           /\ indexList' = Append(indexList, indexChunks)
           /\ indexChunks' = <<>>
           /\ ret' = "ok"
           /\ UNCHANGED <<status, sinkVars>>
  <2>1. chunk' \in ChunkType BY <1>1, <1>2, DrainedType
  <2>2. indexList' \in Seq(Seq(IndexChunk)) /\ indexChunks' \in Seq(IndexChunk) BY <1>1, <1>2
  <2> QED BY <1>2, <2>1, <2>2 DEF TypeOK, Results, CloseTopic, sinkVars, closeVars
<1>3. ASSUME NEW ok \in SinkOutcomes, NEW packed \in ChunkLens(chunk),
             NEW filed, filed = Append(indexChunks, IndexChunkOf(chunk, packed)),
             Emit(ok, "data", packed, chunk.buf),
             chunk' = IF ok THEN Drained(chunk) ELSE Unindexed(chunk),
             status' = IF ok THEN FreshStatus ELSE status,
             indexList' = IF ok THEN Append(indexList, filed) ELSE indexList,
             indexChunks' = IF ok THEN <<>> ELSE filed,
             ret' = IF ok THEN "ok" ELSE "io"
      PROVE  TypeOK'
  <2>1. chunk' \in ChunkType BY <1>1, <1>3, DrainedType
  <2>2. packed \in Nat BY <1>1, <1>3, ChunkLensType
  <2>3. filed \in Seq(IndexChunk)
    <3>1. IndexChunkOf(chunk, packed) \in IndexChunk BY <1>1, <2>2, IndexChunkType
    <3> QED BY <1>1, <1>3, <3>1
  <2>4. indexList' \in Seq(Seq(IndexChunk)) /\ indexChunks' \in Seq(IndexChunk)
    BY <1>1, <1>3, <2>3
  <2>5. stream' \in Seq(Record) /\ offset' \in Nat /\ sinkFailed' \in BOOLEAN
    BY <1>1, <1>3, <2>2, DataRecord, EmitType, SinkOutcomesType
  <2>6. status' \in [start : Int, size : Nat, count : Nat] /\ ret' \in Results
    BY <1>3, FreshStatusType DEF TypeOK, Results
  <2> QED BY <2>1, <2>4, <2>5, <2>6 DEF TypeOK, CloseTopic, closeVars
<1> QED BY <1>2, <1>3 DEF CloseTopic

LEMMA CloseType == ASSUME WriterAssumption, TypeOK, Close PROVE TypeOK'
<1>1. closes' \in 0 .. MaxCloses
  <2>1. closes \in 0 .. MaxCloses BY DEF TypeOK
  <2>2. closes < MaxCloses /\ closes' = closes + 1 BY DEF Close
  <2>3. MaxCloses \in Nat BY DEF WriterAssumption
  <2> QED BY ONLY <2>1, <2>2, <2>3
<1>2. at' \in (Nat \ {0}) \X (Nat \ {0}) \X Nat /\ pc' \in {"idle", "indexing", "footer", "closed", "panicked"}
      /\ ret' \in Results
  BY DEF Close, Results
<1>3. UNCHANGED <<topicVars, chunkVars, fileVars, count, sinkVars, log>> BY DEF Close
<1> QED BY <1>1, <1>2, <1>3 DEF TypeOK, topicVars, chunkVars, fileVars, sinkVars

(* The time range of an index chunk exists: its timestamps are bounded. *)
LEMMA InfoType ==
  ASSUME WriterAssumption, NEW c \in IndexChunk, offset \in Nat
  PROVE  InfoOf(c) \in IndexChunkInfo
<1> DEFINE starts == StartTimes(c) \cup {Infinity}
           ends   == EndTimes(c) \cup {-Infinity}
<1>1. StartTimes(c) \subseteq Times /\ EndTimes(c) \subseteq Times
  <2>1. ASSUME NEW id \in Indexed(c)
        PROVE  Head(c.topics[id].msgs).ts \in Times /\ Last(c.topics[id].msgs).ts \in Times
    <3>1. c.topics[id].msgs \in Seq(MessageIndex) /\ c.topics[id].msgs # <<>>
      BY DEF Indexed, IndexChunk, TopicIndex
    <3>2. Head(c.topics[id].msgs) \in MessageIndex /\ Last(c.topics[id].msgs) \in MessageIndex
      BY <3>1 DEF Last
    <3> QED BY <3>2 DEF MessageIndex
  <2> QED BY <2>1 DEF StartTimes, EndTimes
<1>2. Infinity \in Int /\ -Infinity \in Int /\ -Infinity <= Infinity BY DEF WriterAssumption
<1>. DEFINE low == -Infinity
            S == StartTimes(c)
            T == EndTimes(c)
<1>3. \A t \in S \cup T : t \in Int /\ low <= t /\ t <= Infinity BY <1>1 DEF WriterAssumption
<1>4. /\ \A t \in starts : t \in Int /\ low <= t
      /\ \A t \in ends : t \in Int /\ t <= Infinity
  <2>1. low \in Int /\ low <= Infinity /\ Infinity <= Infinity BY <1>2
  <2>2. starts = S \cup {Infinity} /\ ends = T \cup {low} OBVIOUS
  <2> HIDE DEF S, T, low, starts, ends
  <2>3. \A t \in starts : t \in S \/ t = Infinity BY <2>2
  <2>4. \A t \in ends : t \in T \/ t = low BY <2>2
  <2> QED BY <1>2, <1>3, <2>1, <2>3, <2>4
<1>. HIDE DEF S, T
<1>7. PICK s \in starts : \A u \in starts : s <= u
  <2>1. starts \subseteq Int /\ starts # {} BY <1>4
  <2> HIDE DEF starts, low
  <2> QED BY <1>2, <1>4, <2>1, LeastExists DEF low
<1>8. PICK e \in ends : \A u \in ends : u <= e
  <2>1. ends \subseteq Int /\ ends # {} BY <1>4
  <2> HIDE DEF ends
  <2> QED BY <1>2, <1>4, <2>1, GreatestExists
<1>5. (CHOOSE t \in starts : \A u \in starts : t <= u) \in Int
  <2> HIDE DEF starts
  <2> QED BY <1>4, <1>7
<1>6. (CHOOSE t \in ends : \A u \in ends : u <= t) \in Int
  <2> HIDE DEF ends
  <2> QED BY <1>4, <1>8
<1> QED BY <1>5, <1>6 DEF InfoOf, IndexChunkInfo, S, T

LEMMA WriteIndexChunkType ==
  ASSUME WriterAssumption, TypeOK, WriteIndexChunk
  PROVE  TypeOK'
<1> DEFINE i == at[1]
           j == at[2]
           c == indexList[i][j]
<1>1. /\ chunk \in ChunkType /\ offset \in Nat /\ stream \in Seq(Record)
      /\ indexList \in Seq(Seq(IndexChunk)) /\ groups \in Seq(TopicsInfo)
      /\ at \in Position
  BY DEF TypeOK, Position
<1>2. /\ pc = "indexing" /\ i <= Len(indexList) /\ j <= Len(indexList[i]) /\ i <= Len(groups)
      /\ groups' = [groups EXCEPT ![i].infos = Append(@, InfoOf(c))]
      /\ chunk' = ClearedBuf(chunk)
  BY DEF WriteIndexChunk
<1>3. PICK ok \in SinkOutcomes, packed \in PackedLens :
        /\ Emit(ok, "index", packed, c)
        /\ at' = IF ok THEN <<i, j + 1, at[3] + packed>> ELSE at
        /\ pc' = IF ok THEN pc ELSE "idle"
        /\ ret' = IF ok THEN ret ELSE "io"
  BY DEF WriteIndexChunk
<1>4. i \in Nat \ {0} /\ j \in Nat \ {0} /\ at[3] \in Nat BY <1>1, PositionFields
<1>5. packed \in Nat /\ ok \in BOOLEAN BY SinkOutcomesType DEF WriterAssumption
<1> HIDE DEF i, j
<1>6. indexList[i] \in Seq(IndexChunk) /\ groups[i] \in TopicsInfo
  <2>1. /\ indexList \in Seq(Seq(IndexChunk)) /\ groups \in Seq(TopicsInfo)
        /\ i \in Nat \ {0} /\ i <= Len(indexList) /\ i <= Len(groups)
    BY <1>1, <1>2, <1>4
  <2> QED BY ONLY <2>1
<1>7. c \in IndexChunk
  <2>1. indexList[i] \in Seq(IndexChunk) /\ j \in Nat \ {0} /\ j <= Len(indexList[i])
    BY <1>2, <1>4, <1>6
  <2> QED BY ONLY <2>1
<1> HIDE DEF c
<1>8. groups' \in Seq(TopicsInfo)
  <2>1. InfoOf(c) \in IndexChunkInfo BY <1>1, <1>7, InfoType
  <2>2. Append(groups[i].infos, InfoOf(c)) \in Seq(IndexChunkInfo) BY <1>6, <2>1 DEF TopicsInfo
  <2>3. [groups[i] EXCEPT !.infos = Append(@, InfoOf(c))] \in TopicsInfo
    BY <1>6, <2>2 DEF TopicsInfo
  <2>4. i \in 1 .. Len(groups) BY <1>1, <1>2, <1>4
  <2> QED BY <1>1, <1>2, <2>3, <2>4, ReplaceType
<1>9. chunk' \in ChunkType BY <1>1, <1>2, DrainedType
<1>10. [kind |-> "index", at |-> StreamEnd(stream), len |-> packed, body |-> c] \in Record
  BY <1>1, <1>5, <1>7, StreamEndType DEF Record
<1>11. stream' \in Seq(Record) /\ offset' \in Nat /\ sinkFailed' \in BOOLEAN
  BY <1>1, <1>3, <1>5, <1>10, EmitType
<1>12. at' \in Position
  <2>1. j + 1 \in Nat \ {0} /\ at[3] + packed \in Nat BY <1>4, <1>5
  <2> QED BY <1>1, <1>3, <1>4, <2>1, PositionFields
<1>13. pc' \in {"idle", "indexing"} /\ ret' \in Results BY <1>2, <1>3 DEF TypeOK, Results
<1>14. UNCHANGED <<topicVars, status, indexChunks, indexList, openedNames, lastId, count,
                   closes, log>>
  BY DEF WriteIndexChunk
<1> QED BY <1>8, <1>9, <1>11, <1>12, <1>13, <1>14 DEF TypeOK, Position, topicVars

LEMMA FinishGroupType == ASSUME TypeOK, FinishGroup PROVE TypeOK'
<1> DEFINE i == at[1]
<1>1. groups \in Seq(TopicsInfo) /\ at \in Position BY DEF TypeOK, Position
<1>2. i \in Nat \ {0} /\ at[3] \in Nat BY <1>1, PositionFields
<1>3. /\ i <= Len(groups)
      /\ groups' = [groups EXCEPT ![i].total = at[3]]
      /\ at' = <<i + 1, 1, 0>>
      /\ UNCHANGED <<topicVars, chunkVars, indexList, openedNames, lastId, count, closes, pc,
                     sinkVars, log, ret>>
  BY DEF FinishGroup
<1> HIDE DEF i
<1>4. groups' \in Seq(TopicsInfo)
  <2>1. groups[i] \in TopicsInfo BY <1>1, <1>2, <1>3
  <2>2. [groups[i] EXCEPT !.total = at[3]] \in TopicsInfo BY <1>2, <2>1 DEF TopicsInfo
  <2>3. i \in 1 .. Len(groups) BY <1>1, <1>2, <1>3
  <2> QED BY <1>1, <1>3, <2>2, <2>3, ReplaceType
<1>5. at' \in Position
  <2>1. i + 1 \in Nat \ {0} BY <1>2
  <2> QED BY <1>3, <2>1, PositionFields
<1> QED BY <1>3, <1>4, <1>5 DEF TypeOK, Position, topicVars, chunkVars, sinkVars

LEMMA StampedType ==
  ASSUME NEW g \in TopicsInfo, count \in [TopicIds -> Nat]
  PROVE  Stamped(g) \in TopicsInfo
<1> DEFINE Topic == [id : TopicIds, name : Names, count : Nat]
           topics == [k \in DOMAIN g.topics |-> [g.topics[k] EXCEPT !.count = count[g.topics[k].id]]]
<1>1. g.topics \in Seq(Topic) BY DEF TopicsInfo
<1> HIDE DEF Topic
<1>2. \A k \in DOMAIN g.topics : [g.topics[k] EXCEPT !.count = count[g.topics[k].id]] \in Topic
  <2> TAKE k \in DOMAIN g.topics
  <2>1. g.topics[k] \in Topic BY <1>1
  <2>2. count[g.topics[k].id] \in Nat BY <2>1 DEF Topic
  <2> QED BY <2>1, <2>2 DEF Topic
<1>3. DOMAIN g.topics = 1 .. Len(g.topics) /\ Len(g.topics) \in Nat BY <1>1
<1>4. topics \in Seq(Topic) BY <1>2, <1>3
<1> HIDE DEF topics
<1>5. [g EXCEPT !.topics = topics] \in TopicsInfo BY <1>4 DEF TopicsInfo, Topic
<1> QED BY <1>5 DEF Stamped, topics

LEMMA WriteSummaryType == ASSUME WriterAssumption, TypeOK, WriteSummary PROVE TypeOK'
<1>1. /\ chunk \in ChunkType /\ offset \in Nat /\ stream \in Seq(Record)
      /\ groups \in Seq(TopicsInfo) /\ count \in [TopicIds -> Nat]
      /\ at \in Position
  BY DEF TypeOK, Position
<1>2. /\ groups' = [g \in DOMAIN groups |-> Stamped(groups[g])]
      /\ chunk' = ClearedBuf(chunk)
  BY DEF WriteSummary
<1>3. PICK ok \in SinkOutcomes, packed \in PackedLens :
        /\ Emit(ok, "summary", packed, groups')
        /\ at' = IF ok THEN <<at[1], at[2], packed>> ELSE at
        /\ pc' = IF ok THEN "footer" ELSE "idle"
        /\ ret' = IF ok THEN ret ELSE "io"
  BY DEF WriteSummary
<1>4. packed \in Nat /\ ok \in BOOLEAN BY SinkOutcomesType DEF WriterAssumption
<1>5. groups' \in Seq(TopicsInfo)
  <2>1. \A g \in DOMAIN groups : Stamped(groups[g]) \in TopicsInfo BY <1>1, StampedType
  <2>2. DOMAIN groups = 1 .. Len(groups) /\ Len(groups) \in Nat BY <1>1
  <2> QED BY <1>2, <2>1, <2>2
<1>6. chunk' \in ChunkType BY <1>1, <1>2, DrainedType
<1>7. [kind |-> "summary", at |-> StreamEnd(stream), len |-> packed, body |-> groups'] \in Record
  BY <1>1, <1>4, <1>5, StreamEndType DEF Record
<1>8. stream' \in Seq(Record) /\ offset' \in Nat /\ sinkFailed' \in BOOLEAN
  BY <1>1, <1>3, <1>4, <1>7, EmitType
<1>9. at' \in Position BY <1>1, <1>3, <1>4, PositionFields
<1>10. pc' \in {"footer", "idle"} /\ ret' \in Results BY <1>3 DEF TypeOK, Results
<1>11. UNCHANGED <<topicVars, status, indexChunks, indexList, openedNames, lastId, count,
                   closes, log>>
  BY DEF WriteSummary
<1> QED BY <1>5, <1>6, <1>8, <1>9, <1>10, <1>11 DEF TypeOK, Position, topicVars

LEMMA WriteFooterType == ASSUME TypeOK, WriteFooter PROVE TypeOK'
<1> DEFINE rec == [kind |-> "footer", at |-> StreamEnd(stream), len |-> FooterLen, body |-> at[3]]
<1>1. stream \in Seq(Record) /\ at \in Position BY DEF TypeOK, Position
<1>2. at[3] \in Nat BY <1>1, PositionFields
<1>3. rec \in Record BY <1>1, <1>2, StreamEndType DEF Record, FooterLen
<1>4. PICK ok \in SinkOutcomes :
        /\ sinkFailed' = ~ok
        /\ stream' = IF ok THEN Append(stream, rec) ELSE stream
        /\ pc' = IF ok THEN "closed" ELSE "idle"
        /\ ret' = IF ok THEN "ok" ELSE "io"
  BY DEF WriteFooter
<1> HIDE DEF rec
<1>5. stream' \in Seq(Record) /\ sinkFailed' \in BOOLEAN BY <1>1, <1>3, <1>4, SinkOutcomesType
<1>6. pc' \in {"closed", "idle"} /\ ret' \in Results BY <1>4 DEF Results
<1>7. UNCHANGED <<topicVars, chunkVars, fileVars, count, closeVars, offset, log>> BY DEF WriteFooter
<1> QED BY <1>5, <1>6, <1>7 DEF TypeOK, topicVars, chunkVars, fileVars, closeVars

LEMMA RejectionsType ==
  ASSUME TypeOK,
         \/ \E r \in OpenRequests : OpenRejected(r)
         \/ \E nm \in Names, ts \in Times : \/ \E video \in BOOLEAN : WriteRejected(video, nm, ts)
                                           \/ VideoNeedsKeyFrame(nm, ts)
         \/ CloseTopicRejected \/ CloseRejected \/ IndexOutOfRange
  PROVE  TypeOK'
<1>1. Panic \/ \E err \in Results : Rejected(err)
  BY DEF OpenRejected, WriteRejected, VideoNeedsKeyFrame, CloseTopicRejected, CloseRejected,
         IndexOutOfRange, Results, OpenErrors, WriteErrors, CloseErrors
<1> QED BY <1>1, PanicType, RejectedType

LEMMA InitType == ASSUME WriterAssumption, Init PROVE TypeOK
<1>1. 0 \in TopicIds /\ 0 \in 0 .. MaxCloses BY DEF WriterAssumption, TopicIds
<1>2. chunk \in ChunkType BY DEF Init, ChunkType
<1>3. count \in [TopicIds -> Nat] /\ at \in Position BY PositionFields DEF Init
<1>4. /\ indexChunks \in Seq(IndexChunk) /\ indexList \in Seq(Seq(IndexChunk))
      /\ groups \in Seq(TopicsInfo) /\ stream \in Seq(Record) /\ log \in Seq(Message)
  BY DEF Init
<1>5. isTopicOpen \in BOOLEAN /\ config \in Config \cup {NoConfig} /\ sinkFailed \in BOOLEAN
  BY Zenon DEF Init
<1>7. status \in [start : Int, size : Nat, count : Nat] BY FreshStatusType DEF Init
<1>8. openedNames \subseteq Names /\ offset \in Nat /\ lastTimestamp \in Int BY DEF Init
<1>6. /\ pc \in {"idle", "indexing", "footer", "closed", "panicked"} /\ ret \in Results
      /\ lastId \in TopicIds /\ closes \in 0 .. MaxCloses
  BY <1>1 DEF Init, Results
<1> QED BY <1>2, <1>3, <1>4, <1>5, <1>6, <1>7, <1>8 DEF TypeOK, Position

LEMMA NextType == ASSUME WriterAssumption, TypeOK, [Next]_vars PROVE TypeOK'
<1>1. CASE \E r \in OpenRequests : OpenRejectedLate(r) \/ OpenTopics(r)
  BY <1>1, OpenRejectedLateType, OpenTopicsType
<1>2. CASE \E nm \in Names, ts \in Times, len \in Lens :
             \/ WriteMessage(nm, len, ts)
             \/ \E key \in BOOLEAN : WriteVideoMessage(nm, len, ts, key)
  BY <1>2, WriteMessageType, WriteVideoMessageType
<1>3. CASE CloseTopic \/ Close
  BY <1>3, CloseTopicType, CloseType
<1>4. CASE WriteIndexChunk \/ FinishGroup \/ WriteSummary \/ WriteFooter
  BY <1>4, WriteIndexChunkType, FinishGroupType, WriteSummaryType, WriteFooterType
<1>5. CASE \/ \E r \in OpenRequests : OpenRejected(r)
           \/ \E nm \in Names, ts \in Times : \/ \E video \in BOOLEAN : WriteRejected(video, nm, ts)
                                             \/ VideoNeedsKeyFrame(nm, ts)
           \/ CloseTopicRejected \/ CloseRejected \/ IndexOutOfRange
  BY <1>5, RejectionsType
<1>6. CASE UNCHANGED vars
  BY <1>6 DEF vars, TypeOK, topicVars, chunkVars, fileVars, closeVars, sinkVars
<1> QED BY <1>1, <1>2, <1>3, <1>4, <1>5, <1>6 DEF Next, Done

(* Every variable keeps its type, in every instance of the Writer. *)
THEOREM TypeCorrect == Spec => []TypeOK
<1>1. Init => TypeOK BY WriterAssumption, InitType
<1>2. TypeOK /\ [Next]_vars => TypeOK' BY WriterAssumption, NextType
<1> QED BY <1>1, <1>2, PTL DEF Spec

-----------------------------------------------------------------------------
(* The index tells the truth.  The invariant IndexTellsTheTruth is not     *)
(* inductive: a chunk that is flushed is described by the entries that     *)
(* were collected while it was in progress, so what is needed of the       *)
(* chunk in progress is BufferIndexed, and that nothing is written into    *)
(* it while Close runs.                                                    *)

ClosingIsClosed == pc \in {"indexing", "footer", "closed"} => ~isTopicOpen

IndexInv == /\ TypeOK
            /\ ClosingIsClosed
            /\ BufferIndexed
            /\ IndexTellsTheTruth

LEMMA GroupIdsType == ASSUME config \in Config PROVE GroupIds \subseteq TopicIds
BY DEF GroupIds, Config

AtsOf(buf) == {buf[k].at : k \in DOMAIN buf}
OffsOf(msgs) == {msgs[k].off : k \in DOMAIN msgs}

LEMMA AppendAts ==
  ASSUME NEW S, NEW s \in Seq(S), NEW x, NEW t, t = Append(s, x)
  PROVE  AtsOf(t) = AtsOf(s) \cup {x.at}
<1>1. /\ DOMAIN t = 1 .. Len(s) + 1 /\ DOMAIN s = 1 .. Len(s) /\ Len(s) \in Nat
      /\ t[Len(s) + 1] = x /\ \A k \in DOMAIN s : t[k] = s[k]
  OBVIOUS
<1>2. ASSUME NEW k \in DOMAIN t PROVE t[k].at \in {s[j].at : j \in DOMAIN s} \cup {x.at}
  <2>1. k = Len(s) + 1 \/ k \in DOMAIN s BY <1>1
  <2> QED BY <1>1, <2>1
<1>3. ASSUME NEW k \in DOMAIN s PROVE s[k].at \in {t[j].at : j \in DOMAIN t}
  <2>1. k \in DOMAIN t BY <1>1
  <2> QED BY <1>1, <2>1
<1>4. x.at \in {t[j].at : j \in DOMAIN t}
  <2>1. Len(s) + 1 \in DOMAIN t BY <1>1
  <2> QED BY <1>1, <2>1
<1> QED BY <1>2, <1>3, <1>4 DEF AtsOf

LEMMA AppendOffs ==
  ASSUME NEW S, NEW s \in Seq(S), NEW x, NEW t, t = Append(s, x)
  PROVE  OffsOf(t) = OffsOf(s) \cup {x.off}
<1>1. /\ DOMAIN t = 1 .. Len(s) + 1 /\ DOMAIN s = 1 .. Len(s) /\ Len(s) \in Nat
      /\ t[Len(s) + 1] = x /\ \A k \in DOMAIN s : t[k] = s[k]
  OBVIOUS
<1>2. ASSUME NEW k \in DOMAIN t PROVE t[k].off \in {s[j].off : j \in DOMAIN s} \cup {x.off}
  <2>1. k = Len(s) + 1 \/ k \in DOMAIN s BY <1>1
  <2> QED BY <1>1, <2>1
<1>3. ASSUME NEW k \in DOMAIN s PROVE s[k].off \in {t[j].off : j \in DOMAIN t}
  <2>1. k \in DOMAIN t BY <1>1
  <2> QED BY <1>1, <2>1
<1>4. x.off \in {t[j].off : j \in DOMAIN t}
  <2>1. Len(s) + 1 \in DOMAIN t BY <1>1
  <2> QED BY <1>1, <2>1
<1> QED BY <1>2, <1>3, <1>4 DEF OffsOf

LEMMA LessPlus == ASSUME NEW x \in Nat, NEW y \in Nat, NEW z \in Nat, NEW l \in Nat, x + y <= z
                  PROVE  x + y <= z + l
OBVIOUS

(* A buffered message keeps buffer and index in step. *)
LEMMA BufferedWell ==
  ASSUME NEW c \in ChunkType, NEW ids \in SUBSET TopicIds, WellBuffered(c, ids),
         log \in Seq(Message),
         NEW id \in ids, NEW ts \in Times, NEW len \in Nat, NEW key \in BOOLEAN
  PROVE  /\ WellBuffered(Buffered(c, id, ts, len, key), ids)
         /\ Buffered(c, id, ts, len, key).buf # <<>>
<1> DEFINE seg == [n |-> Len(log) + 1, at |-> c.len, len |-> len]
           e == [ts |-> ts, off |-> c.len]
           d == Buffered(c, id, ts, len, key)
           Ats(x) == AtsOf(x.buf)
<1>1. /\ c.buf \in Seq(Segment) /\ c.len \in Nat /\ id \in TopicIds
      /\ c.index \in [TopicIds -> Seq(MessageIndex)]
  BY DEF ChunkType
<1>2. /\ d.buf = Append(c.buf, seg) /\ d.len = c.len + len
      /\ d.index = [c.index EXCEPT ![id] = Append(@, e)]
  BY DEF Buffered
<1> HIDE DEF d
<1>3. /\ Len(d.buf) = Len(c.buf) + 1 /\ Len(c.buf) \in Nat
      /\ DOMAIN d.buf = 1 .. Len(c.buf) + 1 /\ DOMAIN c.buf = 1 .. Len(c.buf)
      /\ \A k \in DOMAIN c.buf : d.buf[k] = c.buf[k]
      /\ d.buf[Len(c.buf) + 1] = seg
  <2>1. c.buf \in Seq(Segment) /\ d.buf = Append(c.buf, seg) BY <1>1, <1>2
  <2> HIDE DEF seg
  <2> QED BY ONLY <2>1
<1>4. Ats(d) = Ats(c) \cup {c.len}
  <2>1. d.buf = Append(c.buf, seg) /\ c.buf \in Seq(Segment) BY <1>1, <1>2
  <2>2. seg.at = c.len OBVIOUS
  <2> HIDE DEF seg
  <2>3. Ats(d) = Ats(c) \cup {seg.at} BY <2>1, AppendAts
  <2> QED BY <2>2, <2>3
<1>5. IndexedOffsets(d, ids) = IndexedOffsets(c, ids) \cup {c.len}
  <2>2. \A i \in ids : i # id => d.index[i] = c.index[i] BY <1>1, <1>2
  <2> DEFINE Offs(x, i) == OffsOf(x.index[i])
  <2>3. Offs(d, id) = Offs(c, id) \cup {c.len}
    <3>1. d.index[id] = Append(c.index[id], e) /\ c.index[id] \in Seq(MessageIndex) BY <1>1, <1>2
    <3>2. e.off = c.len OBVIOUS
    <3> HIDE DEF e
    <3>3. Offs(d, id) = Offs(c, id) \cup {e.off} BY <3>1, AppendOffs
    <3> QED BY <3>2, <3>3
  <2>4. \A i \in ids : i # id => Offs(d, i) = Offs(c, i) BY <2>2
  <2>5. IndexedOffsets(c, ids) = UNION {Offs(c, i) : i \in ids}
        /\ IndexedOffsets(d, ids) = UNION {Offs(d, i) : i \in ids}
    BY DEF IndexedOffsets, OffsOf
  <2> HIDE DEF Offs
  <2> QED BY <2>3, <2>4, <2>5
<1>6. d.buf # <<>> BY <1>3
<1>7. d.buf[1].at = 0
  <2>1. CASE c.buf = <<>> BY <1>3, <2>1 DEF WellBuffered
  <2>2. CASE c.buf # <<>>
    <3>1. c.buf \in Seq(Segment) /\ c.buf # <<>> BY <1>1, <2>2
    <3>2. 1 \in DOMAIN c.buf BY ONLY <3>1
    <3>3. d.buf[1] = c.buf[1] BY ONLY <1>3, <3>2
    <3>4. c.buf[1].at = 0 BY <2>2 DEF WellBuffered
    <3> QED BY ONLY <3>3, <3>4
  <2> QED BY <2>1, <2>2
<1>8. Last(d.buf) = seg BY <1>3 DEF Last
<1>9. \A k \in DOMAIN d.buf : d.buf[k].at + d.buf[k].len <= d.len
  <2> TAKE k \in DOMAIN d.buf
  <2>1. CASE k = Len(c.buf) + 1 BY <1>1, <1>2, <1>3, <2>1
  <2>2. CASE k \in DOMAIN c.buf
    <3>1. c.buf[k] \in Segment BY <1>1, <2>2
    <3>2. c.buf[k].at \in Nat /\ c.buf[k].len \in Nat BY <3>1 DEF Segment
    <3>3. c.buf[k].at + c.buf[k].len <= c.len BY <2>2 DEF WellBuffered
    <3>4. d.buf[k] = c.buf[k] BY <1>3, <2>2
    <3>5. d.len = c.len + len BY <1>2
    <3>6. c.buf[k].at + c.buf[k].len <= c.len + len BY <1>1, <3>2, <3>3, LessPlus
    <3> QED BY <3>4, <3>5, <3>6
  <2> QED BY <1>3, <2>1, <2>2
<1>10. Ats(d) \subseteq IndexedOffsets(d, ids) /\ IndexedOffsets(d, ids) \subseteq Ats(d) \cup {0}
  <2>1. Ats(c) \subseteq IndexedOffsets(c, ids) /\ IndexedOffsets(c, ids) \subseteq Ats(c) \cup {0}
    BY DEF WellBuffered, AtsOf
  <2> HIDE DEF Ats
  <2> QED BY <1>4, <1>5, <2>1
<1> QED BY <1>2, <1>6, <1>7, <1>8, <1>9, <1>10 DEF WellBuffered, AtsOf, d

(* Nothing is left of a chunk that was flushed. *)
LEMMA EmptyWell ==
  ASSUME NEW d, NEW ids, d.buf = <<>>, d.len = 0, \A id \in ids : d.index[id] = <<>>
  PROVE  WellBuffered(d, ids)
<1>1. IndexedOffsets(d, ids) = {} BY DEF IndexedOffsets
<1> QED BY <1>1 DEF WellBuffered

LEMMA DrainedWell ==
  ASSUME NEW c \in ChunkType, config \in Config
  PROVE  WellBuffered(Drained(c), GroupIds) /\ Drained(c).buf = <<>> /\ Drained(c).len = 0
<1> DEFINE d == Drained(c)
<1>1. d.buf = <<>> /\ d.len = 0 /\ \A id \in GroupIds : d.index[id] = <<>>
  BY GroupIdsType DEF Drained, ClearedBuf, Unindexed
<1> HIDE DEF d
<1>2. WellBuffered(d, GroupIds) BY <1>1, EmptyWell
<1> QED BY <1>1, <1>2 DEF d

(* A buffer without bytes may be dropped: it indexes offset 0 at most. *)
LEMMA ClearedWell ==
  ASSUME NEW c \in ChunkType, NEW ids, WellBuffered(c, ids), c.len = 0
  PROVE  WellBuffered(ClearedBuf(c), ids)
<1>1. \A k \in DOMAIN c.buf : c.buf[k].at = 0
  <2> TAKE k \in DOMAIN c.buf
  <2>1. c.buf[k] \in Segment BY DEF ChunkType
  <2>2. c.buf[k].at \in Nat /\ c.buf[k].len \in Nat BY <2>1 DEF Segment
  <2>3. c.buf[k].at + c.buf[k].len <= 0 BY DEF WellBuffered
  <2> QED BY <2>2, <2>3
<1>2. IndexedOffsets(c, ids) \subseteq {0} BY <1>1 DEF WellBuffered
<1> DEFINE d == ClearedBuf(c)
<1>3. d.buf = <<>> /\ d.len = 0 /\ d.index = c.index BY DEF ClearedBuf
<1> HIDE DEF d
<1>4. IndexedOffsets(d, ids) = IndexedOffsets(c, ids) BY <1>3 DEF IndexedOffsets
<1> QED BY <1>2, <1>3, <1>4 DEF WellBuffered, d

(* The index chunk made of a chunk mentions the offsets indexed in it. *)
LEMMA OffsetsOfIndexChunk ==
  ASSUME NEW c \in ChunkType, NEW packed, config \in Config
  PROVE  Offsets(IndexChunkOf(c, packed)) = IndexedOffsets(c, GroupIds)
<1> DEFINE x == IndexChunkOf(c, packed)
<1>1. /\ DOMAIN x.topics = TopicIds
      /\ \A id \in GroupIds : x.topics[id].msgs = c.index[id]
      /\ \A id \in TopicIds : id \notin GroupIds => x.topics[id].msgs = <<>>
  BY GroupIdsType DEF IndexChunkOf
<1> HIDE DEF x
<1>2. Offsets(x) = UNION {OffsOf(x.topics[id].msgs) : id \in TopicIds}
  BY <1>1 DEF Offsets, OffsetsOf, OffsOf
<1>3. IndexedOffsets(c, GroupIds) = UNION {OffsOf(c.index[id]) : id \in GroupIds}
  BY DEF IndexedOffsets, OffsOf
<1>4. OffsOf(<<>>) = {} BY DEF OffsOf
<1>5. GroupIds \subseteq TopicIds BY GroupIdsType
<1> QED BY <1>1, <1>2, <1>3, <1>4, <1>5 DEF x

(* Records only accumulate, so what is stored stays stored. *)
LEMMA StoredStays ==
  ASSUME NEW c, NEW s \in Seq(Record), NEW r, ChunkStored(s, c)
  PROVE  ChunkStored(Append(s, r), c)
<1>1. RecordsAt(s, "data", c.off, c.len) \subseteq RecordsAt(Append(s, r), "data", c.off, c.len)
  BY DEF RecordsAt
<1> QED BY <1>1 DEF ChunkStored

LEMMA AppendedIsNotEmpty ==
  ASSUME NEW S, NEW s \in Seq(S), NEW r
  PROVE  Append(s, r) # <<>>
<1>1. Len(Append(s, r)) = Len(s) + 1 /\ Len(s) \in Nat OBVIOUS
<1>2. Len(<<>>) = 0 OBVIOUS
<1> QED BY <1>1, <1>2

LEMMA AppendedEnd ==
  ASSUME NEW s \in Seq(Record), NEW r
  PROVE  StreamEnd(Append(s, r)) = r.at + r.len
<1>1. Append(s, r) # <<>> /\ Append(s, r)[Len(Append(s, r))] = r OBVIOUS
<1> QED BY <1>1 DEF StreamEnd

(* A flush stores what it says it stored. *)
LEMMA FlushStores ==
  ASSUME stream \in Seq(Record), offset = StreamEnd(stream), config \in Config,
         NEW c \in ChunkType, WellBuffered(c, GroupIds), c.buf # <<>>, NEW packed \in Nat,
         NEW r, r = [kind |-> "data", at |-> StreamEnd(stream), len |-> packed, body |-> c.buf]
  PROVE  ChunkStored(Append(stream, r), IndexChunkOf(c, packed))
<1> DEFINE x == IndexChunkOf(c, packed)
           s == Append(stream, r)
<1>1. x.off = offset /\ x.len = packed /\ x.ulen = c.len BY DEF IndexChunkOf
<1>2. r \in RecordsAt(s, "data", x.off, x.len)
  <2>1. Len(stream) + 1 \in DOMAIN s /\ s[Len(stream) + 1] = r OBVIOUS
  <2>2. r.kind = "data" /\ r.at = offset /\ r.len = packed OBVIOUS
  <2> HIDE DEF x, s
  <2> QED BY <1>1, <2>1, <2>2 DEF RecordsAt
<1>3. Offsets(x) = AtsOf(c.buf)
  <2>1. 1 \in DOMAIN c.buf /\ c.buf[1].at = 0 BY DEF ChunkType, WellBuffered
  <2>2. 0 \in AtsOf(c.buf) BY <2>1 DEF AtsOf
  <2>3. AtsOf(c.buf) \subseteq IndexedOffsets(c, GroupIds)
        /\ IndexedOffsets(c, GroupIds) \subseteq AtsOf(c.buf) \cup {0}
    BY DEF WellBuffered, AtsOf
  <2>4. Offsets(x) = IndexedOffsets(c, GroupIds) BY OffsetsOfIndexChunk
  <2>5. IndexedOffsets(c, GroupIds) \subseteq AtsOf(c.buf) BY <2>2, <2>3
  <2>6. IndexedOffsets(c, GroupIds) = AtsOf(c.buf) BY <2>3, <2>5
  <2> QED BY <2>4, <2>6
<1>4. c.len = Last(c.buf).at + Last(c.buf).len BY DEF WellBuffered
<1>5. r.body = c.buf OBVIOUS
<1> HIDE DEF x, s
<1> QED BY <1>1, <1>2, <1>3, <1>4, <1>5 DEF ChunkStored, AtsOf, x, s

LEMMA RecordStep ==
  ASSUME TypeOK, IndexTellsTheTruth, pc # "closed",
         NEW ok \in SinkOutcomes, NEW kind, NEW len, NEW body, Emit(ok, kind, len, body),
         Listed' \subseteq Listed
  PROVE  IndexTellsTheTruth'
<1> DEFINE r == [kind |-> kind, at |-> StreamEnd(stream), len |-> len, body |-> body]
<1>1. CASE ~ok BY <1>1 DEF Emit, IndexTellsTheTruth
<1>2. CASE ok
  <2>1. ~sinkFailed BY <1>2 DEF SinkOutcomes
  <2>2. stream' = Append(stream, r) /\ offset' = offset + len BY <1>2 DEF Emit
  <2>3. stream \in Seq(Record) BY DEF TypeOK
  <2>4. offset = StreamEnd(stream) /\ \A c \in Listed : ChunkStored(stream, c)
    BY <2>1 DEF IndexTellsTheTruth
  <2>5. r.at = offset /\ r.len = len BY <2>4
  <2> HIDE DEF r
  <2>6. StreamEnd(stream') = offset' BY <2>2, <2>3, <2>5, AppendedEnd
  <2>7. \A c \in Listed' : ChunkStored(stream', c) BY <2>2, <2>3, <2>4, StoredStays
  <2> QED BY <2>6, <2>7 DEF IndexTellsTheTruth
<1> QED BY <1>1, <1>2 DEF SinkOutcomes

LEMMA FlushStep ==
  ASSUME TypeOK, IndexTellsTheTruth, pc # "closed", config \in Config,
         NEW c \in ChunkType, ~sinkFailed => WellBuffered(c, GroupIds), c.buf # <<>>,
         NEW packed \in Nat, NEW ok \in SinkOutcomes, Emit(ok, "data", packed, c.buf),
         Listed' \subseteq Listed \cup {IndexChunkOf(c, packed)}
  PROVE  IndexTellsTheTruth'
<1> DEFINE r == [kind |-> "data", at |-> StreamEnd(stream), len |-> packed, body |-> c.buf]
           x == IndexChunkOf(c, packed)
<1>1. CASE ~ok BY <1>1 DEF Emit, IndexTellsTheTruth
<1>2. CASE ok
  <2>1. ~sinkFailed BY <1>2 DEF SinkOutcomes
  <2>2. stream' = Append(stream, r) /\ offset' = offset + packed BY <1>2 DEF Emit
  <2>3. stream \in Seq(Record) BY DEF TypeOK
  <2>4. offset = StreamEnd(stream) /\ \A l \in Listed : ChunkStored(stream, l)
    BY <2>1 DEF IndexTellsTheTruth
  <2>5. r.at = offset /\ r.len = packed BY <2>4
  <2>8. ChunkStored(stream', x) BY <2>1, <2>2, <2>3, <2>4, FlushStores
  <2> HIDE DEF r, x
  <2>6. StreamEnd(stream') = offset' BY <2>2, <2>3, <2>5, AppendedEnd
  <2>7. \A l \in Listed : ChunkStored(stream', l) BY <2>2, <2>3, <2>4, StoredStays
  <2>9. Listed' \subseteq Listed \cup {x} BY DEF x
  <2> QED BY <2>6, <2>7, <2>8, <2>9 DEF IndexTellsTheTruth
<1> QED BY <1>1, <1>2 DEF SinkOutcomes

(* What Listed becomes when a chunk is recorded, and when a group is filed. *)
LEMMA ListedAfterFlush ==
  ASSUME TypeOK, NEW x, indexChunks' = Append(indexChunks, x), indexList' = indexList
  PROVE  Listed' \subseteq Listed \cup {x}
<1>1. indexChunks \in Seq(IndexChunk) BY DEF TypeOK
<1>2. ToSet(indexChunks') \subseteq ToSet(indexChunks) \cup {x} BY <1>1 DEF ToSet
<1> QED BY <1>2 DEF Listed

LEMMA ListedAfterClose ==
  ASSUME TypeOK, NEW filed, indexList' = Append(indexList, filed), indexChunks' = <<>>
  PROVE  Listed' \subseteq Listed \cup ToSet(filed)
<1>1. indexList \in Seq(Seq(IndexChunk)) BY DEF TypeOK
<1>2. \A g \in DOMAIN indexList' : indexList'[g] = filed
                                  \/ (g \in DOMAIN indexList /\ indexList'[g] = indexList[g])
  <2>1. /\ DOMAIN indexList' = 1 .. Len(indexList) + 1
        /\ DOMAIN indexList = 1 .. Len(indexList) /\ Len(indexList) \in Nat
        /\ indexList'[Len(indexList) + 1] = filed
        /\ \A g \in DOMAIN indexList : indexList'[g] = indexList[g]
    BY <1>1
  <2> TAKE g \in DOMAIN indexList'
  <2>2. g = Len(indexList) + 1 \/ g \in DOMAIN indexList BY <2>1
  <2> QED BY <2>1, <2>2
<1>3. ToSet(indexChunks') = {} BY DEF ToSet
<1> QED BY <1>2, <1>3 DEF Listed

(* Calls that are refused, and the program that stopped, change nothing. *)
LEMMA UnchangedIndexInv ==
  ASSUME IndexInv, UNCHANGED <<topicVars, chunkVars, fileVars, sinkVars>>,
         pc' = pc \/ (pc # "closed" /\ pc' = "panicked")
  PROVE  ClosingIsClosed' /\ BufferIndexed' /\ IndexTellsTheTruth'
<1>1. UNCHANGED <<isTopicOpen, config, chunk, indexChunks, indexList, stream, sinkFailed, offset>>
  BY DEF topicVars, chunkVars, fileVars, sinkVars
<1>2. GroupIds' = GroupIds /\ Listed' = Listed BY <1>1 DEF GroupIds, Listed
<1>3. ClosingIsClosed' BY <1>1 DEF IndexInv, ClosingIsClosed
<1>4. BufferIndexed' BY <1>1, <1>2 DEF IndexInv, BufferIndexed
<1>5. IndexTellsTheTruth' BY <1>1, <1>2 DEF IndexInv, IndexTellsTheTruth
<1> QED BY <1>3, <1>4, <1>5

LEMMA RefusedIndexInv ==
  ASSUME IndexInv,
         \/ \E r \in OpenRequests : OpenRejected(r)
         \/ \E nm \in Names, ts \in Times : \/ \E video \in BOOLEAN : WriteRejected(video, nm, ts)
                                           \/ VideoNeedsKeyFrame(nm, ts)
         \/ CloseTopicRejected \/ CloseRejected \/ IndexOutOfRange
  PROVE  ClosingIsClosed' /\ BufferIndexed' /\ IndexTellsTheTruth'
<1>1. (pc # "closed" /\ Panic) \/ \E err \in Results : Rejected(err)
  BY DEF OpenRejected, WriteRejected, VideoNeedsKeyFrame, CloseTopicRejected, CloseRejected,
         IndexOutOfRange, Results, OpenErrors, WriteErrors, CloseErrors, Writable
<1> QED BY <1>1, UnchangedIndexInv DEF Panic, Rejected

LEMMA OpenRejectedLateIndexInv ==
  ASSUME IndexInv, NEW r, OpenRejectedLate(r)
  PROVE  ClosingIsClosed' /\ BufferIndexed' /\ IndexTellsTheTruth'
<1>1. /\ UNCHANGED <<config, chunk, indexChunks, indexList, stream, sinkFailed, offset, pc>>
      /\ pc = "idle" /\ ~isTopicOpen
  BY DEF OpenRejectedLate, Openable, chunkVars, fileVars, sinkVars
<1>2. GroupIds' = GroupIds /\ Listed' = Listed BY <1>1 DEF GroupIds, Listed
<1>3. ClosingIsClosed' BY <1>1 DEF ClosingIsClosed
<1>4. BufferIndexed' BY <1>1, <1>2 DEF IndexInv, BufferIndexed
<1>5. IndexTellsTheTruth' BY <1>1, <1>2 DEF IndexInv, IndexTellsTheTruth
<1> QED BY <1>3, <1>4, <1>5

LEMMA OpenTopicsIndexInv ==
  ASSUME WriterAssumption, IndexInv, NEW r \in OpenRequests, OpenTopics(r)
  PROVE  ClosingIsClosed' /\ BufferIndexed' /\ IndexTellsTheTruth'
<1> DEFINE Id(i) == NextId(i)
           ids == {Id(i) : i \in DOMAIN r.names}
           PlaceOf(nm) == CHOOSE i \in DOMAIN r.names : r.names[i] = nm
<1>1. /\ pc = "idle" /\ ~isTopicOpen /\ pc' = pc
      /\ config' = [ids |-> [nm \in ToSet(r.names) |-> Id(PlaceOf(nm))], mode |-> r.mode,
                    limit |-> r.limit, compressed |-> r.compressed, video |-> r.video]
      /\ chunk' = [index |-> [id \in TopicIds |-> IF id \in ids THEN <<>> ELSE chunk.index[id]],
                   keys  |-> [id \in TopicIds |-> IF id \in ids THEN <<>> ELSE chunk.keys[id]],
                   buf   |-> chunk.buf, len |-> chunk.len]
      /\ UNCHANGED <<indexChunks, indexList, stream, sinkFailed, offset>>
  BY DEF OpenTopics, Openable, sinkVars
<1>2. lastId \in Nat /\ r.names \in Seq(Names) BY DEF WriterAssumption, IndexInv, TypeOK, TopicIds
<1>3. ids \subseteq TopicIds
  <2> SUFFICES ASSUME NEW i \in DOMAIN r.names PROVE Id(i) \in TopicIds OBVIOUS
  <2>1. lastId + i \in Nat BY <1>2
  <2> QED BY <2>1, IdType DEF NextId
<1>4. GroupIds' \subseteq ids
  <2>1. \A nm \in ToSet(r.names) : PlaceOf(nm) \in DOMAIN r.names BY DEF ToSet
  <2>2. \A nm \in ToSet(r.names) : Id(PlaceOf(nm)) \in ids BY <2>1
  <2> HIDE DEF ids, Id, PlaceOf
  <2> QED BY <1>1, <2>2 DEF GroupIds
<1> HIDE DEF ids, Id, PlaceOf
<1>5. \A id \in GroupIds' : chunk'.index[id] = <<>> BY <1>1, <1>3, <1>4
<1>6. ClosingIsClosed' BY <1>1 DEF ClosingIsClosed
<1>7. BufferIndexed'
  <2> SUFFICES ASSUME ~sinkFailed' PROVE BufferIndexed' BY DEF BufferIndexed
  <2>1. chunk.buf = <<>> /\ chunk.len = 0 BY <1>1 DEF IndexInv, BufferIndexed
  <2>2. chunk'.buf = <<>> /\ chunk'.len = 0 BY <1>1, <2>1
  <2>3. WellBuffered(chunk', GroupIds') BY <1>5, <2>2, EmptyWell
  <2> QED BY <2>2, <2>3 DEF BufferIndexed
<1>8. Listed' = Listed BY <1>1 DEF Listed
<1>9. IndexTellsTheTruth' BY <1>1, <1>8 DEF IndexInv, IndexTellsTheTruth
<1> QED BY <1>6, <1>7, <1>9

(* The step of a failed write: nothing is claimed any more. *)
LEMMA FailedIndexInv ==
  ASSUME sinkFailed' PROVE BufferIndexed' /\ IndexTellsTheTruth'
BY DEF BufferIndexed, IndexTellsTheTruth

(* The ids of the open group stay. *)
LEMMA SameGroup == ASSUME config' = config PROVE GroupIds' = GroupIds
BY DEF GroupIds

LEMMA WriteMessageIndexInv ==
  ASSUME WriterAssumption, IndexInv, NEW nm \in Names, NEW len \in Lens, NEW ts \in Times,
         WriteMessage(nm, len, ts)
  PROVE  ClosingIsClosed' /\ BufferIndexed' /\ IndexTellsTheTruth'
<1> DEFINE c == Buffered(chunk, config.ids[nm], ts, len, FALSE)
           st == Counted(status, ts, len)
<1>1. /\ pc = "idle" /\ pc' = pc /\ isTopicOpen /\ config # NoConfig /\ nm \in DOMAIN config.ids
      /\ UNCHANGED <<isTopicOpen, config, indexList>>
  BY DEF WriteMessage, Writable, fileVars
<1>2. /\ config \in Config /\ chunk \in ChunkType /\ log \in Seq(Message) /\ len \in Nat
      /\ indexChunks \in Seq(IndexChunk)
  BY <1>1 DEF IndexInv, TypeOK, WriterAssumption
<1>3. config.ids[nm] \in GroupIds /\ GroupIds \in SUBSET TopicIds
  BY <1>1, <1>2, GroupIdsType DEF GroupIds
<1>4. c \in ChunkType /\ (~sinkFailed => WellBuffered(c, GroupIds)) /\ c.buf # <<>>
  <2>1. c \in ChunkType BY <1>2, <1>3, BufferedType
  <2>2. ~sinkFailed => WellBuffered(chunk, GroupIds) BY <1>1 DEF IndexInv, BufferIndexed
  <2>3. c.buf # <<>>
    <3> DEFINE seg == [n |-> Len(log) + 1, at |-> chunk.len, len |-> len]
    <3>1. c.buf = Append(chunk.buf, seg) BY DEF Buffered
    <3>2. chunk.buf \in Seq(Segment) BY <1>2 DEF ChunkType
    <3> HIDE DEF seg, c
    <3> QED BY <3>1, <3>2
  <2>4. ~sinkFailed => WellBuffered(c, GroupIds) BY <1>2, <1>3, <2>2, BufferedWell
  <2> QED BY <2>1, <2>3, <2>4
<1>5. GroupIds' = GroupIds BY <1>1, SameGroup
<1>6. ClosingIsClosed' BY <1>1 DEF ClosingIsClosed
<1> HIDE DEF c, st
<1>7. CASE chunk' = c /\ UNCHANGED <<indexChunks, sinkVars>>
  <2>1. BufferIndexed' BY <1>1, <1>4, <1>5, <1>7 DEF BufferIndexed, sinkVars
  <2>2. Listed' = Listed BY <1>1, <1>7 DEF Listed
  <2>3. IndexTellsTheTruth' BY <1>1, <1>7, <2>2 DEF IndexInv, IndexTellsTheTruth, sinkVars
  <2> QED BY <1>6, <2>1, <2>3
<1>8. ASSUME NEW ok \in SinkOutcomes, WriteChunk(c, ok),
             chunk' = IF ok THEN Drained(c) ELSE Unindexed(c)
      PROVE  BufferIndexed' /\ IndexTellsTheTruth'
  <2>1. PICK packed \in ChunkLens(c) :
          /\ indexChunks' = Append(indexChunks, IndexChunkOf(c, packed))
          /\ Emit(ok, "data", packed, c.buf)
    BY <1>8 DEF WriteChunk
  <2>2. packed \in Nat BY <1>4, ChunkLensType
  <2>3. Listed' \subseteq Listed \cup {IndexChunkOf(c, packed)}
    BY <1>1, <2>1, ListedAfterFlush DEF IndexInv
  <2>4. IndexTellsTheTruth' BY <1>1, <1>2, <1>4, <2>1, <2>2, <2>3, FlushStep DEF IndexInv
  <2>5. CASE ok
    <3>1. WellBuffered(chunk', GroupIds) BY <1>2, <1>4, <1>8, <2>5, DrainedWell
    <3> QED BY <1>1, <1>5, <2>4, <3>1 DEF BufferIndexed
  <2>6. CASE ~ok BY <2>1, <2>6, FailedIndexInv DEF Emit
  <2> QED BY <2>5, <2>6
<1> QED BY <1>6, <1>7, <1>8 DEF WriteMessage, c, st

LEMMA WriteVideoMessageIndexInv ==
  ASSUME WriterAssumption, IndexInv, NEW nm \in Names, NEW len \in Lens, NEW ts \in Times,
         NEW key \in BOOLEAN, WriteVideoMessage(nm, len, ts, key)
  PROVE  ClosingIsClosed' /\ BufferIndexed' /\ IndexTellsTheTruth'
<1> DEFINE id == config.ids[nm]
           flush == key /\ chunk.len > 0 /\ ThresholdReached(status, lastTimestamp)
           frame == IF key THEN "key" ELSE "delta"
<1>1. /\ pc = "idle" /\ pc' = pc /\ isTopicOpen /\ config # NoConfig /\ nm \in DOMAIN config.ids
      /\ UNCHANGED <<isTopicOpen, config, indexList>>
  BY DEF WriteVideoMessage, Writable, fileVars
<1>2. /\ config \in Config /\ chunk \in ChunkType /\ log \in Seq(Message) /\ len \in Nat
  BY <1>1 DEF IndexInv, TypeOK, WriterAssumption
<1>3. id \in GroupIds /\ GroupIds \in SUBSET TopicIds BY <1>1, <1>2, GroupIdsType DEF GroupIds
<1> HIDE DEF id
<1>4. ~sinkFailed => WellBuffered(chunk, GroupIds) BY <1>1 DEF IndexInv, BufferIndexed
<1>5. GroupIds' = GroupIds BY <1>1, SameGroup
<1>6. ClosingIsClosed' BY <1>1 DEF ClosingIsClosed
<1> HIDE DEF flush, frame
<1>7. CASE chunk' = Buffered(chunk, id, ts, len, key) /\ UNCHANGED <<indexChunks, sinkVars>>
  <2>1. ~sinkFailed => WellBuffered(chunk', GroupIds) BY <1>2, <1>3, <1>4, <1>7, BufferedWell
  <2>2. BufferIndexed' BY <1>1, <1>5, <1>7, <2>1 DEF BufferIndexed, sinkVars
  <2>3. Listed' = Listed BY <1>1, <1>7 DEF Listed
  <2>4. IndexTellsTheTruth' BY <1>1, <1>7, <2>3 DEF IndexInv, IndexTellsTheTruth, sinkVars
  <2> QED BY <1>6, <2>2, <2>4
<1>8. ASSUME NEW ok \in SinkOutcomes, WriteChunk(chunk, ok), flush,
             ok => chunk' = Buffered(Drained(chunk), id, ts, len, key)
      PROVE  BufferIndexed' /\ IndexTellsTheTruth'
  <2>1. PICK packed \in ChunkLens(chunk) :
          /\ indexChunks' = Append(indexChunks, IndexChunkOf(chunk, packed))
          /\ Emit(ok, "data", packed, chunk.buf)
    BY <1>8 DEF WriteChunk
  <2>2. CASE ~ok BY <2>1, <2>2, FailedIndexInv DEF Emit
  <2>3. CASE ok
    <3>1. ~sinkFailed BY <2>3 DEF SinkOutcomes
    <3>2. chunk.buf # <<>>
      <4>1. chunk.len > 0 BY <1>8 DEF flush
      <4> QED BY <1>2, <1>4, <3>1, <4>1 DEF WellBuffered
    <3>3. packed \in Nat BY <1>2, ChunkLensType
    <3>4. Listed' \subseteq Listed \cup {IndexChunkOf(chunk, packed)}
      BY <1>1, <2>1, ListedAfterFlush DEF IndexInv
    <3>5. IndexTellsTheTruth' BY <1>1, <1>2, <1>4, <2>1, <3>2, <3>3, <3>4, FlushStep DEF IndexInv
    <3>6. WellBuffered(chunk', GroupIds)
      <4>1. WellBuffered(Drained(chunk), GroupIds) /\ Drained(chunk) \in ChunkType
        BY <1>2, DrainedWell, DrainedType
      <4> QED BY <1>2, <1>3, <1>8, <2>3, <4>1, BufferedWell
    <3> QED BY <1>1, <1>5, <3>5, <3>6 DEF BufferIndexed
  <2> QED BY <2>2, <2>3
<1> QED BY <1>6, <1>7, <1>8 DEF WriteVideoMessage, id, flush, frame

LEMMA CloseTopicIndexInv ==
  ASSUME WriterAssumption, IndexInv, CloseTopic
  PROVE  ClosingIsClosed' /\ BufferIndexed' /\ IndexTellsTheTruth'
<1>1. /\ pc = "idle" /\ pc' = pc /\ isTopicOpen /\ isTopicOpen' = FALSE /\ config' = config
  BY DEF CloseTopic
<1>2. /\ chunk \in ChunkType /\ indexChunks \in Seq(IndexChunk) /\ config \in Config \cup {NoConfig}
  BY DEF IndexInv, TypeOK
<1>3. /\ ~sinkFailed /\ config # NoConfig => WellBuffered(chunk, GroupIds)
      /\ ~sinkFailed /\ config = NoConfig => chunk.len = 0
  BY DEF IndexInv, BufferIndexed
<1>4. GroupIds' = GroupIds BY <1>1, SameGroup
<1>5. ClosingIsClosed' BY <1>1 DEF ClosingIsClosed
<1>6. CASE /\ chunk.len = 0 /\ chunk' = ClearedBuf(chunk)
           /\ indexList' = Append(indexList, indexChunks) /\ indexChunks' = <<>>
           /\ UNCHANGED sinkVars
  <2>1. chunk'.buf = <<>> /\ chunk'.len = 0 BY <1>6 DEF ClearedBuf
  <2>2. ~sinkFailed /\ config # NoConfig => WellBuffered(chunk', GroupIds)
    BY <1>2, <1>3, <1>6, ClearedWell
  <2>3. BufferIndexed' BY <1>1, <1>4, <1>6, <2>1, <2>2 DEF BufferIndexed, sinkVars
  <2>4. Listed' \subseteq Listed
    <3>1. Listed' \subseteq Listed \cup ToSet(indexChunks) BY <1>6, ListedAfterClose DEF IndexInv
    <3> QED BY <3>1 DEF Listed
  <2>5. IndexTellsTheTruth' BY <1>1, <1>6, <2>4 DEF IndexInv, IndexTellsTheTruth, sinkVars
  <2> QED BY <1>5, <2>3, <2>5
<1>7. ASSUME chunk.len > 0, NEW ok \in SinkOutcomes, NEW packed \in ChunkLens(chunk),
             NEW filed, filed = Append(indexChunks, IndexChunkOf(chunk, packed)),
             Emit(ok, "data", packed, chunk.buf),
             chunk' = IF ok THEN Drained(chunk) ELSE Unindexed(chunk),
             indexList' = IF ok THEN Append(indexList, filed) ELSE indexList,
             indexChunks' = IF ok THEN <<>> ELSE filed
      PROVE  BufferIndexed' /\ IndexTellsTheTruth'
  <2>1. CASE ~ok BY <1>7, <2>1, FailedIndexInv DEF Emit
  <2>2. CASE ok
    <3>1. ~sinkFailed BY <2>2 DEF SinkOutcomes
    <3>2. config \in Config /\ config # NoConfig
      <4>1. chunk.len # 0 BY <1>2, <1>7 DEF ChunkType
      <4> QED BY <1>2, <1>3, <3>1, <4>1
    <3>3. chunk.buf # <<>>
      <4>1. chunk.len # 0 BY <1>2, <1>7 DEF ChunkType
      <4> QED BY <1>3, <3>1, <3>2, <4>1 DEF WellBuffered
    <3>4. packed \in Nat BY <1>2, <1>7, ChunkLensType
    <3>5. ToSet(filed) \subseteq ToSet(indexChunks) \cup {IndexChunkOf(chunk, packed)}
      BY <1>2, <1>7 DEF ToSet
    <3>6. Listed' \subseteq Listed \cup {IndexChunkOf(chunk, packed)}
      <4>1. Listed' \subseteq Listed \cup ToSet(filed)
        BY <1>7, <2>2, ListedAfterClose DEF IndexInv
      <4>2. ToSet(indexChunks) \subseteq Listed BY DEF Listed
      <4> QED BY <3>5, <4>1, <4>2
    <3>7. pc # "closed" BY <1>1
    <3>8. IndexTellsTheTruth'
      BY <1>2, <1>3, <1>7, <3>2, <3>3, <3>4, <3>6, <3>7, FlushStep DEF IndexInv
    <3>9. WellBuffered(chunk', GroupIds) /\ chunk'.buf = <<>> /\ chunk'.len = 0
      BY <1>2, <1>7, <2>2, <3>2, DrainedWell
    <3> QED BY <1>1, <1>4, <3>8, <3>9 DEF BufferIndexed
  <2> QED BY <2>1, <2>2
<1> QED BY <1>5, <1>6, <1>7 DEF CloseTopic

LEMMA CloseIndexInv ==
  ASSUME IndexInv, Close
  PROVE  ClosingIsClosed' /\ BufferIndexed' /\ IndexTellsTheTruth'
<1>1. /\ UNCHANGED <<isTopicOpen, config, chunk, indexChunks, indexList, stream, sinkFailed, offset>>
      /\ pc = "idle" /\ ~isTopicOpen
  BY DEF Close, topicVars, chunkVars, fileVars, sinkVars
<1>2. GroupIds' = GroupIds /\ Listed' = Listed BY <1>1 DEF GroupIds, Listed
<1>3. ClosingIsClosed' BY <1>1 DEF ClosingIsClosed
<1>4. BufferIndexed' BY <1>1, <1>2 DEF IndexInv, BufferIndexed
<1>5. IndexTellsTheTruth' BY <1>1, <1>2 DEF IndexInv, IndexTellsTheTruth
<1> QED BY <1>3, <1>4, <1>5

(* While Close runs nothing is buffered, and resetting the buffer is safe. *)
LEMMA ClosingBuffer ==
  ASSUME IndexInv, ~isTopicOpen, ~sinkFailed' => ~sinkFailed,
         UNCHANGED <<isTopicOpen, config>>,
         chunk' = ClearedBuf(chunk) \/ chunk' = chunk
  PROVE  BufferIndexed'
<1> SUFFICES ASSUME ~sinkFailed' PROVE BufferIndexed' BY DEF BufferIndexed
<1>1. chunk \in ChunkType BY DEF IndexInv, TypeOK
<1>2. chunk.buf = <<>> /\ chunk.len = 0 /\ (config # NoConfig => WellBuffered(chunk, GroupIds))
  BY DEF IndexInv, BufferIndexed
<1>3. chunk'.buf = <<>> /\ chunk'.len = 0 BY <1>2 DEF ClearedBuf
<1>4. config # NoConfig => WellBuffered(chunk', GroupIds) BY <1>1, <1>2, ClearedWell
<1>5. GroupIds' = GroupIds BY SameGroup
<1> QED BY <1>3, <1>4, <1>5 DEF BufferIndexed

LEMMA EmitHealthy ==
  ASSUME NEW ok \in SinkOutcomes, NEW kind, NEW len, NEW body, Emit(ok, kind, len, body)
  PROVE  ~sinkFailed' => ~sinkFailed
BY DEF Emit, SinkOutcomes

LEMMA WriteIndexChunkIndexInv ==
  ASSUME IndexInv, WriteIndexChunk
  PROVE  ClosingIsClosed' /\ BufferIndexed' /\ IndexTellsTheTruth'
<1>1. /\ pc = "indexing" /\ chunk' = ClearedBuf(chunk)
      /\ UNCHANGED <<isTopicOpen, config, indexChunks, indexList>>
  BY DEF WriteIndexChunk, topicVars
<1>2. PICK ok \in SinkOutcomes, packed \in PackedLens :
        /\ Emit(ok, "index", packed, indexList[at[1]][at[2]])
        /\ pc' = IF ok THEN pc ELSE "idle"
  BY DEF WriteIndexChunk
<1>3. ~isTopicOpen BY <1>1 DEF IndexInv, ClosingIsClosed
<1>4. Listed' \subseteq Listed BY <1>1 DEF Listed
<1>5. BufferIndexed' BY <1>1, <1>2, <1>3, EmitHealthy, ClosingBuffer
<1>6. IndexTellsTheTruth' BY <1>1, <1>2, <1>4, RecordStep DEF IndexInv
<1>7. ClosingIsClosed' BY <1>1, <1>2, <1>3 DEF ClosingIsClosed
<1> QED BY <1>5, <1>6, <1>7

LEMMA FinishGroupIndexInv ==
  ASSUME IndexInv, FinishGroup
  PROVE  ClosingIsClosed' /\ BufferIndexed' /\ IndexTellsTheTruth'
<1>1. /\ UNCHANGED <<isTopicOpen, config, chunk, indexChunks, indexList, stream, sinkFailed,
                    offset, pc>>
      /\ pc = "indexing"
  BY DEF FinishGroup, topicVars, chunkVars, sinkVars
<1>2. GroupIds' = GroupIds /\ Listed' = Listed BY <1>1 DEF GroupIds, Listed
<1>3. ClosingIsClosed' BY <1>1 DEF IndexInv, ClosingIsClosed
<1>4. BufferIndexed' BY <1>1, <1>2 DEF IndexInv, BufferIndexed
<1>5. IndexTellsTheTruth' BY <1>1, <1>2 DEF IndexInv, IndexTellsTheTruth
<1> QED BY <1>3, <1>4, <1>5

LEMMA WriteSummaryIndexInv ==
  ASSUME IndexInv, WriteSummary
  PROVE  ClosingIsClosed' /\ BufferIndexed' /\ IndexTellsTheTruth'
<1>1. /\ pc = "indexing" /\ chunk' = ClearedBuf(chunk)
      /\ UNCHANGED <<isTopicOpen, config, indexChunks, indexList>>
  BY DEF WriteSummary, topicVars
<1>2. PICK ok \in SinkOutcomes, packed \in PackedLens :
        /\ Emit(ok, "summary", packed, groups')
        /\ pc' = IF ok THEN "footer" ELSE "idle"
  BY DEF WriteSummary
<1>3. ~isTopicOpen BY <1>1 DEF IndexInv, ClosingIsClosed
<1>4. Listed' \subseteq Listed BY <1>1 DEF Listed
<1>5. ~sinkFailed' => ~sinkFailed BY <1>2 DEF Emit, SinkOutcomes
<1>6. BufferIndexed' BY <1>1, <1>3, <1>5, ClosingBuffer
<1>7. IndexTellsTheTruth'
  <2> DEFINE body == groups'
  <2>1. Emit(ok, "summary", packed, body) BY <1>2
  <2> HIDE DEF body
  <2> QED BY <1>1, <1>4, <2>1, RecordStep DEF IndexInv
<1>8. ClosingIsClosed' BY <1>1, <1>2, <1>3 DEF ClosingIsClosed
<1> QED BY <1>6, <1>7, <1>8

LEMMA WriteFooterIndexInv ==
  ASSUME IndexInv, WriteFooter
  PROVE  ClosingIsClosed' /\ BufferIndexed' /\ IndexTellsTheTruth'
<1> DEFINE r == [kind |-> "footer", at |-> StreamEnd(stream), len |-> FooterLen, body |-> at[3]]
<1>1. /\ pc = "footer"
      /\ UNCHANGED <<isTopicOpen, config, chunk, indexChunks, indexList, offset>>
  BY DEF WriteFooter, topicVars, chunkVars, fileVars
<1>2. PICK ok \in SinkOutcomes :
        /\ sinkFailed' = ~ok
        /\ stream' = IF ok THEN Append(stream, r) ELSE stream
        /\ pc' = IF ok THEN "closed" ELSE "idle"
  BY DEF WriteFooter
<1>3. ~isTopicOpen BY <1>1 DEF IndexInv, ClosingIsClosed
<1>4. ~sinkFailed' => ~sinkFailed BY <1>2 DEF SinkOutcomes
<1>5. BufferIndexed' BY <1>1, <1>3, <1>4, ClosingBuffer
<1>6. Listed' = Listed BY <1>1 DEF Listed
<1>7. IndexTellsTheTruth'
  <2> SUFFICES ASSUME ~sinkFailed' PROVE IndexTellsTheTruth' BY DEF IndexTellsTheTruth
  <2>1. stream' = Append(stream, r) /\ pc' = "closed" BY <1>2
  <2>2. stream \in Seq(Record) /\ \A c \in Listed : ChunkStored(stream, c)
    BY <1>4 DEF IndexInv, TypeOK, IndexTellsTheTruth
  <2> HIDE DEF r
  <2>3. \A c \in Listed' : ChunkStored(stream', c) BY <1>6, <2>1, <2>2, StoredStays
  <2> QED BY <2>1, <2>3 DEF IndexTellsTheTruth
<1>8. ClosingIsClosed' BY <1>1, <1>2, <1>3 DEF ClosingIsClosed
<1> QED BY <1>5, <1>7, <1>8

LEMMA InitIndexInv == ASSUME WriterAssumption, Init PROVE IndexInv
<1>1. TypeOK BY InitType
<1>2. ClosingIsClosed BY DEF Init, ClosingIsClosed
<1>3. chunk.buf = <<>> /\ chunk.len = 0 /\ config = NoConfig BY DEF Init
<1>4. BufferIndexed BY <1>3 DEF BufferIndexed
<1>5. Listed = {} /\ StreamEnd(stream) = 0 /\ offset = 0 BY DEF Init, Listed, ToSet, StreamEnd
<1>6. IndexTellsTheTruth BY <1>5 DEF IndexTellsTheTruth
<1> QED BY <1>1, <1>2, <1>4, <1>6 DEF IndexInv

LEMMA NextIndexInv == ASSUME WriterAssumption, IndexInv, [Next]_vars PROVE IndexInv'
<1>1. TypeOK' BY NextType DEF IndexInv
<1> SUFFICES ClosingIsClosed' /\ BufferIndexed' /\ IndexTellsTheTruth' BY <1>1 DEF IndexInv
<1>2. CASE \E r \in OpenRequests : OpenRejectedLate(r) \/ OpenTopics(r)
  BY <1>2, OpenRejectedLateIndexInv, OpenTopicsIndexInv
<1>3. CASE \E nm \in Names, ts \in Times, len \in Lens :
             \/ WriteMessage(nm, len, ts)
             \/ \E key \in BOOLEAN : WriteVideoMessage(nm, len, ts, key)
  BY <1>3, WriteMessageIndexInv, WriteVideoMessageIndexInv
<1>4. CASE CloseTopic \/ Close BY <1>4, CloseTopicIndexInv, CloseIndexInv
<1>5. CASE WriteIndexChunk \/ FinishGroup \/ WriteSummary \/ WriteFooter
  BY <1>5, WriteIndexChunkIndexInv, FinishGroupIndexInv, WriteSummaryIndexInv, WriteFooterIndexInv
<1>6. CASE \/ \E r \in OpenRequests : OpenRejected(r)
           \/ \E nm \in Names, ts \in Times : \/ \E video \in BOOLEAN : WriteRejected(video, nm, ts)
                                             \/ VideoNeedsKeyFrame(nm, ts)
           \/ CloseTopicRejected \/ CloseRejected \/ IndexOutOfRange
  BY <1>6, RefusedIndexInv
<1>7. CASE UNCHANGED vars
  <2>1. UNCHANGED <<topicVars, chunkVars, fileVars, sinkVars, pc>> BY <1>7 DEF vars
  <2> QED BY <2>1, UnchangedIndexInv
<1> QED BY <1>2, <1>3, <1>4, <1>5, <1>6, <1>7 DEF Next, Done

(* As long as no write failed, every index chunk the Writer will put in    *)
(* the file describes a data chunk that is on the stream, at the place and *)
(* with the message offsets it says, whatever the calls and thresholds.    *)
THEOREM IndexIsTrue == Spec => []IndexTellsTheTruth
<1>1. Init => IndexInv BY WriterAssumption, InitIndexInv
<1>2. IndexInv /\ [Next]_vars => IndexInv' BY WriterAssumption, NextIndexInv
<1>3. IndexInv => IndexTellsTheTruth BY DEF IndexInv
<1> QED BY <1>1, <1>2, <1>3, PTL DEF Spec

(* As long as no write failed, the buffer and the index entries of the     *)
(* chunk in progress describe each other, and nothing is buffered between  *)
(* groups.                                                                 *)
THEOREM BufferIsIndexed == Spec => []BufferIndexed
<1>1. Init => IndexInv BY WriterAssumption, InitIndexInv
<1>2. IndexInv /\ [Next]_vars => IndexInv' BY WriterAssumption, NextIndexInv
<1>3. IndexInv => BufferIndexed BY DEF IndexInv
<1> QED BY <1>1, <1>2, <1>3, PTL DEF Spec

-----------------------------------------------------------------------------
(* The steps of a Writer whose output has not failed, by what they do to   *)
(* the chunk in progress.  The proofs below go through these few shapes    *)
(* instead of through every action.                                        *)

MessageOf(nm, len, ts, frame) == [name |-> nm, ts |-> ts, len |-> len, frame |-> frame]

(* The chunk record that a flush of c puts on the stream. *)
ChunkRecord(c, packed) ==
  [kind |-> "data", at |-> StreamEnd(stream), len |-> packed, body |-> c.buf]

With(c, nm, len, ts, frame) == Buffered(c, config.ids[nm], ts, len, frame = "key")

(* A message is accepted. *)
Taking(nm, len, ts, frame) ==
  /\ isTopicOpen /\ config # NoConfig /\ config \in Config /\ nm \in DOMAIN config.ids
  /\ len \in Nat /\ ts \in Times /\ lastTimestamp <= ts
  /\ frame \in IF config.video THEN {"key", "delta"} ELSE {"plain"}
  /\ frame = "delta" => chunk.len # 0
  /\ lastTimestamp' = ts
  /\ log' = Append(log, MessageOf(nm, len, ts, frame))
  /\ UNCHANGED <<isTopicOpen, config, fileVars, pc>>

CutNow(frame) == frame = "key" /\ chunk.len > 0 /\ ThresholdReached(status, lastTimestamp)

(* It is buffered and nothing is flushed. *)
Keeping(nm, len, ts, frame) ==
  /\ Taking(nm, len, ts, frame)
  /\ IF config.video THEN ~CutNow(frame) ELSE ~ThresholdReached(Counted(status, ts, len), ts)
  /\ chunk' = With(chunk, nm, len, ts, frame)
  /\ status' = Counted(status, ts, len)
  /\ UNCHANGED <<indexChunks, stream>>

(* Chunk c is flushed, stored as packed bytes. *)
Flushing(c, packed) ==
  /\ packed \in Nat /\ packed \in ChunkLens(c)
  /\ offset = StreamEnd(stream)
  /\ indexChunks' = Append(indexChunks, IndexChunkOf(c, packed))
  /\ stream' = Append(stream, ChunkRecord(c, packed))

(* It fills its chunk, which is flushed with it. *)
Filling(nm, len, ts, packed) ==
  /\ Taking(nm, len, ts, "plain")
  /\ ThresholdReached(Counted(status, ts, len), ts)
  /\ Flushing(With(chunk, nm, len, ts, "plain"), packed)
  /\ chunk' = Drained(With(chunk, nm, len, ts, "plain"))
  /\ status' = FreshStatus

(* A key frame begins a chunk, the one before it is flushed. *)
Cutting(nm, len, ts, packed) ==
  /\ Taking(nm, len, ts, "key")
  /\ CutNow("key")
  /\ Flushing(chunk, packed)
  /\ chunk' = With(Drained(chunk), nm, len, ts, "key")
  /\ status' = Counted(FreshStatus, ts, len)

(* CloseTopic, with nothing to flush or with the last chunk of the group. *)
Closing ==
  /\ isTopicOpen /\ ~isTopicOpen'
  /\ indexChunks' = <<>>
  /\ \/ /\ chunk.len = 0 /\ chunk' = ClearedBuf(chunk)
        /\ indexList' = Append(indexList, indexChunks)
        /\ UNCHANGED stream
     \/ /\ chunk.len > 0 /\ chunk' = Drained(chunk) /\ config \in Config /\ config # NoConfig
        /\ \E packed \in ChunkLens(chunk) \cap Nat :
             /\ offset = StreamEnd(stream)
             /\ indexList' = Append(indexList, Append(indexChunks, IndexChunkOf(chunk, packed)))
             /\ stream' = Append(stream, ChunkRecord(chunk, packed))
  /\ UNCHANGED <<config, lastTimestamp, groups, openedNames, lastId, log, pc>>

(* A refused video group opens the last group again. *)
Reopening ==
  /\ ~isTopicOpen /\ isTopicOpen' /\ lastTimestamp' = 0
  /\ UNCHANGED <<config, chunk, status, indexChunks, fileVars, stream, log, pc>>

(* A record that holds no messages. *)
OtherRecord(r) == /\ r.kind # "data" /\ r.at = StreamEnd(stream)
                  /\ r.kind = "index" => r.len > 0

(* Nothing that concerns the messages changes. *)
Quiet ==
  /\ UNCHANGED <<isTopicOpen, config, lastTimestamp, status, indexChunks, indexList,
                 openedNames, lastId, log>>
  /\ chunk' = chunk \/ (~isTopicOpen /\ chunk' = ClearedBuf(chunk))
  /\ Len(groups') = Len(groups)
  /\ \/ stream' = stream
     \/ \E r : stream' = Append(stream, r) /\ OtherRecord(r)

HealthyStep ==
  \/ \E r \in OpenRequests : OpenTopics(r)
  \/ Reopening
  \/ \E nm \in Names, len \in Nat, ts \in Times :
       \/ \E frame \in {"plain", "key", "delta"} : Keeping(nm, len, ts, frame)
       \/ \E packed \in Nat : Filling(nm, len, ts, packed) \/ Cutting(nm, len, ts, packed)
  \/ Closing
  \/ Quiet

(* writeChunk, when the write succeeds. *)
LEMMA FlushShape ==
  ASSUME WriterAssumption, IndexInv, pc = "idle", NEW c \in ChunkType, NEW ok \in SinkOutcomes,
         WriteChunk(c, ok), ~sinkFailed'
  PROVE  ok /\ \E packed \in Nat : Flushing(c, packed)
<1>1. PICK packed \in ChunkLens(c) :
        /\ indexChunks' = Append(indexChunks, IndexChunkOf(c, packed))
        /\ Emit(ok, "data", packed, c.buf)
  BY DEF WriteChunk
<1>2. ok /\ ~sinkFailed BY <1>1 DEF Emit, SinkOutcomes
<1>3. stream' = Append(stream, ChunkRecord(c, packed)) BY <1>1, <1>2 DEF Emit, ChunkRecord
<1>4. offset = StreamEnd(stream) BY <1>2 DEF IndexInv, IndexTellsTheTruth
<1>5. packed \in Nat BY ChunkLensType
<1> QED BY <1>1, <1>2, <1>3, <1>4, <1>5 DEF Flushing

(* The shapes of the calls, one lemma for each. *)
LEMMA WriteMessageShape ==
  ASSUME WriterAssumption, IndexInv, NEW nm \in Names, NEW len \in Lens, NEW ts \in Times,
         WriteMessage(nm, len, ts), ~sinkFailed'
  PROVE  \/ Keeping(nm, len, ts, "plain")
         \/ \E packed \in Nat : Filling(nm, len, ts, packed)
<1> DEFINE c == Buffered(chunk, config.ids[nm], ts, len, FALSE)
           st == Counted(status, ts, len)
<1>1. /\ pc = "idle" /\ isTopicOpen /\ config # NoConfig /\ ~config.video
      /\ nm \in DOMAIN config.ids /\ lastTimestamp <= ts /\ len \in Nat
      /\ chunk \in ChunkType /\ log \in Seq(Message) /\ config \in Config
      /\ ts \in Int /\ lastTimestamp \in Int
  BY DEF WriteMessage, Writable, IndexInv, TypeOK, WriterAssumption
<1>2. Taking(nm, len, ts, "plain")
  BY <1>1 DEF WriteMessage, Accept, Taking, MessageOf
<1>3. c = With(chunk, nm, len, ts, "plain") BY DEF With
<1>4. c \in ChunkType BY <1>1, ConfigIds, BufferedType
<1> HIDE DEF c, st
<1>5. CASE ~ThresholdReached(st, ts) /\ chunk' = c /\ status' = st /\ UNCHANGED <<indexChunks, sinkVars>>
  BY <1>1, <1>2, <1>3, <1>5 DEF Keeping, sinkVars, st
<1>6. ASSUME ThresholdReached(st, ts), NEW ok \in SinkOutcomes, WriteChunk(c, ok),
             chunk' = IF ok THEN Drained(c) ELSE Unindexed(c),
             status' = IF ok THEN FreshStatus ELSE st
      PROVE  \E packed \in Nat : Filling(nm, len, ts, packed)
  <2>1. ok /\ \E packed \in Nat : Flushing(c, packed) BY <1>1, <1>4, <1>6, FlushShape
  <2> QED BY <1>2, <1>3, <1>6, <2>1 DEF Filling, st
<1> QED BY <1>5, <1>6 DEF WriteMessage, c, st

LEMMA WriteVideoMessageShape ==
  ASSUME WriterAssumption, IndexInv, NEW nm \in Names, NEW len \in Lens, NEW ts \in Times,
         NEW key \in BOOLEAN, WriteVideoMessage(nm, len, ts, key), ~sinkFailed'
  PROVE  \/ \E frame \in {"key", "delta"} : Keeping(nm, len, ts, frame)
         \/ \E packed \in Nat : Cutting(nm, len, ts, packed)
<1> DEFINE frame == IF key THEN "key" ELSE "delta"
           flush == key /\ chunk.len > 0 /\ ThresholdReached(status, lastTimestamp)
<1>1. /\ pc = "idle" /\ isTopicOpen /\ config # NoConfig /\ config.video
      /\ nm \in DOMAIN config.ids /\ lastTimestamp <= ts /\ len \in Nat
      /\ chunk \in ChunkType /\ log \in Seq(Message) /\ config \in Config
      /\ ts \in Int /\ lastTimestamp \in Int
  BY DEF WriteVideoMessage, Writable, IndexInv, TypeOK, WriterAssumption
<1>2. /\ frame \in {"key", "delta"}
      /\ frame = "delta" => chunk.len # 0
      /\ (frame = "key") = key
  BY DEF WriteVideoMessage
<1>3. flush = CutNow(frame) BY <1>2 DEF CutNow
<1>4. ASSUME Accept(nm, len, ts, frame) PROVE Taking(nm, len, ts, frame)
  <2>1. UNCHANGED <<isTopicOpen, config, fileVars, pc>> BY DEF WriteVideoMessage
  <2> HIDE DEF frame
  <2> QED BY <1>1, <1>2, <1>4, <2>1 DEF Accept, Taking, MessageOf
<1>5. \A c : Buffered(c, config.ids[nm], ts, len, key) = With(c, nm, len, ts, frame)
  BY <1>2 DEF With
<1>6. \/ /\ ~flush
         /\ Accept(nm, len, ts, frame)
         /\ chunk' = Buffered(chunk, config.ids[nm], ts, len, key)
         /\ status' = Counted(status, ts, len)
         /\ UNCHANGED <<indexChunks, sinkVars>>
      \/ /\ flush
         /\ \E ok \in SinkOutcomes :
              /\ WriteChunk(chunk, ok)
              /\ ok => /\ Accept(nm, len, ts, frame)
                       /\ chunk' = Buffered(Drained(chunk), config.ids[nm], ts, len, key)
                       /\ status' = Counted(FreshStatus, ts, len)
  BY DEF WriteVideoMessage
<1>7. flush => frame = "key" OBVIOUS
<1> HIDE DEF frame, flush
<1>8. CASE /\ ~flush
           /\ Accept(nm, len, ts, frame)
           /\ chunk' = Buffered(chunk, config.ids[nm], ts, len, key)
           /\ status' = Counted(status, ts, len)
           /\ UNCHANGED <<indexChunks, sinkVars>>
  <2>1. Keeping(nm, len, ts, frame) BY <1>1, <1>3, <1>4, <1>5, <1>8 DEF Keeping, sinkVars
  <2> QED BY <1>2, <2>1
<1>9. ASSUME flush, NEW ok \in SinkOutcomes, WriteChunk(chunk, ok),
             ok => /\ Accept(nm, len, ts, frame)
                   /\ chunk' = Buffered(Drained(chunk), config.ids[nm], ts, len, key)
                   /\ status' = Counted(FreshStatus, ts, len)
      PROVE  \E packed \in Nat : Cutting(nm, len, ts, packed)
  <2>1. ok /\ \E packed \in Nat : Flushing(chunk, packed) BY <1>1, <1>9, FlushShape
  <2> QED BY <1>3, <1>4, <1>5, <1>7, <1>9, <2>1 DEF Cutting
<1> QED BY <1>6, <1>8, <1>9

LEMMA CloseTopicShape ==
  ASSUME WriterAssumption, IndexInv, CloseTopic, ~sinkFailed'
  PROVE  Closing
<1>1. /\ pc = "idle" /\ isTopicOpen /\ ~isTopicOpen' /\ chunk \in ChunkType
      /\ config \in Config \cup {NoConfig}
      /\ UNCHANGED <<config, lastTimestamp, groups, openedNames, lastId, log, pc>>
  BY DEF CloseTopic, IndexInv, TypeOK
<1>2. CASE /\ chunk.len = 0 /\ chunk' = ClearedBuf(chunk)
           /\ indexList' = Append(indexList, indexChunks) /\ indexChunks' = <<>>
           /\ UNCHANGED sinkVars
  BY <1>1, <1>2 DEF Closing, sinkVars
<1>3. ASSUME chunk.len > 0, NEW ok \in SinkOutcomes, NEW packed \in ChunkLens(chunk),
             NEW filed, filed = Append(indexChunks, IndexChunkOf(chunk, packed)),
             Emit(ok, "data", packed, chunk.buf),
             chunk' = IF ok THEN Drained(chunk) ELSE Unindexed(chunk),
             indexList' = IF ok THEN Append(indexList, filed) ELSE indexList,
             indexChunks' = IF ok THEN <<>> ELSE filed
      PROVE  Closing
  <2>1. ok /\ ~sinkFailed BY <1>3 DEF Emit, SinkOutcomes
  <2>2. packed \in Nat BY <1>1, <1>3, ChunkLensType
  <2>3. offset = StreamEnd(stream) BY <1>1, <2>1 DEF IndexInv, IndexTellsTheTruth
  <2>4. stream' = Append(stream, ChunkRecord(chunk, packed)) BY <1>3, <2>1 DEF Emit, ChunkRecord
  <2>5. config \in Config /\ config # NoConfig
    <3>1. chunk.len # 0 BY <1>1, <1>3 DEF ChunkType
    <3> QED BY <1>1, <2>1, <3>1 DEF IndexInv, BufferIndexed
  <2>6. packed \in ChunkLens(chunk) \cap Nat BY <2>2
  <2>7. /\ indexList' = Append(indexList, Append(indexChunks, IndexChunkOf(chunk, packed)))
        /\ indexChunks' = <<>> /\ chunk' = Drained(chunk)
    BY <1>3, <2>1
  <2> QED BY <1>1, <1>3, <2>3, <2>4, <2>5, <2>6, <2>7 DEF Closing
<1> QED BY <1>2, <1>3 DEF CloseTopic

LEMMA StampedLen == ASSUME groups \in Seq(TopicsInfo), WriteSummary PROVE Len(groups') = Len(groups)
BY DEF WriteSummary

(* What is left: Close and the calls that are refused. *)
LEMMA QuietShape ==
  ASSUME WriterAssumption, IndexInv, ~sinkFailed',
         \/ Close \/ WriteIndexChunk \/ FinishGroup \/ WriteSummary \/ WriteFooter
         \/ Panic \/ (\E err \in Results : Rejected(err)) \/ UNCHANGED vars
  PROVE  Quiet
<1>0. groups \in Seq(TopicsInfo) /\ at \in Position BY DEF IndexInv, TypeOK, Position
<1>1. CASE Close \/ Panic \/ (\E err \in Results : Rejected(err)) \/ UNCHANGED vars
  BY <1>1 DEF Quiet, Close, Panic, Rejected, vars, topicVars, chunkVars, fileVars, sinkVars
<1>2. ASSUME NEW ok \in SinkOutcomes, NEW kind, NEW len, NEW body, Emit(ok, kind, len, body),
             kind # "data", kind = "index" => len > 0
      PROVE  \E r : stream' = Append(stream, r) /\ OtherRecord(r)
  <2> DEFINE r == [kind |-> kind, at |-> StreamEnd(stream), len |-> len, body |-> body]
  <2>1. stream' = Append(stream, r) BY <1>2 DEF Emit
  <2>2. OtherRecord(r) BY <1>2 DEF OtherRecord
  <2> HIDE DEF r
  <2> QED BY <2>1, <2>2
<1>3. CASE WriteIndexChunk
  <2>1. PICK ok \in SinkOutcomes, packed \in PackedLens :
          Emit(ok, "index", packed, indexList[at[1]][at[2]])
    BY <1>3 DEF WriteIndexChunk
  <2>5. packed > 0 BY DEF WriterAssumption
  <2>2. \E r : stream' = Append(stream, r) /\ OtherRecord(r) BY <1>2, <2>1, <2>5
  <2>3. ~isTopicOpen BY <1>3 DEF WriteIndexChunk, IndexInv, ClosingIsClosed
  <2>4. Len(groups') = Len(groups) BY <1>0, <1>3 DEF WriteIndexChunk
  <2> QED BY <1>3, <2>2, <2>3, <2>4 DEF Quiet, WriteIndexChunk, topicVars
<1>4. CASE FinishGroup
  <2>1. Len(groups') = Len(groups) BY <1>0, <1>4 DEF FinishGroup
  <2> QED BY <1>4, <2>1 DEF Quiet, FinishGroup, topicVars, chunkVars, sinkVars
<1>5. CASE WriteSummary
  <2> DEFINE body == groups'
  <2>1. PICK ok \in SinkOutcomes, packed \in PackedLens : Emit(ok, "summary", packed, body)
    BY <1>5 DEF WriteSummary
  <2>4. Len(body) = Len(groups) BY <1>0, <1>5, StampedLen
  <2>2. \E r : stream' = Append(stream, r) /\ OtherRecord(r)
    <3> HIDE DEF body
    <3> QED BY <1>2, <2>1
  <2>3. ~isTopicOpen BY <1>5 DEF WriteSummary, IndexInv, ClosingIsClosed
  <2> QED BY <1>5, <2>2, <2>3, <2>4 DEF Quiet, WriteSummary, topicVars
<1>6. CASE WriteFooter
  <2> DEFINE r == [kind |-> "footer", at |-> StreamEnd(stream), len |-> FooterLen, body |-> at[3]]
  <2>1. stream' = Append(stream, r) BY <1>6 DEF WriteFooter
  <2>2. OtherRecord(r) BY DEF OtherRecord
  <2> HIDE DEF r
  <2> QED BY <1>6, <2>1, <2>2 DEF Quiet, WriteFooter, topicVars, chunkVars, fileVars
<1> QED BY <1>1, <1>3, <1>4, <1>5, <1>6

(* As long as the output does not fail every step has one of the shapes. *)
LEMMA Shapes ==
  ASSUME WriterAssumption, IndexInv, [Next]_vars, ~sinkFailed'
  PROVE  HealthyStep /\ ~sinkFailed
<1>1. CASE \E r \in OpenRequests : OpenTopics(r)
  <2>1. UNCHANGED sinkVars BY <1>1 DEF OpenTopics
  <2> QED BY <1>1, <2>1 DEF HealthyStep, sinkVars
<1>2. CASE \E r \in OpenRequests : OpenRejectedLate(r)
  BY <1>2 DEF HealthyStep, Reopening, OpenRejectedLate, Openable, chunkVars, sinkVars
<1>3. CASE \E nm \in Names, ts \in Times, len \in Lens : WriteMessage(nm, len, ts)
  <2>1. PICK nm \in Names, ts \in Times, len \in Lens : WriteMessage(nm, len, ts) BY <1>3
  <2>2. HealthyStep
    <3>1. len \in Nat BY DEF WriterAssumption
    <3>2. \/ Keeping(nm, len, ts, "plain")
          \/ \E packed \in Nat : Filling(nm, len, ts, packed)
      BY <2>1, WriteMessageShape
    <3> QED BY <3>1, <3>2 DEF HealthyStep
  <2>3. ~sinkFailed BY <2>1 DEF WriteMessage, WriteChunk, Emit, SinkOutcomes, sinkVars
  <2> QED BY <2>2, <2>3
<1>4. CASE \E nm \in Names, ts \in Times, len \in Lens, key \in BOOLEAN :
             WriteVideoMessage(nm, len, ts, key)
  <2>1. PICK nm \in Names, ts \in Times, len \in Lens, key \in BOOLEAN :
          WriteVideoMessage(nm, len, ts, key)
    BY <1>4
  <2>2. HealthyStep
    <3>1. len \in Nat BY DEF WriterAssumption
    <3>2. \/ \E frame \in {"key", "delta"} : Keeping(nm, len, ts, frame)
          \/ \E packed \in Nat : Cutting(nm, len, ts, packed)
      BY <2>1, WriteVideoMessageShape
    <3> QED BY <3>1, <3>2 DEF HealthyStep
  <2>3. ~sinkFailed BY <2>1 DEF WriteVideoMessage, WriteChunk, Emit, SinkOutcomes, sinkVars
  <2> QED BY <2>2, <2>3
<1>5. CASE CloseTopic
  <2>1. ~sinkFailed BY <1>5 DEF CloseTopic, Emit, SinkOutcomes, sinkVars
  <2> QED BY <1>5, <2>1, CloseTopicShape DEF HealthyStep
<1>6. CASE \/ Close \/ WriteIndexChunk \/ FinishGroup \/ WriteSummary \/ WriteFooter
           \/ Panic \/ (\E err \in Results : Rejected(err)) \/ UNCHANGED vars
  <2>1. ~sinkFailed
    BY <1>6 DEF Close, WriteIndexChunk, FinishGroup, WriteSummary, WriteFooter, Panic, Rejected,
                vars, sinkVars, Emit, SinkOutcomes
  <2> QED BY <1>6, <2>1, QuietShape DEF HealthyStep
<1>7. CASE \/ \E r \in OpenRequests : OpenRejected(r)
           \/ \E nm \in Names, ts \in Times : \/ \E video \in BOOLEAN : WriteRejected(video, nm, ts)
                                             \/ VideoNeedsKeyFrame(nm, ts)
           \/ CloseTopicRejected \/ CloseRejected \/ IndexOutOfRange
  <2>1. Panic \/ \E err \in Results : Rejected(err)
    BY <1>7 DEF OpenRejected, WriteRejected, VideoNeedsKeyFrame, CloseTopicRejected, CloseRejected,
           IndexOutOfRange, Results, OpenErrors, WriteErrors, CloseErrors
  <2> QED BY <1>6, <2>1
<1> QED BY <1>1, <1>2, <1>3, <1>4, <1>5, <1>6, <1>7 DEF Next, Done

-----------------------------------------------------------------------------
(* Groups and files of index chunks correspond: a group is opened before   *)
(* its index chunks are filed, and indexing never gets past the groups.    *)
Filed ==
  ~sinkFailed => /\ Len(groups) <= Len(indexList) + (IF isTopicOpen THEN 1 ELSE 0)
                 /\ ~isTopicOpen => indexChunks = <<>>

LEMMA LensType ==
  ASSUME TypeOK PROVE Len(groups) \in Nat /\ Len(indexList) \in Nat
BY DEF TypeOK

LEMMA OpenTopicsLen ==
  ASSUME TypeOK, NEW r, OpenTopics(r)
  PROVE  /\ Len(groups') = Len(groups) + 1 /\ ~isTopicOpen /\ isTopicOpen'
         /\ UNCHANGED <<indexChunks, indexList, stream, sinkFailed, offset, log, pc>>
         /\ lastTimestamp' = 0 /\ status' = FreshStatus
<1> DEFINE g == [topics |-> [i \in DOMAIN r.names |->
                               [id |-> NextId(i), name |-> r.names[i], count |-> 0]],
                 infos |-> <<>>, total |-> 0]
<1>1. groups' = Append(groups, g) BY DEF OpenTopics
<1> HIDE DEF g
<1>2. Len(groups') = Len(groups) + 1 BY <1>1 DEF TypeOK
<1>3. /\ ~isTopicOpen /\ isTopicOpen' /\ lastTimestamp' = 0 /\ status' = FreshStatus
      /\ UNCHANGED <<indexChunks, indexList, sinkVars, log, pc>>
  BY DEF OpenTopics, Openable
<1> QED BY <1>2, <1>3 DEF sinkVars

LEMMA ClosingLen ==
  ASSUME TypeOK, Closing
  PROVE  Len(indexList') = Len(indexList) + 1 /\ groups' = groups
BY DEF Closing, TypeOK

(* Filed is inductive by itself. *)
LEMMA FiledStep ==
  ASSUME WriterAssumption, IndexInv, Filed, [Next]_vars
  PROVE  Filed'
<1> SUFFICES ASSUME ~sinkFailed' PROVE Filed' BY DEF Filed
<1>1. HealthyStep /\ ~sinkFailed BY Shapes
<1>2. TypeOK /\ Len(groups) \in Nat /\ Len(indexList) \in Nat BY LensType DEF IndexInv
<1>3. CASE \E r \in OpenRequests : OpenTopics(r)
  <2>1. PICK r \in OpenRequests : OpenTopics(r) BY <1>3
  <2> QED BY <1>1, <1>2, <2>1, OpenTopicsLen DEF Filed
<1>4. CASE Reopening BY <1>1, <1>2, <1>4 DEF Reopening, Filed, fileVars
<1>5. CASE \E nm \in Names, len \in Nat, ts \in Times :
             \/ \E frame \in {"plain", "key", "delta"} : Keeping(nm, len, ts, frame)
             \/ \E packed \in Nat : Filling(nm, len, ts, packed) \/ Cutting(nm, len, ts, packed)
  <2>1. isTopicOpen /\ isTopicOpen' /\ groups' = groups /\ indexList' = indexList
    BY <1>5 DEF Keeping, Filling, Cutting, Taking, fileVars
  <2> QED BY <1>1, <2>1 DEF Filed
<1>6. CASE Closing
  <2>1. isTopicOpen /\ ~isTopicOpen' /\ indexChunks' = <<>> BY <1>6 DEF Closing
  <2> QED BY <1>1, <1>2, <1>6, <2>1, ClosingLen DEF Filed
<1>7. CASE Quiet BY <1>1, <1>7 DEF Quiet, Filed
<1> QED BY <1>1, <1>3, <1>4, <1>5, <1>6, <1>7 DEF HealthyStep

(* A group that was opened again stays so: what held before holds after    *)
(* every step but the one that reopens it.                                 *)
LEMMA NotReopenedBefore ==
  ASSUME WriterAssumption, IndexInv, Filed, [Next]_vars, ~sinkFailed', NotReopened'
  PROVE  HealthyStep /\ ~Reopening /\ ~sinkFailed /\ NotReopened
<1>1. HealthyStep /\ ~sinkFailed BY Shapes
<1>2. TypeOK /\ Len(groups) \in Nat /\ Len(indexList) \in Nat BY LensType DEF IndexInv
<1>3. CASE \E r \in OpenRequests : OpenTopics(r)
  <2>1. PICK r \in OpenRequests : OpenTopics(r) BY <1>3
  <2>2. Len(groups) + 1 = Len(indexList) + 1 /\ ~isTopicOpen
    BY <1>2, <2>1, OpenTopicsLen DEF NotReopened
  <2>3. ~Reopening BY <1>2, <2>1, OpenTopicsLen DEF Reopening, fileVars
  <2> QED BY <1>1, <1>2, <2>2, <2>3 DEF NotReopened
<1>4. CASE Reopening
  <2>1. Len(groups) = Len(indexList) + 1 BY <1>4 DEF Reopening, fileVars, NotReopened
  <2>2. Len(groups) <= Len(indexList) BY <1>1, <1>2, <1>4 DEF Reopening, Filed
  <2> QED BY <1>2, <2>1, <2>2
<1>5. CASE \E nm \in Names, len \in Nat, ts \in Times :
             \/ \E frame \in {"plain", "key", "delta"} : Keeping(nm, len, ts, frame)
             \/ \E packed \in Nat : Filling(nm, len, ts, packed) \/ Cutting(nm, len, ts, packed)
  <2>1. isTopicOpen /\ isTopicOpen' /\ groups' = groups /\ indexList' = indexList
    BY <1>5 DEF Keeping, Filling, Cutting, Taking, fileVars
  <2> QED BY <1>1, <2>1 DEF NotReopened, Reopening
<1>6. CASE Closing
  <2>1. isTopicOpen /\ ~isTopicOpen' BY <1>6 DEF Closing
  <2> QED BY <1>1, <1>2, <1>6, <2>1, ClosingLen DEF NotReopened, Reopening
<1>7. CASE Quiet BY <1>1, <1>7 DEF Quiet, NotReopened, Reopening
<1> QED BY <1>1, <1>3, <1>4, <1>5, <1>6, <1>7 DEF HealthyStep

(* The first state of a group: its ids and an empty chunk. *)
LEMMA OpenedGroup ==
  ASSUME WriterAssumption, TypeOK, NEW r \in OpenRequests, OpenTopics(r)
  PROVE  /\ \A id \in GroupIds' : chunk'.index[id] = <<>> /\ chunk'.keys[id] = <<>>
         /\ chunk'.buf = chunk.buf /\ chunk'.len = chunk.len
         /\ config'.video = r.video /\ config'.compressed = r.compressed
         /\ DOMAIN config'.ids = ToSet(r.names)
         /\ config'.mode = r.mode /\ config'.limit = r.limit
         /\ openedNames' = openedNames \cup ToSet(r.names)
         /\ GroupIds' \subseteq TopicIds
<1> DEFINE Id(i) == NextId(i)
           ids == {Id(i) : i \in DOMAIN r.names}
           PlaceOf(nm) == CHOOSE i \in DOMAIN r.names : r.names[i] = nm
<1>1. /\ config' = [ids |-> [nm \in ToSet(r.names) |-> Id(PlaceOf(nm))], mode |-> r.mode,
                    limit |-> r.limit, compressed |-> r.compressed, video |-> r.video]
      /\ chunk' = [index |-> [id \in TopicIds |-> IF id \in ids THEN <<>> ELSE chunk.index[id]],
                   keys  |-> [id \in TopicIds |-> IF id \in ids THEN <<>> ELSE chunk.keys[id]],
                   buf   |-> chunk.buf, len |-> chunk.len]
      /\ openedNames' = openedNames \cup ToSet(r.names)
  BY DEF OpenTopics
<1>2. lastId \in Nat /\ r.names \in Seq(Names) BY DEF WriterAssumption, TypeOK, TopicIds
<1>3. ids \subseteq TopicIds
  <2> SUFFICES ASSUME NEW i \in DOMAIN r.names PROVE Id(i) \in TopicIds OBVIOUS
  <2>1. lastId + i \in Nat BY <1>2
  <2> QED BY <2>1, IdType DEF NextId
<1>4. GroupIds' \subseteq ids
  <2>1. \A nm \in ToSet(r.names) : PlaceOf(nm) \in DOMAIN r.names BY DEF ToSet
  <2>2. \A nm \in ToSet(r.names) : Id(PlaceOf(nm)) \in ids BY <2>1
  <2> HIDE DEF ids, Id, PlaceOf
  <2> QED BY <1>1, <2>2 DEF GroupIds
<1> HIDE DEF ids, Id, PlaceOf
<1> QED BY <1>1, <1>3, <1>4

-----------------------------------------------------------------------------
(* Time order.  ChunksInTimeOrder speaks of chunks already flushed; what   *)
(* makes the next one fit is that the chunk in progress is sorted, not     *)
(* later than lastTimestamp and not older than any chunk before it.        *)

SortedMsgs(msgs) == \A i, j \in DOMAIN msgs : i <= j => msgs[i].ts <= msgs[j].ts
SortedChunk(x) == \A id \in DOMAIN x.topics : SortedMsgs(x.topics[id].msgs)

StampsOf(msgs) == {msgs[k].ts : k \in DOMAIN msgs}
Collected(c) == UNION {StampsOf(c.index[id]) : id \in GroupIds}

Ordered(c, ics, last) ==
  /\ \A id \in GroupIds : SortedMsgs(c.index[id])
  /\ \A t \in Collected(c) : t <= last
  /\ \A x \in ToSet(ics) : \A t \in Timestamps(x) : t <= last /\ \A u \in Collected(c) : t <= u
  /\ InTimeOrder(ics)

OrderInv ==
  /\ IndexInv
  /\ Filed
  /\ ~sinkFailed /\ NotReopened =>
       /\ isTopicOpen => Ordered(chunk, indexChunks, lastTimestamp)
       /\ \A x \in Listed : SortedChunk(x)
       /\ ChunksInTimeOrder

(* Appending to a sequence, seen through its timestamps. *)
LEMMA AppendStamps ==
  ASSUME NEW S, NEW s \in Seq(S), NEW x, NEW t, t = Append(s, x)
  PROVE  StampsOf(t) = StampsOf(s) \cup {x.ts}
<1>1. /\ DOMAIN t = 1 .. Len(s) + 1 /\ DOMAIN s = 1 .. Len(s) /\ Len(s) \in Nat
      /\ t[Len(s) + 1] = x /\ \A k \in DOMAIN s : t[k] = s[k]
  OBVIOUS
<1>2. ASSUME NEW k \in DOMAIN t PROVE t[k].ts \in {s[j].ts : j \in DOMAIN s} \cup {x.ts}
  <2>1. k = Len(s) + 1 \/ k \in DOMAIN s BY <1>1
  <2> QED BY <1>1, <2>1
<1>3. ASSUME NEW k \in DOMAIN s PROVE s[k].ts \in {t[j].ts : j \in DOMAIN t}
  <2>1. k \in DOMAIN t BY <1>1
  <2> QED BY <1>1, <2>1
<1>4. x.ts \in {t[j].ts : j \in DOMAIN t}
  <2>1. Len(s) + 1 \in DOMAIN t BY <1>1
  <2> QED BY <1>1, <2>1
<1> QED BY <1>2, <1>3, <1>4 DEF StampsOf

LEMMA AppendSorted ==
  ASSUME NEW S, NEW s \in Seq(S), SortedMsgs(s), NEW x, \A t \in StampsOf(s) : t <= x.ts,
         x.ts \in Int
  PROVE  SortedMsgs(Append(s, x))
<1> DEFINE t == Append(s, x)
<1>1. /\ DOMAIN t = 1 .. Len(s) + 1 /\ DOMAIN s = 1 .. Len(s) /\ Len(s) \in Nat
      /\ t[Len(s) + 1] = x /\ \A k \in DOMAIN s : t[k] = s[k]
  OBVIOUS
<1> HIDE DEF t
<1>2. SUFFICES ASSUME NEW i \in DOMAIN t, NEW j \in DOMAIN t, i <= j PROVE t[i].ts <= t[j].ts
  BY DEF SortedMsgs, t
<1>3. CASE j \in DOMAIN s
  <2>1. i \in DOMAIN s BY <1>1, <1>2, <1>3
  <2> QED BY <1>1, <1>2, <1>3, <2>1 DEF SortedMsgs
<1>4. CASE j = Len(s) + 1 /\ i \in DOMAIN s BY <1>1, <1>4 DEF StampsOf
<1>5. CASE j = Len(s) + 1 /\ i = Len(s) + 1 BY <1>1, <1>5
<1>6. i = Len(s) + 1 \/ i \in DOMAIN s BY <1>1
<1>7. j = Len(s) + 1 \/ j \in DOMAIN s BY <1>1
<1> QED BY <1>3, <1>4, <1>5, <1>6, <1>7

(* Timestamps are integers. *)
LEMMA CollectedInt ==
  ASSUME WriterAssumption, NEW c \in ChunkType, config \in Config
  PROVE  Collected(c) \subseteq Int
<1> SUFFICES ASSUME NEW id \in GroupIds, NEW k \in DOMAIN c.index[id]
             PROVE  c.index[id][k].ts \in Int
  BY DEF Collected, StampsOf
<1>1. c.index[id] \in Seq(MessageIndex) BY GroupIdsType DEF ChunkType
<1>2. c.index[id][k] \in MessageIndex BY <1>1
<1> QED BY <1>2 DEF MessageIndex, WriterAssumption

LEMMA TimestampsInt ==
  ASSUME WriterAssumption, NEW x \in IndexChunk
  PROVE  Timestamps(x) \subseteq Int
<1> SUFFICES ASSUME NEW id \in DOMAIN x.topics, NEW k \in DOMAIN x.topics[id].msgs
             PROVE  x.topics[id].msgs[k].ts \in Int
  BY DEF Timestamps
<1>1. x.topics[id].msgs \in Seq(MessageIndex) BY DEF IndexChunk, TopicIndex
<1>2. x.topics[id].msgs[k] \in MessageIndex BY <1>1
<1> QED BY <1>2 DEF MessageIndex, WriterAssumption

(* A message not older than the last one keeps everything in order. *)
LEMMA BufferedOrdered ==
  ASSUME WriterAssumption, config \in Config, NEW c \in ChunkType,
         NEW id \in GroupIds, NEW ts \in Times, NEW len, NEW key,
         NEW ics \in Seq(IndexChunk), NEW last \in Int, last <= ts, Ordered(c, ics, last)
  PROVE  Ordered(Buffered(c, id, ts, len, key), ics, ts)
<1> DEFINE e == [ts |-> ts, off |-> c.len]
           d == Buffered(c, id, ts, len, key)
<1>1. ts \in Int /\ id \in TopicIds /\ c.index \in [TopicIds -> Seq(MessageIndex)]
  BY GroupIdsType DEF WriterAssumption, ChunkType
<1>2. d.index = [c.index EXCEPT ![id] = Append(@, e)] BY DEF Buffered
<1>3. e.ts = ts OBVIOUS
<1> HIDE DEF d, e
<1>4. /\ d.index[id] = Append(c.index[id], e) /\ c.index[id] \in Seq(MessageIndex)
      /\ \A i \in TopicIds : i # id => d.index[i] = c.index[i]
  BY <1>1, <1>2
<1>5. StampsOf(d.index[id]) = StampsOf(c.index[id]) \cup {ts} BY <1>3, <1>4, AppendStamps
<1>6. Collected(d) = Collected(c) \cup {ts}
  <2>1. \A i \in GroupIds : i # id => StampsOf(d.index[i]) = StampsOf(c.index[i])
    BY <1>4, GroupIdsType
  <2> QED BY <1>5, <2>1 DEF Collected
<1>7. Collected(c) \subseteq Int BY CollectedInt
<1>8. \A t \in Collected(c) : t <= ts BY <1>1, <1>7 DEF Ordered
<1>9. \A i \in GroupIds : SortedMsgs(d.index[i])
  <2>1. \A t \in StampsOf(c.index[id]) : t <= e.ts BY <1>3, <1>8 DEF Collected
  <2>2. SortedMsgs(c.index[id]) BY DEF Ordered
  <2>3. SortedMsgs(Append(c.index[id], e)) BY <1>1, <1>3, <1>4, <2>1, <2>2, AppendSorted
  <2> QED BY <1>4, <2>3, GroupIdsType DEF Ordered
<1>10. ASSUME NEW x \in ToSet(ics), NEW t \in Timestamps(x)
       PROVE  t <= ts /\ \A u \in Collected(d) : t <= u
  <2>1. x \in IndexChunk BY DEF ToSet
  <2>2. t \in Int BY <2>1, TimestampsInt
  <2>3. t <= last /\ \A u \in Collected(c) : t <= u BY DEF Ordered
  <2> QED BY <1>1, <1>6, <2>2, <2>3
<1>11. \A t \in Collected(d) : t <= ts BY <1>1, <1>6, <1>8
<1> QED BY <1>9, <1>10, <1>11 DEF Ordered, d

(* The index chunk made of a chunk mentions the timestamps collected. *)
LEMMA StampsOfIndexChunk ==
  ASSUME NEW c \in ChunkType, NEW packed, config \in Config
  PROVE  Timestamps(IndexChunkOf(c, packed)) = Collected(c)
<1> DEFINE x == IndexChunkOf(c, packed)
<1>1. /\ DOMAIN x.topics = TopicIds
      /\ \A id \in GroupIds : x.topics[id].msgs = c.index[id]
      /\ \A id \in TopicIds : id \notin GroupIds => x.topics[id].msgs = <<>>
  BY GroupIdsType DEF IndexChunkOf
<1> HIDE DEF x
<1>2. Timestamps(x) = UNION {StampsOf(x.topics[id].msgs) : id \in TopicIds}
  BY <1>1 DEF Timestamps, StampsOf
<1>3. StampsOf(<<>>) = {} BY DEF StampsOf
<1>4. GroupIds \subseteq TopicIds BY GroupIdsType
<1> QED BY <1>1, <1>2, <1>3, <1>4 DEF x, Collected

LEMMA SortedIndexChunk ==
  ASSUME NEW c \in ChunkType, NEW packed, config \in Config,
         \A id \in GroupIds : SortedMsgs(c.index[id])
  PROVE  SortedChunk(IndexChunkOf(c, packed))
<1>1. SortedMsgs(<<>>) BY DEF SortedMsgs
<1> QED BY <1>1, GroupIdsType DEF SortedChunk, IndexChunkOf

(* A chunk that begins no earlier than the others end keeps the order. *)
LEMMA AppendInTimeOrder ==
  ASSUME NEW ics \in Seq(IndexChunk), InTimeOrder(ics), NEW x,
         \A y \in ToSet(ics) : \A t \in Timestamps(y), u \in Timestamps(x) : t <= u
  PROVE  InTimeOrder(Append(ics, x))
<1> DEFINE s == Append(ics, x)
<1>1. /\ DOMAIN s = 1 .. Len(ics) + 1 /\ DOMAIN ics = 1 .. Len(ics) /\ Len(ics) \in Nat
      /\ s[Len(ics) + 1] = x /\ \A k \in DOMAIN ics : s[k] = ics[k]
  OBVIOUS
<1> HIDE DEF s
<1>2. SUFFICES ASSUME NEW i \in DOMAIN s, NEW j \in DOMAIN s, i < j,
                      NEW t \in Timestamps(s[i]), NEW u \in Timestamps(s[j])
               PROVE  t <= u
  BY DEF InTimeOrder, s
<1>3. i \in DOMAIN ics BY <1>1, <1>2
<1>4. CASE j \in DOMAIN ics BY <1>1, <1>2, <1>3, <1>4 DEF InTimeOrder
<1>5. CASE j = Len(ics) + 1
  <2>1. ics[i] \in ToSet(ics) BY <1>3 DEF ToSet
  <2> QED BY <1>1, <1>2, <1>3, <1>5, <2>1
<1> QED BY <1>1, <1>4, <1>5

(* A flushed chunk comes after the ones before it, and nothing is left. *)
LEMMA FlushedOrdered ==
  ASSUME WriterAssumption, config \in Config, NEW c \in ChunkType, NEW packed \in Nat,
         NEW ics \in Seq(IndexChunk), NEW last \in Int, Ordered(c, ics, last)
  PROVE  /\ Ordered(Drained(c), Append(ics, IndexChunkOf(c, packed)), last)
         /\ SortedChunk(IndexChunkOf(c, packed))
         /\ InTimeOrder(Append(ics, IndexChunkOf(c, packed)))
<1> DEFINE x == IndexChunkOf(c, packed)
           d == Drained(c)
<1>1. Timestamps(x) = Collected(c) BY StampsOfIndexChunk
<1>2. SortedChunk(x) BY SortedIndexChunk DEF Ordered
<1>3. \A id \in GroupIds : d.index[id] = <<>> BY GroupIdsType DEF Drained, ClearedBuf, Unindexed
<1> HIDE DEF x, d
<1>4. Collected(d) = {} BY <1>3 DEF Collected, StampsOf
<1>5. \A id \in GroupIds : SortedMsgs(d.index[id]) BY <1>3 DEF SortedMsgs
<1>6. \A y \in ToSet(ics) : \A t \in Timestamps(y), u \in Timestamps(x) : t <= u
  BY <1>1 DEF Ordered
<1>7. InTimeOrder(Append(ics, x)) BY <1>6, AppendInTimeOrder DEF Ordered
<1>8. \A y \in ToSet(Append(ics, x)) : \A t \in Timestamps(y) : t <= last
  <2>1. ToSet(Append(ics, x)) \subseteq ToSet(ics) \cup {x} BY DEF ToSet
  <2> QED BY <1>1, <2>1 DEF Ordered
<1>9. Ordered(d, Append(ics, x), last)
  <2> DEFINE s == Append(ics, x)
  <2> HIDE DEF s
  <2>1. InTimeOrder(s) /\ \A y \in ToSet(s) : \A t \in Timestamps(y) : t <= last
    BY <1>7, <1>8 DEF s
  <2> QED BY <1>4, <1>5, <2>1 DEF Ordered, s
<1> QED BY <1>2, <1>7, <1>9 DEF x, d

(* An element of a sequence with one more is that one or an old one. *)
LEMMA AppendCases ==
  ASSUME NEW S, NEW s \in Seq(S), NEW x, NEW t, t = Append(s, x)
  PROVE  \A g \in DOMAIN t : t[g] = x \/ (g \in DOMAIN s /\ t[g] = s[g])
<1>1. /\ DOMAIN t = 1 .. Len(s) + 1 /\ DOMAIN s = 1 .. Len(s) /\ Len(s) \in Nat
      /\ t[Len(s) + 1] = x /\ \A k \in DOMAIN s : t[k] = s[k]
  OBVIOUS
<1> TAKE g \in DOMAIN t
<1>2. g = Len(s) + 1 \/ g \in DOMAIN s BY <1>1
<1> QED BY <1>1, <1>2

(* What every proof needs to know of an accepted message. *)
LEMMA TakingTypes ==
  ASSUME WriterAssumption, TypeOK, NEW nm, NEW len, NEW ts, NEW frame, Taking(nm, len, ts, frame)
  PROVE  /\ config \in Config /\ chunk \in ChunkType /\ log \in Seq(Message)
         /\ config.ids[nm] \in GroupIds /\ len \in Nat /\ ts \in Int /\ lastTimestamp \in Int
         /\ indexChunks \in Seq(IndexChunk) /\ indexList \in Seq(Seq(IndexChunk))
         /\ (frame = "key") \in BOOLEAN
         /\ \A c \in ChunkType : With(c, nm, len, ts, frame) \in ChunkType
         /\ GroupIds' = GroupIds
<1>1. config \in Config /\ nm \in DOMAIN config.ids /\ len \in Nat /\ ts \in Times /\ ts \in Int
  BY DEF Taking, WriterAssumption
<1>2. config.ids[nm] \in TopicIds /\ config.ids[nm] \in GroupIds BY <1>1, ConfigIds DEF GroupIds
<1>3. log \in Seq(Message) /\ chunk \in ChunkType /\ lastTimestamp \in Int
      /\ indexChunks \in Seq(IndexChunk) /\ indexList \in Seq(Seq(IndexChunk))
  BY DEF TypeOK
<1>4. \A c \in ChunkType : With(c, nm, len, ts, frame) \in ChunkType
  BY <1>1, <1>2, <1>3, BufferedType DEF With
<1>5. GroupIds' = GroupIds BY SameGroup DEF Taking
<1> QED BY <1>1, <1>2, <1>3, <1>4, <1>5

(* An accepted message keeps the chunk in progress in order. *)
LEMMA WithOrdered ==
  ASSUME WriterAssumption, TypeOK, NEW nm, NEW len, NEW ts \in Times, NEW frame,
         Taking(nm, len, ts, frame), NEW c \in ChunkType, NEW ics \in Seq(IndexChunk),
         Ordered(c, ics, lastTimestamp)
  PROVE  Ordered(With(c, nm, len, ts, frame), ics, ts)
<1>1. config \in Config /\ config.ids[nm] \in GroupIds /\ lastTimestamp \in Int BY TakingTypes
<1>2. lastTimestamp <= ts BY DEF Taking
<1> QED BY <1>1, <1>2, BufferedOrdered DEF With

(* Ordered of the next state is about the same ids as long as the group is. *)
LEMMA OrderedAfter ==
  ASSUME GroupIds' = GroupIds, Ordered(chunk', indexChunks', lastTimestamp')
  PROVE  Ordered(chunk, indexChunks, lastTimestamp)'
BY DEF Ordered, Collected

(* OrderInv is inductive: one step per shape. *)
LEMMA OrderStep ==
  ASSUME WriterAssumption, OrderInv, [Next]_vars
  PROVE  OrderInv'
<1>1. IndexInv' /\ Filed' BY NextIndexInv, FiledStep DEF OrderInv
<1> SUFFICES ASSUME ~sinkFailed', NotReopened'
             PROVE  /\ isTopicOpen' => Ordered(chunk, indexChunks, lastTimestamp)'
                    /\ \A x \in Listed' : SortedChunk(x)
                    /\ ChunksInTimeOrder'
  BY <1>1 DEF OrderInv
<1>2. HealthyStep /\ ~Reopening /\ ~sinkFailed /\ NotReopened BY NotReopenedBefore DEF OrderInv
<1>3. /\ isTopicOpen => Ordered(chunk, indexChunks, lastTimestamp)
      /\ \A x \in Listed : SortedChunk(x)
      /\ InTimeOrder(indexChunks) /\ \A g \in DOMAIN indexList : InTimeOrder(indexList[g])
  BY <1>2 DEF OrderInv, ChunksInTimeOrder
<1>4. TypeOK /\ indexChunks \in Seq(IndexChunk) /\ indexList \in Seq(Seq(IndexChunk))
      /\ chunk \in ChunkType /\ lastTimestamp \in Int
  BY DEF OrderInv, IndexInv, TypeOK
<1> DEFINE Goal == /\ isTopicOpen' => Ordered(chunk, indexChunks, lastTimestamp)'
                   /\ \A x \in Listed' : SortedChunk(x)
                   /\ ChunksInTimeOrder'
<1>5. ASSUME NEW r \in OpenRequests, OpenTopics(r) PROVE Goal
  <2>1. ~isTopicOpen /\ UNCHANGED <<indexChunks, indexList>> BY <1>4, <1>5, OpenTopicsLen
  <2>2. indexChunks' = <<>> BY <1>2, <2>1 DEF OrderInv, Filed
  <2>3. \A id \in GroupIds' : chunk'.index[id] = <<>> BY <1>4, <1>5, OpenedGroup
  <2>4. Ordered(chunk, indexChunks, lastTimestamp)'
    BY <2>2, <2>3 DEF Ordered, Collected, StampsOf, SortedMsgs, InTimeOrder, ToSet
  <2>5. Listed' = Listed BY <2>1 DEF Listed
  <2> QED BY <1>3, <2>1, <2>4, <2>5 DEF ChunksInTimeOrder
<1>6. ASSUME NEW nm \in Names, NEW len \in Nat, NEW ts \in Times, NEW frame,
             Keeping(nm, len, ts, frame)
      PROVE  Goal
  <2>1. Taking(nm, len, ts, frame) BY <1>6 DEF Keeping
  <2>2. /\ isTopicOpen /\ lastTimestamp' = ts /\ chunk' = With(chunk, nm, len, ts, frame)
        /\ UNCHANGED <<indexChunks, indexList>>
    BY <1>6, <2>1 DEF Keeping, Taking, fileVars
  <2>3. GroupIds' = GroupIds BY <1>4, <2>1, TakingTypes
  <2>4. Ordered(With(chunk, nm, len, ts, frame), indexChunks, ts)
    BY <1>3, <1>4, <2>1, <2>2, WithOrdered
  <2>5. Ordered(chunk, indexChunks, lastTimestamp)' BY <2>2, <2>3, <2>4, OrderedAfter
  <2>6. Listed' = Listed BY <2>2 DEF Listed
  <2> QED BY <1>3, <2>2, <2>5, <2>6 DEF ChunksInTimeOrder
<1>7. ASSUME NEW nm \in Names, NEW len \in Nat, NEW ts \in Times, NEW packed \in Nat,
             Filling(nm, len, ts, packed)
      PROVE  Goal
  <2> DEFINE c == With(chunk, nm, len, ts, "plain")
             x == IndexChunkOf(c, packed)
  <2>1. Taking(nm, len, ts, "plain") BY <1>7 DEF Filling
  <2>2. /\ isTopicOpen /\ lastTimestamp' = ts /\ chunk' = Drained(c)
        /\ indexChunks' = Append(indexChunks, x) /\ indexList' = indexList
    BY <1>7, <2>1 DEF Filling, Flushing, Taking, fileVars
  <2>3. GroupIds' = GroupIds /\ c \in ChunkType /\ config \in Config /\ ts \in Int
    BY <1>4, <2>1, TakingTypes
  <2>4. Ordered(c, indexChunks, ts) BY <1>3, <1>4, <2>1, <2>2, WithOrdered
  <2> HIDE DEF c
  <2>5. /\ Ordered(Drained(c), Append(indexChunks, x), ts) /\ SortedChunk(x)
        /\ InTimeOrder(Append(indexChunks, x))
    BY <1>4, <2>3, <2>4, FlushedOrdered
  <2> HIDE DEF x
  <2>6. Ordered(chunk, indexChunks, lastTimestamp)' BY <2>2, <2>3, <2>5, OrderedAfter
  <2>7. Listed' \subseteq Listed \cup {x} BY <1>4, <2>2, ListedAfterFlush
  <2> QED BY <1>3, <2>2, <2>5, <2>6, <2>7 DEF ChunksInTimeOrder
<1>8. ASSUME NEW nm \in Names, NEW len \in Nat, NEW ts \in Times, NEW packed \in Nat,
             Cutting(nm, len, ts, packed)
      PROVE  Goal
  <2> DEFINE x == IndexChunkOf(chunk, packed)
             ics == Append(indexChunks, x)
             d == Drained(chunk)
  <2>1. Taking(nm, len, ts, "key") BY <1>8 DEF Cutting
  <2>2. /\ isTopicOpen /\ lastTimestamp' = ts /\ chunk' = With(d, nm, len, ts, "key")
        /\ indexChunks' = ics /\ indexList' = indexList
    BY <1>8, <2>1 DEF Cutting, Flushing, Taking, fileVars
  <2>3. GroupIds' = GroupIds /\ config \in Config BY <1>4, <2>1, TakingTypes
  <2>4. Ordered(d, ics, lastTimestamp) /\ SortedChunk(x) /\ InTimeOrder(ics)
    BY <1>3, <1>4, <2>2, <2>3, FlushedOrdered
  <2>5. d \in ChunkType /\ ics \in Seq(IndexChunk)
    <3>1. d \in ChunkType BY <1>4, DrainedType
    <3>2. x \in IndexChunk BY <1>4, IndexChunkType DEF TypeOK
    <3> HIDE DEF x
    <3>3. ics \in Seq(IndexChunk) BY <1>4, <3>2
    <3> QED BY <3>1, <3>3
  <2>7. Listed' \subseteq Listed \cup {x} BY <1>4, <2>2, ListedAfterFlush
  <2> HIDE DEF x, ics, d
  <2>8. Ordered(With(d, nm, len, ts, "key"), ics, ts) BY <1>4, <2>1, <2>4, <2>5, WithOrdered
  <2>6. Ordered(chunk, indexChunks, lastTimestamp)' BY <2>2, <2>3, <2>8, OrderedAfter
  <2> QED BY <1>3, <2>2, <2>4, <2>6, <2>7 DEF ChunksInTimeOrder
<1>9. CASE Closing
  <2>1. isTopicOpen /\ ~isTopicOpen' /\ indexChunks' = <<>> BY <1>9 DEF Closing
  <2>2. InTimeOrder(<<>>) BY DEF InTimeOrder
  <2>3. ASSUME NEW filed, indexList' = Append(indexList, filed), InTimeOrder(filed),
               \A x \in ToSet(filed) : SortedChunk(x)
        PROVE  Goal
    <3>1. \A g \in DOMAIN indexList' : indexList'[g] = filed
                                      \/ (g \in DOMAIN indexList /\ indexList'[g] = indexList[g])
      BY <1>4, <2>3, AppendCases
    <3>2. Listed' \subseteq Listed \cup ToSet(filed) BY <1>4, <2>1, <2>3, ListedAfterClose
    <3> QED BY <1>3, <2>1, <2>2, <2>3, <3>1, <3>2 DEF ChunksInTimeOrder
  <2>4. \A x \in ToSet(indexChunks) : SortedChunk(x) BY <1>3 DEF Listed
  <2>5. CASE indexList' = Append(indexList, indexChunks) BY <1>3, <2>3, <2>4, <2>5
  <2>6. CASE \E packed \in ChunkLens(chunk) \cap Nat :
               /\ indexList' = Append(indexList, Append(indexChunks, IndexChunkOf(chunk, packed)))
               /\ config \in Config
    <3>1. PICK packed \in Nat :
            /\ indexList' = Append(indexList, Append(indexChunks, IndexChunkOf(chunk, packed)))
            /\ config \in Config
      BY <2>6
    <3> DEFINE x == IndexChunkOf(chunk, packed)
    <3>2. SortedChunk(x) /\ InTimeOrder(Append(indexChunks, x))
      BY <1>3, <1>4, <2>1, <3>1, FlushedOrdered
    <3>3. indexList' = Append(indexList, Append(indexChunks, x)) BY <3>1
    <3> HIDE DEF x
    <3>4. ToSet(Append(indexChunks, x)) \subseteq ToSet(indexChunks) \cup {x} BY <1>4 DEF ToSet
    <3> QED BY <2>3, <2>4, <3>2, <3>3, <3>4
  <2> QED BY <1>9, <2>5, <2>6 DEF Closing
<1>10. CASE Quiet
  <2>1. /\ UNCHANGED <<isTopicOpen, config, lastTimestamp, indexChunks, indexList>>
        /\ isTopicOpen => chunk' = chunk
    BY <1>10 DEF Quiet
  <2>2. GroupIds' = GroupIds BY <2>1, SameGroup
  <2>3. isTopicOpen' => Ordered(chunk, indexChunks, lastTimestamp)'
    BY <1>3, <2>1, <2>2, OrderedAfter
  <2>4. Listed' = Listed BY <2>1 DEF Listed
  <2> QED BY <1>3, <2>1, <2>3, <2>4 DEF ChunksInTimeOrder
<1> QED BY <1>2, <1>5, <1>6, <1>7, <1>8, <1>9, <1>10 DEF HealthyStep

LEMMA InitOrderInv == ASSUME WriterAssumption, Init PROVE OrderInv
<1>1. IndexInv BY InitIndexInv
<1>2. indexChunks = <<>> /\ indexList = <<>> /\ groups = <<>> /\ ~isTopicOpen BY DEF Init
<1>3. Filed BY <1>2 DEF Filed
<1>4. Listed = {} BY <1>2 DEF Listed, ToSet
<1>5. ChunksInTimeOrder BY <1>2 DEF ChunksInTimeOrder, InTimeOrder
<1> QED BY <1>1, <1>2, <1>3, <1>4, <1>5 DEF OrderInv

(* As long as no write failed and no group was opened a second time, the   *)
(* chunks of a group do not overlap in time.                               *)
THEOREM ChunksAreInTimeOrder == Spec => []ChunksInTimeOrder
<1>1. Init => OrderInv BY WriterAssumption, InitOrderInv
<1>2. OrderInv /\ [Next]_vars => OrderInv' BY WriterAssumption, OrderStep
<1>3. OrderInv => ChunksInTimeOrder BY DEF OrderInv, ChunksInTimeOrder
<1> QED BY <1>1, <1>2, <1>3, PTL DEF Spec

-----------------------------------------------------------------------------
(* Time ranges.  The range of an index chunk is taken from the first and   *)
(* last entries of its topics, so it covers the chunk because topics are   *)
(* sorted (OrderInv).  That it is looked up for the right record needs     *)
(* that records are not empty and lie one after another on the stream.     *)

Indexing ==
  /\ pc = "indexing" => at[1] <= Len(groups) + 1
  /\ pc \in {"footer", "closed"} => Len(indexList) <= Len(groups)

InPlace(s) ==
  \A k \in DOMAIN s : /\ s[k].at + s[k].len <= StreamEnd(s)
                      /\ s[k].kind = "index" => s[k].len > 0

Within(info, x) == \A t \in Timestamps(x) : info.start <= t /\ t <= info.end

RangeOf(s, info) ==
  /\ info.off < StreamEnd(s)
  /\ \A k \in DOMAIN s : s[k].kind = "index" /\ s[k].at = info.off => Within(info, s[k].body)

RangeInv ==
  /\ OrderInv
  /\ Indexing
  /\ ~sinkFailed => InPlace(stream)
  /\ ~sinkFailed /\ NotReopened =>
       \A g \in DOMAIN groups : \A i \in DOMAIN groups[g].infos : RangeOf(stream, groups[g].infos[i])

(* What the two CHOOSEs of InfoOf return. *)
LEMMA InfoBounds ==
  ASSUME WriterAssumption, NEW c \in IndexChunk, offset \in Nat
  PROVE  /\ InfoOf(c).start \in Int /\ \A u \in StartTimes(c) : InfoOf(c).start <= u
         /\ InfoOf(c).end \in Int /\ \A u \in EndTimes(c) : u <= InfoOf(c).end
         /\ InfoOf(c).off = offset
<1> DEFINE low == -Infinity
           S == StartTimes(c)
           T == EndTimes(c)
           starts == S \cup {Infinity}
           ends   == T \cup {low}
<1>1. S \subseteq Times /\ T \subseteq Times
  <2>1. ASSUME NEW id \in Indexed(c)
        PROVE  Head(c.topics[id].msgs).ts \in Times /\ Last(c.topics[id].msgs).ts \in Times
    <3>1. c.topics[id].msgs \in Seq(MessageIndex) /\ c.topics[id].msgs # <<>>
      BY DEF Indexed, IndexChunk, TopicIndex
    <3>2. Head(c.topics[id].msgs) \in MessageIndex /\ Last(c.topics[id].msgs) \in MessageIndex
      BY <3>1 DEF Last
    <3> QED BY <3>2 DEF MessageIndex
  <2> QED BY <2>1 DEF StartTimes, EndTimes
<1>2. Infinity \in Int /\ low \in Int /\ low <= Infinity BY DEF WriterAssumption
<1>3. \A t \in S \cup T : t \in Int /\ low <= t /\ t <= Infinity BY <1>1 DEF WriterAssumption
<1> DEFINE start == CHOOSE t \in starts : \A u \in starts : t <= u
           end   == CHOOSE t \in ends : \A u \in ends : u <= t
<1>4. InfoOf(c) = [start |-> start, end |-> end, off |-> offset] BY DEF InfoOf
<1> HIDE DEF low, S, T
<1>5. /\ starts \subseteq Int /\ Infinity \in starts /\ \A t \in starts : low <= t
      /\ ends \subseteq Int /\ low \in ends /\ \A t \in ends : t <= Infinity
  BY <1>2, <1>3
<1>6. /\ S \subseteq starts /\ T \subseteq ends OBVIOUS
<1> HIDE DEF starts, ends
<1>7. start \in starts /\ \A u \in starts : start <= u BY <1>2, <1>5, LeastExists
<1>8. end \in ends /\ \A u \in ends : u <= end BY <1>2, <1>5, GreatestExists
<1> HIDE DEF start, end
<1>9. /\ InfoOf(c).start = start /\ InfoOf(c).end = end /\ InfoOf(c).off = offset BY <1>4
<1> QED BY <1>5, <1>6, <1>7, <1>8, <1>9 DEF S, T

(* What is sorted lies between its first and last entries. *)
LEMMA InfoCovers ==
  ASSUME WriterAssumption, NEW c \in IndexChunk, offset \in Nat, SortedChunk(c)
  PROVE  Within(InfoOf(c), c)
<1> SUFFICES ASSUME NEW id \in DOMAIN c.topics, NEW k \in DOMAIN c.topics[id].msgs
             PROVE  /\ InfoOf(c).start <= c.topics[id].msgs[k].ts
                    /\ c.topics[id].msgs[k].ts <= InfoOf(c).end
  BY DEF Within, Timestamps
<1> DEFINE msgs == c.topics[id].msgs
<1>1. msgs \in Seq(MessageIndex) BY DEF IndexChunk, TopicIndex
<1>2. SortedMsgs(msgs) BY DEF SortedChunk
<1>3. id \in Indexed(c) BY <1>1 DEF Indexed
<1>4. Head(msgs).ts \in StartTimes(c) /\ Last(msgs).ts \in EndTimes(c)
  BY <1>3 DEF StartTimes, EndTimes
<1> HIDE DEF msgs
<1>5. /\ 1 \in DOMAIN msgs /\ Len(msgs) \in DOMAIN msgs /\ 1 <= k /\ k <= Len(msgs)
      /\ Head(msgs) = msgs[1] /\ Last(msgs) = msgs[Len(msgs)]
  BY <1>1 DEF Last, msgs
<1>6. msgs[1].ts <= msgs[k].ts /\ msgs[k].ts <= msgs[Len(msgs)].ts
  BY <1>2, <1>5 DEF SortedMsgs, msgs
<1>7. ASSUME NEW j \in DOMAIN msgs PROVE msgs[j].ts \in Int
  <2>1. msgs[j] \in MessageIndex BY <1>1
  <2> QED BY <2>1 DEF MessageIndex, WriterAssumption
<1>8. k \in DOMAIN msgs BY DEF msgs
<1>9. /\ InfoOf(c).start \in Int /\ InfoOf(c).start <= msgs[1].ts
      /\ InfoOf(c).end \in Int /\ msgs[Len(msgs)].ts <= InfoOf(c).end
  BY <1>4, <1>5, InfoBounds
<1> DEFINE lo == InfoOf(c).start
           hi == InfoOf(c).end
<1>10. lo \in Int /\ hi \in Int /\ lo <= msgs[1].ts /\ msgs[Len(msgs)].ts <= hi BY <1>9
<1> HIDE DEF lo, hi
<1>11. lo <= msgs[k].ts /\ msgs[k].ts <= hi BY <1>5, <1>6, <1>7, <1>8, <1>10
<1> QED BY <1>11 DEF msgs, lo, hi

(* A record written at the end of the stream is in its place. *)
LEMMA AppendInPlace ==
  ASSUME NEW s \in Seq(Record), InPlace(s), NEW r \in Record, r.at = StreamEnd(s),
         r.kind = "index" => r.len > 0
  PROVE  InPlace(Append(s, r)) /\ StreamEnd(s) <= StreamEnd(Append(s, r))
<1> DEFINE t == Append(s, r)
<1>1. \A k \in DOMAIN t : t[k] = r \/ (k \in DOMAIN s /\ t[k] = s[k]) BY AppendCases
<1>2. StreamEnd(t) = r.at + r.len BY AppendedEnd
<1>3. r.at \in Nat /\ r.len \in Nat BY RecordFields
<1>4. StreamEnd(s) <= StreamEnd(t) BY <1>2, <1>3
<1> HIDE DEF t
<1>5. ASSUME NEW k \in DOMAIN t
      PROVE  t[k].at + t[k].len <= StreamEnd(t) /\ (t[k].kind = "index" => t[k].len > 0)
  <2>1. CASE t[k] = r BY <1>2, <1>3, <2>1
  <2>2. CASE k \in DOMAIN s /\ t[k] = s[k]
    <3>1. s[k] \in Record BY <2>2
    <3>2. s[k].at \in Nat /\ s[k].len \in Nat BY <3>1, RecordFields
    <3>3. s[k].at + s[k].len <= StreamEnd(s) /\ (s[k].kind = "index" => s[k].len > 0)
      BY <2>2 DEF InPlace
    <3>4. StreamEnd(t) \in Nat /\ StreamEnd(s) \in Nat BY <1>2, <1>3
    <3>5. s[k].at + s[k].len <= StreamEnd(t)
      <4> DEFINE e == s[k].at + s[k].len
      <4>1. e \in Nat BY <3>2
      <4> HIDE DEF e
      <4> QED BY <1>4, <3>3, <3>4, <4>1 DEF e
    <3> QED BY <2>2, <3>3, <3>5
  <2> QED BY <1>1, <2>1, <2>2
<1> QED BY <1>4, <1>5 DEF InPlace, t

(* A record further down the stream does not change what a range is about. *)
LEMMA AppendRange ==
  ASSUME NEW s \in Seq(Record), NEW r \in Record, r.at = StreamEnd(s),
         NEW info \in IndexChunkInfo, RangeOf(s, info)
  PROVE  RangeOf(Append(s, r), info)
<1> DEFINE t == Append(s, r)
<1>1. \A k \in DOMAIN t : t[k] = r \/ (k \in DOMAIN s /\ t[k] = s[k]) BY AppendCases
<1>2. StreamEnd(t) = r.at + r.len BY AppendedEnd
<1>3. r.at \in Nat /\ r.len \in Nat /\ info.off \in Nat BY RecordFields DEF IndexChunkInfo
<1>4. info.off < r.at BY DEF RangeOf
<1> HIDE DEF t
<1>5. info.off < StreamEnd(t) BY <1>2, <1>3, <1>4
<1>6. ASSUME NEW k \in DOMAIN t, t[k].kind = "index", t[k].at = info.off
      PROVE  Within(info, t[k].body)
  <2>1. t[k] # r BY <1>3, <1>4, <1>6
  <2> QED BY <1>1, <1>6, <2>1 DEF RangeOf
<1> QED BY <1>5, <1>6 DEF RangeOf, t

(* The stream only grows, by records that begin where it ends. *)
LEMMA StreamGrows ==
  ASSUME WriterAssumption, IndexInv, [Next]_vars, ~sinkFailed'
  PROVE  \/ stream' = stream
         \/ \E r \in Record : /\ stream' = Append(stream, r) /\ r.at = StreamEnd(stream)
                              /\ r.kind = "index" => r.len > 0
<1>1. HealthyStep BY Shapes
<1>2. stream \in Seq(Record) /\ stream' \in Seq(Record) BY NextType DEF IndexInv, TypeOK
<1>3. ASSUME NEW r, stream' = Append(stream, r) PROVE r \in Record
  <2>1. Len(stream) + 1 \in DOMAIN stream' /\ stream'[Len(stream) + 1] = r BY <1>2, <1>3
  <2> QED BY <1>2, <2>1
<1>4. ASSUME NEW c, NEW packed, stream' = Append(stream, ChunkRecord(c, packed))
      PROVE  \E r \in Record : /\ stream' = Append(stream, r) /\ r.at = StreamEnd(stream)
                               /\ r.kind = "index" => r.len > 0
  <2>1. ChunkRecord(c, packed).kind = "data" /\ ChunkRecord(c, packed).at = StreamEnd(stream)
    BY DEF ChunkRecord
  <2> QED BY <1>3, <1>4, <2>1
<1>5. CASE \E r \in OpenRequests : OpenTopics(r) BY <1>5, OpenTopicsLen DEF IndexInv
<1>6. CASE Reopening BY <1>6 DEF Reopening
<1>7. CASE \E nm \in Names, len \in Nat, ts \in Times :
             \/ \E frame \in {"plain", "key", "delta"} : Keeping(nm, len, ts, frame)
             \/ \E packed \in Nat : Filling(nm, len, ts, packed) \/ Cutting(nm, len, ts, packed)
  <2>1. UNCHANGED stream \/ \E c, packed : stream' = Append(stream, ChunkRecord(c, packed))
    BY <1>7 DEF Keeping, Filling, Cutting, Flushing
  <2> QED BY <1>4, <2>1
<1>8. CASE Closing
  <2>1. UNCHANGED stream \/ \E c, packed : stream' = Append(stream, ChunkRecord(c, packed))
    BY <1>8 DEF Closing
  <2> QED BY <1>4, <2>1
<1>9. CASE Quiet BY <1>3, <1>9 DEF Quiet, OtherRecord
<1> QED BY <1>1, <1>5, <1>6, <1>7, <1>8, <1>9 DEF HealthyStep

(* Ranges are recorded by WriteIndexChunk; every other step keeps them. *)
LEMMA InfosKept ==
  ASSUME WriterAssumption, TypeOK, [Next]_vars
  PROVE  \/ WriteIndexChunk
         \/ \A g \in DOMAIN groups' : \/ groups'[g].infos = <<>>
                                      \/ (g \in DOMAIN groups /\ groups'[g].infos = groups[g].infos)
<1>0. groups \in Seq(TopicsInfo) /\ at \in Position BY DEF TypeOK, Position
<1> DEFINE Kept ==
             \A g \in DOMAIN groups' : \/ groups'[g].infos = <<>>
                                       \/ (g \in DOMAIN groups /\ groups'[g].infos = groups[g].infos)
<1>1. ASSUME NEW r, OpenTopics(r) PROVE Kept
  <2> DEFINE info == [topics |-> [i \in DOMAIN r.names |->
                                 [id |-> NextId(i), name |-> r.names[i], count |-> 0]],
                   infos |-> <<>>, total |-> 0]
  <2>1. groups' = Append(groups, info) BY <1>1 DEF OpenTopics
  <2>2. info.infos = <<>> OBVIOUS
  <2> HIDE DEF info
  <2>3. \A g \in DOMAIN groups' : groups'[g] = info \/ (g \in DOMAIN groups /\ groups'[g] = groups[g])
    BY <1>0, <2>1, AppendCases
  <2>4. ASSUME NEW g \in DOMAIN groups'
        PROVE  groups'[g].infos = <<>> \/ (g \in DOMAIN groups /\ groups'[g].infos = groups[g].infos)
    <3>1. CASE groups'[g] = info BY <2>2, <3>1
    <3>2. CASE g \in DOMAIN groups /\ groups'[g] = groups[g] BY <3>2
    <3> QED BY <2>3, <3>1, <3>2
  <2> QED BY <2>4
<1>2. CASE FinishGroup
  <2> DEFINE i == at[1]
  <2>1. groups' = [groups EXCEPT ![i].total = at[3]] BY <1>2 DEF FinishGroup
  <2> HIDE DEF i
  <2>2. DOMAIN groups' = DOMAIN groups BY <2>1
  <2>3. ASSUME NEW g \in DOMAIN groups PROVE groups'[g].infos = groups[g].infos
    <3>1. groups[g] \in TopicsInfo BY <1>0
    <3>2. groups'[g] = IF g = i THEN [groups[g] EXCEPT !.total = at[3]] ELSE groups[g] BY <2>1
    <3> QED BY <3>1, <3>2 DEF TopicsInfo
  <2> QED BY <2>2, <2>3
<1>3. CASE WriteSummary
  <2>1. groups' = [g \in DOMAIN groups |-> Stamped(groups[g])] BY <1>3 DEF WriteSummary
  <2>2. ASSUME NEW g \in DOMAIN groups PROVE Stamped(groups[g]).infos = groups[g].infos
    <3> DEFINE topics == [k \in DOMAIN groups[g].topics |->
                            [groups[g].topics[k] EXCEPT !.count = count[groups[g].topics[k].id]]]
    <3>1. groups[g] \in TopicsInfo BY <1>0
    <3>2. Stamped(groups[g]) = [groups[g] EXCEPT !.topics = topics] BY DEF Stamped
    <3> HIDE DEF topics
    <3> QED BY <3>1, <3>2 DEF TopicsInfo
  <2> QED BY <2>1, <2>2
<1>4. CASE groups' = groups BY <1>4
<1>5. CASE \E r \in OpenRequests : OpenRejectedLate(r) \/ OpenTopics(r)
  BY <1>1, <1>4, <1>5 DEF OpenRejectedLate, fileVars
<1>6. CASE \E nm \in Names, ts \in Times, len \in Lens :
             \/ WriteMessage(nm, len, ts)
             \/ \E key \in BOOLEAN : WriteVideoMessage(nm, len, ts, key)
  <2>1. ASSUME NEW nm, NEW ts, NEW len, WriteMessage(nm, len, ts) PROVE UNCHANGED fileVars
    BY <2>1 DEF WriteMessage
  <2>2. ASSUME NEW nm, NEW ts, NEW len, NEW key, WriteVideoMessage(nm, len, ts, key)
        PROVE  UNCHANGED fileVars
    BY <2>2 DEF WriteVideoMessage
  <2> QED BY <1>4, <1>6, <2>1, <2>2 DEF fileVars
<1>7. CASE CloseTopic \/ Close \/ WriteFooter \/ UNCHANGED vars
  BY <1>4, <1>7 DEF CloseTopic, Close, WriteFooter, vars, fileVars
<1>8. CASE \/ \E r \in OpenRequests : OpenRejected(r)
           \/ \E nm \in Names, ts \in Times : \/ \E video \in BOOLEAN : WriteRejected(video, nm, ts)
                                             \/ VideoNeedsKeyFrame(nm, ts)
           \/ CloseTopicRejected \/ CloseRejected \/ IndexOutOfRange
  <2>1. Panic \/ \E err \in Results : Rejected(err)
    BY <1>8 DEF OpenRejected, WriteRejected, VideoNeedsKeyFrame, CloseTopicRejected, CloseRejected,
           IndexOutOfRange, Results, OpenErrors, WriteErrors, CloseErrors
  <2> QED BY <1>4, <2>1 DEF Panic, Rejected, fileVars
<1> QED BY <1>2, <1>3, <1>5, <1>6, <1>7, <1>8 DEF Next, Done

(* The loops of Close never leave a closed group without its summary. *)
LEMMA IndexingStep ==
  ASSUME WriterAssumption, TypeOK, Indexing, [Next]_vars
  PROVE  Indexing'
<1>0. /\ groups \in Seq(TopicsInfo) /\ at \in Position /\ at[1] \in Nat \ {0}
      /\ Len(groups) \in Nat /\ Len(indexList) \in Nat
  <2>1. at \in Position BY DEF TypeOK, Position
  <2> QED BY <2>1, PositionFields, LensType DEF TypeOK
<1>1. CASE Close BY <1>0, <1>1 DEF Close, Indexing, fileVars
<1>2. CASE WriteIndexChunk
  <2>1. /\ at[1] <= Len(groups) /\ Len(groups') = Len(groups) /\ pc' \in {"indexing", "idle"}
    BY <1>0, <1>2 DEF WriteIndexChunk
  <2>2. at'[1] = at[1] BY <1>0, <1>2 DEF WriteIndexChunk
  <2> QED BY <1>0, <2>1, <2>2 DEF Indexing
<1>3. CASE FinishGroup
  <2>1. at[1] <= Len(groups) /\ Len(groups') = Len(groups) /\ pc' = "indexing"
    BY <1>0, <1>3 DEF FinishGroup
  <2>2. at'[1] = at[1] + 1 BY <1>3 DEF FinishGroup
  <2> QED BY <1>0, <2>1, <2>2 DEF Indexing
<1>4. CASE WriteSummary
  <2>1. /\ Len(indexList) < at[1] /\ pc = "indexing" /\ pc' \in {"footer", "idle"}
        /\ indexList' = indexList
    BY <1>0, <1>4 DEF WriteSummary
  <2>2. Len(groups') = Len(groups) BY <1>0, <1>4, StampedLen
  <2> QED BY <1>0, <2>1, <2>2 DEF Indexing
<1>5. CASE WriteFooter BY <1>5 DEF WriteFooter, Indexing, fileVars
<1>6. CASE Panic \/ (\E err \in Results : Rejected(err)) \/ UNCHANGED vars
  BY <1>6 DEF Panic, Rejected, vars, Indexing, fileVars, closeVars
<1>7. CASE pc = "idle" /\ pc' = pc BY <1>7 DEF Indexing
<1>8. CASE \E r \in OpenRequests : OpenRejectedLate(r) \/ OpenTopics(r)
  BY <1>7, <1>8 DEF OpenRejectedLate, Openable, OpenTopics
<1>9. CASE \E nm \in Names, ts \in Times, len \in Lens :
             \/ WriteMessage(nm, len, ts)
             \/ \E key \in BOOLEAN : WriteVideoMessage(nm, len, ts, key)
  <2>1. ASSUME NEW nm, NEW ts, NEW len, WriteMessage(nm, len, ts) PROVE pc = "idle" /\ pc' = pc
    BY <2>1 DEF WriteMessage, Writable
  <2>2. ASSUME NEW nm, NEW ts, NEW len, NEW key, WriteVideoMessage(nm, len, ts, key)
        PROVE  pc = "idle" /\ pc' = pc
    BY <2>2 DEF WriteVideoMessage, Writable
  <2> QED BY <1>7, <1>9, <2>1, <2>2
<1>10. CASE CloseTopic BY <1>7, <1>10 DEF CloseTopic
<1>11. CASE \/ \E r \in OpenRequests : OpenRejected(r)
            \/ \E nm \in Names, ts \in Times : \/ \E video \in BOOLEAN : WriteRejected(video, nm, ts)
                                              \/ VideoNeedsKeyFrame(nm, ts)
            \/ CloseTopicRejected \/ CloseRejected \/ IndexOutOfRange
  <2>1. Panic \/ \E err \in Results : Rejected(err)
    BY <1>11 DEF OpenRejected, WriteRejected, VideoNeedsKeyFrame, CloseTopicRejected, CloseRejected,
           IndexOutOfRange, Results, OpenErrors, WriteErrors, CloseErrors
  <2> QED BY <1>6, <2>1
<1> QED BY <1>1, <1>2, <1>3, <1>4, <1>5, <1>6, <1>8, <1>9, <1>10, <1>11 DEF Next, Done

(* RangeInv is inductive: a range is recorded with its chunk, or kept. *)
LEMMA RangeStep ==
  ASSUME WriterAssumption, RangeInv, [Next]_vars
  PROVE  RangeInv'
<1>1. OrderInv' /\ Indexing' BY OrderStep, IndexingStep DEF RangeInv, OrderInv, IndexInv
<1>2. /\ TypeOK /\ TypeOK' /\ IndexInv /\ stream \in Seq(Record) /\ groups \in Seq(TopicsInfo)
      /\ groups' \in Seq(TopicsInfo) /\ offset \in Nat /\ at \in Position
      /\ indexList \in Seq(Seq(IndexChunk))
  BY <1>1 DEF RangeInv, OrderInv, IndexInv, TypeOK, Position
<1>3. ~sinkFailed' => /\ ~sinkFailed
                      /\ \/ stream' = stream
                         \/ \E r \in Record : /\ stream' = Append(stream, r) /\ r.at = StreamEnd(stream)
                                              /\ r.kind = "index" => r.len > 0
  BY <1>2, StreamGrows, Shapes
<1>4. ~sinkFailed' => InPlace(stream')
  BY <1>2, <1>3, AppendInPlace DEF RangeInv
<1>5. ASSUME ~sinkFailed', NotReopened', NEW g \in DOMAIN groups', NEW i \in DOMAIN groups'[g].infos
      PROVE  RangeOf(stream', groups'[g].infos[i])
  <2>1. ~sinkFailed /\ NotReopened BY <1>5, NotReopenedBefore DEF RangeInv, OrderInv
  <2>2. ASSUME NEW h \in DOMAIN groups, NEW j \in DOMAIN groups[h].infos
        PROVE  RangeOf(stream', groups[h].infos[j])
    <3>1. groups[h] \in TopicsInfo BY <1>2
    <3>2. groups[h].infos[j] \in IndexChunkInfo BY <3>1 DEF TopicsInfo
    <3>3. RangeOf(stream, groups[h].infos[j]) BY <2>1 DEF RangeInv
    <3> QED BY <1>2, <1>3, <1>5, <3>2, <3>3, AppendRange
  <2>3. CASE \/ groups'[g].infos = <<>>
             \/ (g \in DOMAIN groups /\ groups'[g].infos = groups[g].infos)
    BY <1>5, <2>2, <2>3
  <2>4. CASE WriteIndexChunk
    <3> DEFINE a == at[1]
               b == at[2]
               c == indexList[a][b]
               info == InfoOf(c)
    <3>1. /\ pc = "indexing" /\ a <= Len(indexList) /\ b <= Len(indexList[a]) /\ a <= Len(groups)
          /\ groups' = [groups EXCEPT ![a].infos = Append(@, info)]
      BY <2>4 DEF WriteIndexChunk
    <3>2. PICK ok \in SinkOutcomes, packed \in PackedLens : Emit(ok, "index", packed, c)
      BY <2>4 DEF WriteIndexChunk
    <3> DEFINE r == [kind |-> "index", at |-> StreamEnd(stream), len |-> packed, body |-> c]
    <3>3. stream' = Append(stream, r) BY <1>5, <3>2 DEF Emit
    <3>4. a \in Nat \ {0} /\ b \in Nat \ {0} BY <1>2, PositionFields
    <3>5. a \in DOMAIN indexList /\ b \in DOMAIN indexList[a] /\ a \in DOMAIN groups
      <4>1. a <= Len(indexList) /\ b <= Len(indexList[a]) /\ a <= Len(groups) BY <3>1
      <4> HIDE DEF a, b
      <4>2. a \in DOMAIN indexList /\ a \in DOMAIN groups
        <5>1. indexList \in Seq(Seq(IndexChunk)) /\ groups \in Seq(TopicsInfo) BY <1>2
        <5> QED BY ONLY <3>4, <4>1, <5>1
      <4>3. indexList[a] \in Seq(IndexChunk) BY <1>2, <4>2
      <4> QED BY <3>4, <4>1, <4>2, <4>3
    <3>6. c \in IndexChunk /\ c \in Listed
      <4> HIDE DEF a, b
      <4>1. indexList[a] \in Seq(IndexChunk) BY <1>2, <3>5
      <4> QED BY <3>5, <4>1 DEF Listed, ToSet
    <3>7. SortedChunk(c) BY <2>1, <3>6 DEF RangeInv, OrderInv
    <3>8. offset = StreamEnd(stream) BY <1>2, <2>1, <3>1 DEF IndexInv, IndexTellsTheTruth
    <3> HIDE DEF c
    <3>9. Within(info, c) /\ info \in IndexChunkInfo BY <1>2, <3>6, <3>7, InfoCovers, InfoType
    <3>10. info.off = StreamEnd(stream) BY <3>8 DEF InfoOf
    <3>11. r.at = StreamEnd(stream) /\ r.len = packed /\ r.body = c /\ packed \in Nat \ {0}
      BY DEF WriterAssumption
    <3> HIDE DEF info, a, r
    <3>12. RangeOf(stream', info)
      <4>1. StreamEnd(stream') = r.at + r.len BY <1>2, <3>3, AppendedEnd
      <4>2. StreamEnd(stream) \in Nat BY <1>2, StreamEndType
      <4>3. info.off < StreamEnd(stream') BY <3>10, <3>11, <4>1, <4>2
      <4>4. ASSUME NEW k \in DOMAIN stream', stream'[k].kind = "index", stream'[k].at = info.off
            PROVE  Within(info, stream'[k].body)
        <5>1. CASE stream'[k] = r BY <3>9, <3>11, <5>1
        <5>2. CASE k \in DOMAIN stream /\ stream'[k] = stream[k]
          <6>1. stream[k] \in Record BY <1>2, <5>2
          <6>2. stream[k].at \in Nat /\ stream[k].len \in Nat BY <6>1, RecordFields
          <6>3. stream[k].at + stream[k].len <= StreamEnd(stream) /\ stream[k].len > 0
            BY <2>1, <4>4, <5>2 DEF RangeInv, InPlace
          <6>4. stream[k].at = StreamEnd(stream) BY <3>10, <4>4, <5>2
          <6> QED BY <4>2, <6>2, <6>3, <6>4
        <5>3. stream'[k] = r \/ (k \in DOMAIN stream /\ stream'[k] = stream[k])
          BY <1>2, <3>3, AppendCases
        <5> QED BY <5>1, <5>2, <5>3
      <4> QED BY <4>3, <4>4 DEF RangeOf
    <3>13. g \in DOMAIN groups BY <3>1
    <3>14. CASE g # a
      <4>1. groups'[g] = groups[g] BY <3>1, <3>13, <3>14
      <4> QED BY <1>5, <2>2, <3>13, <4>1
    <3>15. CASE g = a
      <4>1. groups[g] \in TopicsInfo BY <1>2, <3>13
      <4>2. groups'[g].infos = Append(groups[g].infos, info)
        <5>1. groups'[g] = [groups[g] EXCEPT !.infos = Append(@, info)] BY <3>1, <3>13, <3>15
        <5> QED BY <4>1, <5>1 DEF TopicsInfo
      <4>3. groups[g].infos \in Seq(IndexChunkInfo) BY <4>1 DEF TopicsInfo
      <4>4. groups'[g].infos[i] = info
            \/ (i \in DOMAIN groups[g].infos /\ groups'[g].infos[i] = groups[g].infos[i])
        BY <1>5, <4>2, <4>3, AppendCases
      <4> QED BY <2>2, <3>12, <3>13, <4>4
    <3> QED BY <3>14, <3>15
  <2> QED BY <1>2, <1>5, <2>3, <2>4, InfosKept
<1> QED BY <1>1, <1>4, <1>5 DEF RangeInv

(* The record an IndexChunkInfo names is the one it was taken from. *)
LEMMA RangesFollow == ASSUME RangeInv PROVE RangesCoverMessages
<1> SUFFICES ASSUME pc = "closed", ~sinkFailed, NEW g \in DOMAIN groups,
                    NEW i \in DOMAIN groups[g].infos,
                    NEW r \in RecordsAt(stream, "index", groups[g].infos[i].off,
                                        IndexChunkLen(groups[g], i)),
                    NEW t \in Timestamps(r.body)
             PROVE  groups[g].infos[i].start <= t /\ t <= groups[g].infos[i].end
  BY DEF RangesCoverMessages
<1>1. NotReopened
  <2>1. ~isTopicOpen BY DEF RangeInv, OrderInv, IndexInv, ClosingIsClosed
  <2>2. Len(groups) <= Len(indexList) /\ Len(indexList) <= Len(groups)
    BY <2>1, LensType DEF RangeInv, OrderInv, IndexInv, Indexing, Filed
  <2> QED BY <2>1, <2>2, LensType DEF NotReopened, RangeInv, OrderInv, IndexInv
<1>2. RangeOf(stream, groups[g].infos[i]) BY <1>1 DEF RangeInv
<1>3. PICK k \in DOMAIN stream : /\ r = stream[k] /\ stream[k].kind = "index"
                                 /\ stream[k].at = groups[g].infos[i].off
  BY DEF RecordsAt
<1>4. Within(groups[g].infos[i], r.body) BY <1>2, <1>3 DEF RangeOf
<1> QED BY <1>4 DEF Within

LEMMA InitRangeInv == ASSUME WriterAssumption, Init PROVE RangeInv
<1>1. OrderInv BY InitOrderInv
<1>2. groups = <<>> /\ stream = <<>> /\ pc = "idle" BY DEF Init
<1> QED BY <1>1, <1>2 DEF RangeInv, Indexing, InPlace

(* When Close has returned nil, the time range the summary gives for an    *)
(* index chunk covers every message of the chunk, whatever was written.    *)
THEOREM RangesCover == Spec => []RangesCoverMessages
<1>1. Init => RangeInv BY WriterAssumption, InitRangeInv
<1>2. RangeInv /\ [Next]_vars => RangeInv' BY WriterAssumption, RangeStep
<1>3. RangeInv => RangesCoverMessages BY RangesFollow
<1> QED BY <1>1, <1>2, <1>3, PTL DEF Spec

-----------------------------------------------------------------------------
(* Video.  A stored chunk begins with no delta frame because the buffer    *)
(* never does, and its key frame indexes are right because the chunk in    *)
(* progress collects them as its frames arrive.                            *)

Known(body, lg) == \A k \in DOMAIN body : body[k].n \in DOMAIN lg
Framed(body, lg) == Known(body, lg) /\ (body # <<>> => lg[body[1].n].frame # "delta")
DataFramed(s, lg) == \A k \in DOMAIN s : s[k].kind = "data" => Framed(s[k].body, lg)

FrameInv ==
  /\ OrderInv
  /\ ~sinkFailed => Framed(chunk.buf, log)
  /\ DataFramed(stream, log)

(* The log grows under the stream without changing what is on it. *)
LEMMA KnownGrows ==
  ASSUME NEW lg \in Seq(Message), NEW m, NEW body, Known(body, lg)
  PROVE  /\ Known(body, Append(lg, m))
         /\ \A k \in DOMAIN body : Append(lg, m)[body[k].n] = lg[body[k].n]
BY DEF Known

LEMMA FramedGrows ==
  ASSUME NEW lg \in Seq(Message), NEW m, NEW body \in Seq(Segment), Framed(body, lg)
  PROVE  Framed(body, Append(lg, m))
<1>1. body # <<>> => 1 \in DOMAIN body OBVIOUS
<1>2. Known(body, lg) BY DEF Framed
<1>3. /\ Known(body, Append(lg, m))
      /\ \A k \in DOMAIN body : Append(lg, m)[body[k].n] = lg[body[k].n]
  BY <1>2 DEF Known
<1> QED BY <1>1, <1>3 DEF Framed

LEMMA DataBody == ASSUME NEW r \in Record, r.kind = "data" PROVE r.body \in Seq(Segment)
BY DEF Record

LEMMA DataFramedGrows ==
  ASSUME NEW lg \in Seq(Message), NEW m, NEW s \in Seq(Record), DataFramed(s, lg)
  PROVE  DataFramed(s, Append(lg, m))
<1> SUFFICES ASSUME NEW k \in DOMAIN s, s[k].kind = "data" PROVE Framed(s[k].body, Append(lg, m))
  BY DEF DataFramed
<1>1. s[k].body \in Seq(Segment) /\ Framed(s[k].body, lg)
  <2>1. s[k] \in Record OBVIOUS
  <2> QED BY <2>1, DataBody DEF DataFramed
<1> QED BY <1>1, FramedGrows

LEMMA AppendDataFramed ==
  ASSUME NEW lg, NEW s \in Seq(Record), DataFramed(s, lg), NEW r,
         r.kind = "data" => Framed(r.body, lg)
  PROVE  DataFramed(Append(s, r), lg)
<1>1. \A k \in DOMAIN Append(s, r) : \/ Append(s, r)[k] = r
                                     \/ (k \in DOMAIN s /\ Append(s, r)[k] = s[k])
  BY AppendCases
<1> QED BY <1>1 DEF DataFramed

(* The buffer and the log with one more message. *)
LEMMA WithBuf ==
  ASSUME NEW c \in ChunkType, log \in Seq(Message), NEW nm, NEW len, NEW ts, NEW frame
  PROVE  LET d == With(c, nm, len, ts, frame)
         IN  /\ DOMAIN d.buf = 1 .. Len(c.buf) + 1 /\ DOMAIN c.buf = 1 .. Len(c.buf)
             /\ Len(c.buf) \in Nat /\ Len(d.buf) = Len(c.buf) + 1
             /\ \A k \in DOMAIN c.buf : d.buf[k] = c.buf[k]
             /\ d.buf[Len(c.buf) + 1] = [n |-> Len(log) + 1, at |-> c.len, len |-> len]
<1>1. c.buf \in Seq(Segment) BY DEF ChunkType
<1>2. With(c, nm, len, ts, frame).buf
        = Append(c.buf, [n |-> Len(log) + 1, at |-> c.len, len |-> len])
  BY DEF With, Buffered
<1> QED BY <1>1, <1>2

LEMMA AppendedLog ==
  ASSUME log \in Seq(Message), NEW m
  PROVE  LET lg == Append(log, m)
         IN  /\ Len(log) + 1 \in DOMAIN lg /\ lg[Len(log) + 1] = m
             /\ \A n \in DOMAIN log : n \in DOMAIN lg /\ lg[n] = log[n]
OBVIOUS

(* A message that does not begin a chunk with a delta frame. *)
LEMMA WithFramed ==
  ASSUME NEW c \in ChunkType, log \in Seq(Message), NEW nm, NEW len, NEW ts, NEW frame,
         Framed(c.buf, log), frame = "delta" => c.buf # <<>>
  PROVE  Framed(With(c, nm, len, ts, frame).buf, Append(log, MessageOf(nm, len, ts, frame)))
<1> DEFINE d == With(c, nm, len, ts, frame)
           m == MessageOf(nm, len, ts, frame)
           lg == Append(log, m)
<1>0. /\ DOMAIN d.buf = 1 .. Len(c.buf) + 1 /\ DOMAIN c.buf = 1 .. Len(c.buf)
      /\ Len(c.buf) \in Nat
      /\ \A k \in DOMAIN c.buf : d.buf[k] = c.buf[k]
      /\ d.buf[Len(c.buf) + 1] = [n |-> Len(log) + 1, at |-> c.len, len |-> len]
  BY WithBuf
<1>1. /\ DOMAIN d.buf = 1 .. Len(c.buf) + 1 /\ DOMAIN c.buf = 1 .. Len(c.buf)
      /\ Len(c.buf) \in Nat
      /\ \A k \in DOMAIN c.buf : d.buf[k] = c.buf[k]
      /\ d.buf[Len(c.buf) + 1].n = Len(log) + 1
  <2> HIDE DEF d
  <2> QED BY <1>0
<1>2. /\ Len(log) + 1 \in DOMAIN lg /\ lg[Len(log) + 1] = m
      /\ \A n \in DOMAIN log : n \in DOMAIN lg /\ lg[n] = log[n]
  BY AppendedLog
<1>3. m.frame = frame BY DEF MessageOf
<1>4. c.buf \in Seq(Segment) BY DEF ChunkType
<1> HIDE DEF d, m, lg
<1>5. Known(d.buf, lg)
  <2> SUFFICES ASSUME NEW k \in DOMAIN d.buf PROVE d.buf[k].n \in DOMAIN lg BY DEF Known
  <2>1. k = Len(c.buf) + 1 \/ k \in DOMAIN c.buf BY <1>1
  <2> QED BY <1>1, <1>2, <2>1 DEF Framed, Known
<1>6. lg[d.buf[1].n].frame # "delta"
  <2>1. CASE c.buf = <<>> BY <1>1, <1>2, <1>3, <2>1
  <2>2. CASE c.buf # <<>>
    <3>1. 1 \in DOMAIN c.buf BY <1>1, <1>4, <2>2
    <3> QED BY <1>1, <1>2, <2>2, <3>1 DEF Framed, Known
  <2> QED BY <2>1, <2>2
<1> QED BY <1>5, <1>6 DEF Framed, d, m, lg

LEMMA EmptyFramed == ASSUME NEW lg PROVE Framed(<<>>, lg)
BY DEF Framed, Known

(* A failed write adds nothing, and the log only grows. *)
LEMMA LogGrows ==
  ASSUME [Next]_vars
  PROVE  log' = log \/ \E m : log' = Append(log, m)
<1>1. CASE \E nm \in Names, ts \in Times, len \in Lens : WriteMessage(nm, len, ts)
  BY <1>1 DEF WriteMessage, Accept
<1>2. CASE \E nm \in Names, ts \in Times, len \in Lens, key \in BOOLEAN :
             WriteVideoMessage(nm, len, ts, key)
  BY <1>2 DEF WriteVideoMessage, Accept
<1>3. CASE \E r \in OpenRequests : OpenRejectedLate(r) \/ OpenTopics(r)
  BY <1>3 DEF OpenRejectedLate, OpenTopics
<1>4. CASE CloseTopic BY <1>4 DEF CloseTopic
<1>5. CASE Close \/ WriteIndexChunk \/ FinishGroup \/ WriteSummary \/ WriteFooter \/ UNCHANGED vars
  BY <1>5 DEF Close, WriteIndexChunk, FinishGroup, WriteSummary, WriteFooter, vars
<1>6. CASE \/ \E r \in OpenRequests : OpenRejected(r)
           \/ \E nm \in Names, ts \in Times : \/ \E video \in BOOLEAN : WriteRejected(video, nm, ts)
                                             \/ VideoNeedsKeyFrame(nm, ts)
           \/ CloseTopicRejected \/ CloseRejected \/ IndexOutOfRange
  <2>1. Panic \/ \E err \in Results : Rejected(err)
    BY <1>6 DEF OpenRejected, WriteRejected, VideoNeedsKeyFrame, CloseTopicRejected, CloseRejected,
           IndexOutOfRange, Results, OpenErrors, WriteErrors, CloseErrors
  <2> QED BY <2>1 DEF Panic, Rejected
<1> QED BY <1>1, <1>2, <1>3, <1>4, <1>5, <1>6 DEF Next, Done

(* A write that fails leaves the stream as it was. *)
LEMMA FailedAddsNothing ==
  ASSUME [Next]_vars, sinkFailed'
  PROVE  stream' = stream
<1>0. ASSUME NEW c, NEW ok, WriteChunk(c, ok) PROVE stream' = stream BY <1>0 DEF WriteChunk, Emit
<1>1. CASE \E nm \in Names, ts \in Times, len \in Lens : WriteMessage(nm, len, ts)
  <2>1. PICK nm \in Names, ts \in Times, len \in Lens : WriteMessage(nm, len, ts) BY <1>1
  <2>2. UNCHANGED sinkVars \/ \E c, ok : WriteChunk(c, ok) BY <2>1 DEF WriteMessage
  <2> QED BY <1>0, <2>2 DEF sinkVars
<1>2. CASE \E nm \in Names, ts \in Times, len \in Lens, key \in BOOLEAN :
             WriteVideoMessage(nm, len, ts, key)
  <2>1. PICK nm \in Names, ts \in Times, len \in Lens, key \in BOOLEAN :
          WriteVideoMessage(nm, len, ts, key)
    BY <1>2
  <2>2. UNCHANGED sinkVars \/ \E c, ok : WriteChunk(c, ok) BY <2>1 DEF WriteVideoMessage
  <2> QED BY <1>0, <2>2 DEF sinkVars
<1>3. CASE \E r \in OpenRequests : OpenRejectedLate(r) \/ OpenTopics(r)
  <2>1. UNCHANGED sinkVars BY <1>3 DEF OpenRejectedLate, OpenTopics
  <2> QED BY <2>1 DEF sinkVars
<1>4. CASE CloseTopic BY <1>4 DEF CloseTopic, Emit, sinkVars
<1>5. CASE Close \/ WriteIndexChunk \/ FinishGroup \/ WriteSummary \/ WriteFooter \/ UNCHANGED vars
  BY <1>5 DEF Close, WriteIndexChunk, FinishGroup, WriteSummary, WriteFooter, vars, Emit, sinkVars
<1>6. CASE \/ \E r \in OpenRequests : OpenRejected(r)
           \/ \E nm \in Names, ts \in Times : \/ \E video \in BOOLEAN : WriteRejected(video, nm, ts)
                                             \/ VideoNeedsKeyFrame(nm, ts)
           \/ CloseTopicRejected \/ CloseRejected \/ IndexOutOfRange
  <2>1. Panic \/ \E err \in Results : Rejected(err)
    BY <1>6 DEF OpenRejected, WriteRejected, VideoNeedsKeyFrame, CloseTopicRejected, CloseRejected,
           IndexOutOfRange, Results, OpenErrors, WriteErrors, CloseErrors
  <2> QED BY <2>1 DEF Panic, Rejected, sinkVars
<1> QED BY <1>1, <1>2, <1>3, <1>4, <1>5, <1>6 DEF Next, Done

(* FrameInv is inductive. *)
LEMMA FrameStep ==
  ASSUME WriterAssumption, FrameInv, [Next]_vars
  PROVE  FrameInv'
<1>1. OrderInv' BY OrderStep DEF FrameInv
<1>2. /\ TypeOK /\ IndexInv /\ stream \in Seq(Record) /\ chunk \in ChunkType /\ log \in Seq(Message)
      /\ chunk.buf \in Seq(Segment) /\ DataFramed(stream, log)
  BY DEF FrameInv, OrderInv, IndexInv, TypeOK, ChunkType
<1>3. DataFramed(stream, log') BY <1>2, LogGrows, DataFramedGrows
<1>4. CASE sinkFailed'
  <2>1. stream' = stream BY <1>4, FailedAddsNothing
  <2> QED BY <1>1, <1>3, <1>4, <2>1 DEF FrameInv
<1>5. CASE ~sinkFailed'
  <2>1. HealthyStep /\ ~sinkFailed BY <1>2, <1>5, Shapes
  <2>2. Framed(chunk.buf, log) BY <2>1 DEF FrameInv
  <2> DEFINE Goal == Framed(chunk'.buf, log') /\ DataFramed(stream', log')
  <2>3. ASSUME NEW r \in OpenRequests, OpenTopics(r) PROVE Goal
    BY <1>2, <1>3, <2>2, <2>3, OpenedGroup, OpenTopicsLen
  <2>4. ASSUME Reopening PROVE Goal BY <1>2, <1>3, <2>2, <2>4 DEF Reopening
  <2>5. ASSUME NEW nm, NEW len, NEW ts, NEW frame, Taking(nm, len, ts, frame)
        PROVE  Framed(With(chunk, nm, len, ts, frame).buf, log')
    <3>1. frame = "delta" => chunk.buf # <<>>
      <4>1. frame = "delta" => chunk.len # 0 /\ config # NoConfig BY <2>5 DEF Taking
      <4> QED BY <1>2, <2>1, <4>1 DEF IndexInv, BufferIndexed, WellBuffered
    <3>2. log' = Append(log, MessageOf(nm, len, ts, frame)) BY <2>5 DEF Taking
    <3> QED BY <1>2, <2>2, <3>1, <3>2, WithFramed
  <2>6. ASSUME NEW nm, NEW len, NEW ts, NEW frame, Keeping(nm, len, ts, frame) PROVE Goal
    <3>1. /\ Taking(nm, len, ts, frame) /\ chunk' = With(chunk, nm, len, ts, frame)
          /\ stream' = stream
      BY <2>6 DEF Keeping
    <3>2. Framed(chunk'.buf, log') BY <2>5, <3>1
    <3> QED BY <1>3, <3>1, <3>2
  <2>7. ASSUME NEW c, NEW packed, Framed(c.buf, log'), stream' = Append(stream, ChunkRecord(c, packed))
        PROVE  DataFramed(stream', log')
    <3>1. ChunkRecord(c, packed).body = c.buf BY DEF ChunkRecord
    <3>2. Framed(ChunkRecord(c, packed).body, log') BY <2>7, <3>1
    <3> QED BY <1>2, <1>3, <2>7, <3>2, AppendDataFramed
  <2>8. \A c : Drained(c).buf = <<>> BY DEF Drained, ClearedBuf
  <2>9. ASSUME NEW nm, NEW len, NEW ts, NEW packed, Filling(nm, len, ts, packed) PROVE Goal
    <3> DEFINE c == With(chunk, nm, len, ts, "plain")
    <3>1. /\ Taking(nm, len, ts, "plain") /\ chunk' = Drained(c)
          /\ stream' = Append(stream, ChunkRecord(c, packed))
      BY <2>9 DEF Filling, Flushing
    <3>2. Framed(c.buf, log') BY <2>5, <3>1
    <3> HIDE DEF c
    <3>3. DataFramed(stream', log') BY <2>7, <3>1, <3>2
    <3>4. Framed(chunk'.buf, log') BY <2>8, <3>1, EmptyFramed
    <3> QED BY <3>3, <3>4
  <2>10. ASSUME NEW nm, NEW len, NEW ts, NEW packed, Cutting(nm, len, ts, packed) PROVE Goal
    <3> DEFINE d == Drained(chunk)
    <3>1. /\ Taking(nm, len, ts, "key") /\ chunk' = With(d, nm, len, ts, "key")
          /\ stream' = Append(stream, ChunkRecord(chunk, packed))
      BY <2>10 DEF Cutting, Flushing
    <3>2. log' = Append(log, MessageOf(nm, len, ts, "key")) BY <3>1 DEF Taking
    <3>3. Framed(chunk.buf, log') BY <1>2, <2>2, <3>2, FramedGrows
    <3>4. DataFramed(stream', log') BY <2>7, <3>1, <3>3
    <3>5. d \in ChunkType /\ Framed(d.buf, log) BY <1>2, <2>8, DrainedType, EmptyFramed
    <3> HIDE DEF d
    <3>6. Framed(chunk'.buf, log') BY <1>2, <3>1, <3>2, <3>5, WithFramed
    <3> QED BY <3>4, <3>6
  <2>11. ASSUME Closing PROVE Goal
    <3>1. log' = log /\ chunk'.buf = <<>> BY <2>8, <2>11 DEF Closing, ClearedBuf
    <3>2. \/ stream' = stream
          \/ \E packed : stream' = Append(stream, ChunkRecord(chunk, packed))
      BY <2>11 DEF Closing
    <3>3. Framed(chunk.buf, log') BY <2>2, <3>1
    <3>4. DataFramed(stream', log') BY <1>3, <2>7, <3>2, <3>3
    <3> QED BY <3>1, <3>4, EmptyFramed
  <2>12. ASSUME Quiet PROVE Goal
    <3>1. log' = log /\ (chunk'.buf = chunk.buf \/ chunk'.buf = <<>>) BY <2>12 DEF Quiet, ClearedBuf
    <3>2. Framed(chunk'.buf, log') BY <2>2, <3>1, EmptyFramed
    <3>3. DataFramed(stream', log')
      <4>1. CASE stream' = stream BY <1>3, <4>1
      <4>2. ASSUME NEW r, stream' = Append(stream, r), r.kind # "data" PROVE DataFramed(stream', log')
        BY <1>2, <1>3, <4>2, AppendDataFramed
      <4> QED BY <2>12, <4>1, <4>2 DEF Quiet, OtherRecord
    <3> QED BY <3>2, <3>3
  <2>13. Goal
    <3> HIDE DEF Goal
    <3> QED BY <2>1, <2>3, <2>4, <2>6, <2>9, <2>10, <2>11, <2>12 DEF HealthyStep
  <2> QED BY <1>1, <2>13 DEF FrameInv, DataFramed, Framed, Known
<1> QED BY <1>4, <1>5

(* Positions of the key frames among the messages of a chunk, from 0. *)
KeyPlaces(body, lg) == {k - 1 : k \in {j \in DOMAIN body : lg[body[j].n].frame = "key"}}

(* The key frame indexes collected for the chunk in progress. *)
KeysCollected(c, lg) ==
  IF config.video
  THEN \E id \in TopicIds : /\ GroupIds = {id}
                            /\ Len(c.index[id]) = Len(c.buf)
                            /\ ToSet(c.keys[id]) = KeyPlaces(c.buf, lg)
  ELSE /\ \A id \in GroupIds : c.keys[id] = <<>>
       /\ KeyPlaces(c.buf, lg) = {}

KeysOf(x, id) == ToSet(x.topics[id].keys)
Mentioned(x) == {id \in TopicIds : x.topics[id].msgs # <<>>}
KeysRight(x, body, lg) == \A id \in Mentioned(x) : KeysOf(x, id) = KeyPlaces(body, lg)

(* An index chunk lies on the stream and tells the key frames of its data  *)
(* chunk.  Data chunks of no bytes may share their place with others, but  *)
(* they are never video.                                                   *)
Described(s, x, lg) ==
  /\ x.off + x.len <= StreamEnd(s)
  /\ x.len = 0 => \A id \in Mentioned(x) : KeysOf(x, id) = {}
  /\ \A k \in DOMAIN s : s[k].kind = "data" /\ s[k].at = x.off /\ s[k].len = x.len
                           => KeysRight(x, s[k].body, lg)

EmptyKeyless(s, lg) ==
  \A k \in DOMAIN s : s[k].kind = "data" /\ s[k].len = 0 => KeyPlaces(s[k].body, lg) = {}

KeyInv ==
  /\ RangeInv
  /\ FrameInv
  /\ ~sinkFailed /\ NotReopened =>
       /\ isTopicOpen => KeysCollected(chunk, log) /\ (config.video => ~config.compressed)
       /\ \A x \in Listed : Described(stream, x, log)
       /\ EmptyKeyless(stream, log)

(* A longer log moves no key frame. *)
LEMMA KeyPlacesGrow ==
  ASSUME NEW lg \in Seq(Message), NEW m, NEW body, Known(body, lg)
  PROVE  KeyPlaces(body, Append(lg, m)) = KeyPlaces(body, lg)
<1>1. \A k \in DOMAIN body : Append(lg, m)[body[k].n] = lg[body[k].n] BY DEF Known
<1> QED BY <1>1 DEF KeyPlaces

LEMMA DescribedGrows ==
  ASSUME NEW lg \in Seq(Message), NEW m, NEW s, DataFramed(s, lg)
  PROVE  /\ \A x : Described(s, x, lg) => Described(s, x, Append(lg, m))
         /\ EmptyKeyless(s, lg) => EmptyKeyless(s, Append(lg, m))
<1>1. \A k \in DOMAIN s : s[k].kind = "data" =>
        KeyPlaces(s[k].body, Append(lg, m)) = KeyPlaces(s[k].body, lg)
  BY KeyPlacesGrow DEF DataFramed, Framed
<1> QED BY <1>1 DEF Described, EmptyKeyless, KeysRight

LEMMA IndexChunkPlace == ASSUME NEW x \in IndexChunk PROVE x.off \in Nat /\ x.len \in Nat
BY DEF IndexChunk

(* A record further down the stream is not the data of an index chunk      *)
(* that is there already, or neither has any key frame.                    *)
LEMMA AppendDescribed ==
  ASSUME NEW s \in Seq(Record), NEW r \in Record, r.at = StreamEnd(s), NEW lg,
         r.kind = "data" /\ r.len = 0 => KeyPlaces(r.body, lg) = {},
         NEW x \in IndexChunk, Described(s, x, lg)
  PROVE  Described(Append(s, r), x, lg)
<1> DEFINE t == Append(s, r)
<1>1. \A k \in DOMAIN t : t[k] = r \/ (k \in DOMAIN s /\ t[k] = s[k]) BY AppendCases
<1>2. StreamEnd(t) = r.at + r.len BY AppendedEnd
<1>3. r.at \in Nat /\ r.len \in Nat /\ x.off \in Nat /\ x.len \in Nat
  BY RecordFields, IndexChunkPlace
<1>4. x.off + x.len <= r.at BY DEF Described
<1> HIDE DEF t
<1>5. x.off + x.len <= StreamEnd(t) BY <1>2, <1>3, <1>4
<1>6. ASSUME NEW k \in DOMAIN t, t[k].kind = "data", t[k].at = x.off, t[k].len = x.len
      PROVE  KeysRight(x, t[k].body, lg)
  <2>1. CASE t[k] = r
    <3>1. x.len = 0 /\ r.len = 0 /\ r.kind = "data" BY <1>3, <1>4, <1>6, <2>1
    <3> QED BY <2>1, <3>1 DEF Described, KeysRight
  <2>2. CASE k \in DOMAIN s /\ t[k] = s[k] BY <1>6, <2>2 DEF Described
  <2> QED BY <1>1, <2>1, <2>2
<1> QED BY <1>5, <1>6 DEF Described, t

LEMMA AppendEmptyKeyless ==
  ASSUME NEW s \in Seq(Record), NEW r, NEW lg, EmptyKeyless(s, lg),
         r.kind = "data" /\ r.len = 0 => KeyPlaces(r.body, lg) = {}
  PROVE  EmptyKeyless(Append(s, r), lg)
<1>1. \A k \in DOMAIN Append(s, r) : \/ Append(s, r)[k] = r
                                     \/ (k \in DOMAIN s /\ Append(s, r)[k] = s[k])
  BY AppendCases
<1> QED BY <1>1 DEF EmptyKeyless

(* A flush describes the chunk it stores. *)
LEMMA FlushDescribed ==
  ASSUME WriterAssumption, stream \in Seq(Record), InPlace(stream), offset = StreamEnd(stream),
         config \in Config, config.video => ~config.compressed,
         NEW c \in ChunkType, NEW packed \in Nat, packed \in ChunkLens(c),
         config.video => c.len # 0,
         NEW lg, KeysCollected(c, lg), EmptyKeyless(stream, lg)
  PROVE  /\ Described(Append(stream, ChunkRecord(c, packed)), IndexChunkOf(c, packed), lg)
         /\ ChunkRecord(c, packed).len = 0 => KeyPlaces(ChunkRecord(c, packed).body, lg) = {}
<1> DEFINE r == ChunkRecord(c, packed)
           x == IndexChunkOf(c, packed)
           t == Append(stream, r)
<1>1. x.off = offset /\ x.len = packed
      /\ \A id \in TopicIds : x.topics[id].msgs # <<>> => id \in GroupIds /\ c.index[id] # <<>>
                                                        /\ x.topics[id].keys = c.keys[id]
  BY DEF IndexChunkOf
<1>2. r.at = offset /\ r.len = packed /\ r.body = c.buf /\ r.kind = "data" BY DEF ChunkRecord
<1>3. packed = 0 => ~config.video
  <2>1. config.video => packed = c.len BY DEF ChunkLens, Config
  <2> QED BY <2>1
<1> HIDE DEF r, x
<1>4. KeysRight(x, c.buf, lg)
  <2> SUFFICES ASSUME NEW id \in Mentioned(x) PROVE KeysOf(x, id) = KeyPlaces(c.buf, lg)
    BY DEF KeysRight
  <2>1. id \in GroupIds /\ x.topics[id].keys = c.keys[id] BY <1>1 DEF Mentioned
  <2>2. CASE config.video BY <2>1, <2>2 DEF KeysCollected, KeysOf
  <2>3. CASE ~config.video
    <3>1. c.keys[id] = <<>> /\ KeyPlaces(c.buf, lg) = {} BY <2>1, <2>3 DEF KeysCollected
    <3>2. ToSet(<<>>) = {} BY DEF ToSet
    <3> QED BY <2>1, <3>1, <3>2 DEF KeysOf
  <2> QED BY <2>2, <2>3
<1>5. packed = 0 => KeyPlaces(c.buf, lg) = {} BY <1>3 DEF KeysCollected
<1>6. StreamEnd(t) = r.at + r.len BY AppendedEnd
<1>7. \A k \in DOMAIN t : t[k] = r \/ (k \in DOMAIN stream /\ t[k] = stream[k]) BY AppendCases
<1>8. offset \in Nat BY StreamEndType
<1> HIDE DEF t
<1>9. x.off + x.len <= StreamEnd(t) BY <1>1, <1>2, <1>6, <1>8
<1>10. x.len = 0 => \A id \in Mentioned(x) : KeysOf(x, id) = {} BY <1>1, <1>4, <1>5 DEF KeysRight
<1>11. ASSUME NEW k \in DOMAIN t, t[k].kind = "data", t[k].at = x.off, t[k].len = x.len
       PROVE  KeysRight(x, t[k].body, lg)
  <2>1. CASE t[k] = r BY <1>2, <1>4, <2>1
  <2>2. CASE k \in DOMAIN stream /\ t[k] = stream[k]
    <3>1. stream[k] \in Record BY <2>2
    <3>2. stream[k].at \in Nat /\ stream[k].len \in Nat BY <3>1, RecordFields
    <3>3. stream[k].at + stream[k].len <= offset BY <2>2 DEF InPlace
    <3>4. stream[k].at = offset /\ stream[k].len = packed /\ stream[k].kind = "data"
      BY <1>1, <1>11, <2>2
    <3>5. packed = 0 BY <1>8, <3>2, <3>3, <3>4
    <3>6. KeyPlaces(stream[k].body, lg) = {} BY <2>2, <3>4, <3>5 DEF EmptyKeyless
    <3> QED BY <1>1, <1>10, <2>2, <3>5, <3>6 DEF KeysRight
  <2> QED BY <1>7, <2>1, <2>2
<1>12. Described(t, x, lg) BY <1>9, <1>10, <1>11 DEF Described
<1> QED BY <1>2, <1>5, <1>12 DEF r, x, t

(* After a flush nothing is collected. *)
LEMMA DrainedKeys ==
  ASSUME NEW c \in ChunkType, config \in Config, NEW lg, KeysCollected(c, lg)
  PROVE  KeysCollected(Drained(c), lg)
<1> DEFINE d == Drained(c)
<1>1. /\ d.buf = <<>>
      /\ \A id \in GroupIds : /\ d.index[id] = <<>>
                              /\ d.keys[id] = IF c.index[id] # <<>> THEN <<>> ELSE c.keys[id]
  BY GroupIdsType DEF Drained, ClearedBuf, Unindexed
<1> HIDE DEF d
<1>2. KeyPlaces(d.buf, lg) = {} BY <1>1 DEF KeyPlaces
<1>3. ToSet(<<>>) = {} BY DEF ToSet
<1>4. CASE config.video
  <2>1. PICK id \in TopicIds : /\ GroupIds = {id}
                               /\ Len(c.index[id]) = Len(c.buf)
                               /\ ToSet(c.keys[id]) = KeyPlaces(c.buf, lg)
    BY <1>4 DEF KeysCollected
  <2>2. Len(d.index[id]) = Len(d.buf) BY <1>1, <2>1
  <2>3. ToSet(d.keys[id]) = {}
    <3>1. CASE c.index[id] # <<>> BY <1>1, <1>3, <2>1, <3>1
    <3>2. CASE c.index[id] = <<>>
      <4>1. c.buf = <<>> BY <2>1, <3>2 DEF ChunkType
      <4>2. KeyPlaces(c.buf, lg) = {} BY <4>1 DEF KeyPlaces
      <4> QED BY <1>1, <2>1, <3>2, <4>2
    <3> QED BY <3>1, <3>2
  <2> QED BY <1>2, <1>4, <2>1, <2>2, <2>3 DEF KeysCollected, d
<1>5. CASE ~config.video BY <1>1, <1>2, <1>5 DEF KeysCollected, d
<1> QED BY <1>4, <1>5

(* The elements of a sequence with one more. *)
LEMMA AppendToSet ==
  ASSUME NEW S, NEW s \in Seq(S), NEW x, NEW t, t = Append(s, x)
  PROVE  ToSet(t) = ToSet(s) \cup {x}
<1>1. /\ DOMAIN t = 1 .. Len(s) + 1 /\ DOMAIN s = 1 .. Len(s) /\ Len(s) \in Nat
      /\ t[Len(s) + 1] = x /\ \A k \in DOMAIN s : t[k] = s[k]
  OBVIOUS
<1>2. ASSUME NEW k \in DOMAIN t PROVE t[k] \in ToSet(s) \cup {x}
  <2>1. k = Len(s) + 1 \/ k \in DOMAIN s BY <1>1
  <2> QED BY <1>1, <2>1 DEF ToSet
<1>3. ToSet(s) \subseteq ToSet(t)
  <2>1. \A k \in DOMAIN s : k \in DOMAIN t BY <1>1
  <2> QED BY <1>1, <2>1 DEF ToSet
<1>4. x \in ToSet(t)
  <2>1. Len(s) + 1 \in DOMAIN t BY <1>1
  <2> QED BY <1>1, <2>1 DEF ToSet
<1>5. ToSet(t) \subseteq ToSet(s) \cup {x} BY <1>2 DEF ToSet
<1> QED BY <1>3, <1>4, <1>5

(* The key frame index grows with the buffer. *)
LEMMA WithKeys ==
  ASSUME NEW c \in ChunkType, config \in Config, log \in Seq(Message), NEW nm, NEW len, NEW ts,
         NEW frame, frame \in IF config.video THEN {"key", "delta"} ELSE {"plain"},
         nm \in DOMAIN config.ids,
         Known(c.buf, log), KeysCollected(c, log)
  PROVE  KeysCollected(With(c, nm, len, ts, frame), Append(log, MessageOf(nm, len, ts, frame)))
<1> DEFINE d == With(c, nm, len, ts, frame)
           m == MessageOf(nm, len, ts, frame)
           lg == Append(log, m)
           id == config.ids[nm]
           e == [ts |-> ts, off |-> c.len]
<1>0. /\ DOMAIN d.buf = 1 .. Len(c.buf) + 1 /\ DOMAIN c.buf = 1 .. Len(c.buf)
      /\ Len(c.buf) \in Nat /\ Len(d.buf) = Len(c.buf) + 1
      /\ \A k \in DOMAIN c.buf : d.buf[k] = c.buf[k]
      /\ d.buf[Len(c.buf) + 1] = [n |-> Len(log) + 1, at |-> c.len, len |-> len]
  BY WithBuf
<1>1. /\ DOMAIN d.buf = 1 .. Len(c.buf) + 1 /\ DOMAIN c.buf = 1 .. Len(c.buf)
      /\ Len(c.buf) \in Nat /\ Len(d.buf) = Len(c.buf) + 1
      /\ \A k \in DOMAIN c.buf : d.buf[k] = c.buf[k]
      /\ d.buf[Len(c.buf) + 1].n = Len(log) + 1
  <2> HIDE DEF d
  <2> QED BY <1>0
<1>2. /\ lg[Len(log) + 1] = m /\ m.frame = frame
      /\ \A n \in DOMAIN log : lg[n] = log[n]
  BY AppendedLog DEF MessageOf
<1>3. id \in TopicIds /\ id \in GroupIds BY ConfigIds DEF GroupIds
<1>4. /\ d.index = [c.index EXCEPT ![id] = Append(@, e)]
      /\ d.keys = [c.keys EXCEPT ![id] = IF frame = "key" THEN Append(@, Len(c.index[id])) ELSE @]
  BY DEF With, Buffered
<1>5. c.index \in [TopicIds -> Seq(MessageIndex)] /\ c.keys \in [TopicIds -> Seq(Nat)]
  BY DEF ChunkType
<1> HIDE DEF d, m, lg, id, e
<1>6. KeyPlaces(d.buf, lg) = KeyPlaces(c.buf, log) \cup (IF frame = "key" THEN {Len(c.buf)} ELSE {})
  <2>1. \A k \in DOMAIN c.buf : lg[d.buf[k].n] = log[c.buf[k].n] BY <1>1, <1>2 DEF Known
  <2>2. lg[d.buf[Len(c.buf) + 1].n].frame = frame BY <1>1, <1>2
  <2> DEFINE K == {j \in DOMAIN c.buf : log[c.buf[j].n].frame = "key"}
             L == {j \in DOMAIN d.buf : lg[d.buf[j].n].frame = "key"}
  <2>3. L = K \cup (IF frame = "key" THEN {Len(c.buf) + 1} ELSE {})
    <3>1. ASSUME NEW j \in DOMAIN d.buf PROVE j \in DOMAIN c.buf \/ j = Len(c.buf) + 1 BY <1>1
    <3>2. ASSUME NEW j \in DOMAIN c.buf PROVE j \in DOMAIN d.buf BY <1>1
    <3>3. Len(c.buf) + 1 \in DOMAIN d.buf /\ Len(c.buf) + 1 \notin DOMAIN c.buf BY <1>1
    <3> QED BY <2>1, <2>2, <3>1, <3>2, <3>3
  <2>4. KeyPlaces(d.buf, lg) = {j - 1 : j \in L} /\ KeyPlaces(c.buf, log) = {j - 1 : j \in K}
    BY DEF KeyPlaces
  <2>5. Len(c.buf) = (Len(c.buf) + 1) - 1 BY <1>1
  <2> HIDE DEF K, L
  <2> QED BY <2>3, <2>4, <2>5
<1>7. CASE config.video
  <2>1. PICK i \in TopicIds : /\ GroupIds = {i}
                              /\ Len(c.index[i]) = Len(c.buf)
                              /\ ToSet(c.keys[i]) = KeyPlaces(c.buf, log)
    BY <1>7 DEF KeysCollected
  <2>2. i = id BY <1>3, <2>1
  <2>3. Len(d.index[id]) = Len(d.buf) BY <1>1, <1>3, <1>4, <1>5, <2>1, <2>2
  <2>4. ToSet(d.keys[id]) = KeyPlaces(d.buf, lg)
    <3>1. CASE frame = "key"
      <4>1. d.keys[id] = Append(c.keys[id], Len(c.buf)) BY <1>3, <1>4, <1>5, <2>1, <2>2, <3>1
      <4>2. c.keys[id] \in Seq(Nat) BY <1>3, <1>5
      <4>3. ToSet(d.keys[id]) = ToSet(c.keys[id]) \cup {Len(c.buf)} BY <4>1, <4>2, AppendToSet
      <4> QED BY <1>6, <2>1, <2>2, <3>1, <4>1, <4>3
    <3>2. CASE frame # "key"
      <4>1. d.keys[id] = c.keys[id] BY <1>3, <1>4, <1>5, <3>2
      <4> QED BY <1>6, <2>1, <2>2, <3>2, <4>1
    <3> QED BY <3>1, <3>2
  <2> QED BY <1>3, <1>7, <2>1, <2>2, <2>3, <2>4 DEF KeysCollected, d, m, lg
<1>8. CASE ~config.video
  <2>1. frame = "plain" BY <1>8
  <2>2. \A i \in GroupIds : d.keys[i] = c.keys[i] BY <1>4, <1>5, <2>1, GroupIdsType
  <2>3. KeyPlaces(d.buf, lg) = KeyPlaces(c.buf, log) BY <1>6, <2>1
  <2> QED BY <1>8, <2>2, <2>3 DEF KeysCollected, d, m, lg
<1> QED BY <1>7, <1>8

LEMMA ListedType == ASSUME TypeOK PROVE Listed \subseteq IndexChunk
<1>1. indexChunks \in Seq(IndexChunk) /\ indexList \in Seq(Seq(IndexChunk)) BY DEF TypeOK
<1>2. \A s \in Seq(IndexChunk) : ToSet(s) \subseteq IndexChunk BY DEF ToSet
<1>3. \A g \in DOMAIN indexList : indexList[g] \in Seq(IndexChunk) BY <1>1
<1> QED BY <1>1, <1>2, <1>3 DEF Listed

(* The stream with a flushed chunk on it, and the index with its entry. *)
LEMMA StoredDescribed ==
  ASSUME WriterAssumption, TypeOK, InPlace(stream), offset = StreamEnd(stream),
         config \in Config, config.video => ~config.compressed,
         NEW c \in ChunkType, NEW packed \in Nat, packed \in ChunkLens(c),
         config.video => c.len # 0,
         NEW lg, KeysCollected(c, lg), EmptyKeyless(stream, lg),
         \A x \in Listed : Described(stream, x, lg),
         stream' = Append(stream, ChunkRecord(c, packed)),
         Listed' \subseteq Listed \cup {IndexChunkOf(c, packed)}
  PROVE  /\ \A x \in Listed' : Described(stream', x, lg)
         /\ EmptyKeyless(stream', lg)
<1> DEFINE r == ChunkRecord(c, packed)
<1>1. stream \in Seq(Record) /\ offset \in Nat BY DEF TypeOK
<1>2. r \in Record /\ r.at = StreamEnd(stream) BY <1>1, DataRecord DEF ChunkRecord
<1>3. /\ Described(Append(stream, r), IndexChunkOf(c, packed), lg)
      /\ r.len = 0 => KeyPlaces(r.body, lg) = {}
  BY <1>1, FlushDescribed
<1> HIDE DEF r
<1>4. \A x \in Listed : Described(Append(stream, r), x, lg)
  <2> TAKE x \in Listed
  <2>1. x \in IndexChunk BY ListedType
  <2> QED BY <1>1, <1>2, <1>3, <2>1, AppendDescribed
<1>5. EmptyKeyless(Append(stream, r), lg) BY <1>1, <1>3, AppendEmptyKeyless
<1> QED BY <1>3, <1>4, <1>5 DEF r

LEMMA KeysAfter ==
  ASSUME config' = config, KeysCollected(chunk', log')
  PROVE  KeysCollected(chunk, log)'
<1>1. GroupIds' = GroupIds BY DEF GroupIds
<1> QED BY <1>1 DEF KeysCollected, KeyPlaces

(* A new group has collected nothing, and a video group has one topic. *)
LEMMA OpenedKeys ==
  ASSUME WriterAssumption, TypeOK, BufferIndexed, ~sinkFailed, NEW r \in OpenRequests, OpenTopics(r)
  PROVE  KeysCollected(chunk, log)' /\ (config'.video => ~config'.compressed)
<1>1. /\ \A id \in GroupIds' : chunk'.index[id] = <<>> /\ chunk'.keys[id] = <<>>
      /\ chunk'.buf = chunk.buf
      /\ config'.video = r.video /\ config'.compressed = r.compressed
      /\ DOMAIN config'.ids = ToSet(r.names)
      /\ GroupIds' \subseteq TopicIds
  BY OpenedGroup
<1>2. chunk.buf = <<>> BY DEF OpenTopics, Openable, BufferIndexed
<1>3. ToSet(<<>>) = {} BY DEF ToSet
<1>4. chunk'.buf = <<>> BY <1>1, <1>2
<1>5. KeyPlaces(chunk'.buf, log') = {} BY <1>4 DEF KeyPlaces
<1>6. r.video => ~r.compressed /\ Len(r.names) = 1 BY DEF OpenTopics, VideoError
<1>7. CASE config'.video
  <2>1. r.names \in Seq(Names) BY DEF WriterAssumption
  <2>2. ToSet(r.names) = {r.names[1]}
    <3>1. DOMAIN r.names = {1} BY <1>1, <1>6, <1>7, <2>1
    <3> QED BY <3>1 DEF ToSet
  <2> DEFINE id == config'.ids[r.names[1]]
  <2>3. GroupIds' = {id} BY <1>1, <2>2 DEF GroupIds
  <2> HIDE DEF id
  <2>4. id \in TopicIds BY <1>1, <2>3
  <2>5. Len(chunk'.index[id]) = Len(chunk'.buf) /\ ToSet(chunk'.keys[id]) = KeyPlaces(chunk'.buf, log')
    BY <1>1, <1>3, <1>4, <1>5, <2>3
  <2>6. \E i \in TopicIds : /\ GroupIds' = {i}
                            /\ Len(chunk'.index[i]) = Len(chunk'.buf)
                            /\ ToSet(chunk'.keys[i]) = KeyPlaces(chunk'.buf, log')
    BY <2>3, <2>4, <2>5
  <2> QED BY <1>1, <1>6, <1>7, <2>6 DEF KeysCollected, KeyPlaces
<1>8. CASE ~config'.video BY <1>1, <1>5, <1>8 DEF KeysCollected, KeyPlaces
<1> QED BY <1>7, <1>8

(* KeyInv is inductive. *)
LEMMA KeyStep ==
  ASSUME WriterAssumption, KeyInv, [Next]_vars
  PROVE  KeyInv'
<1>1. RangeInv' /\ FrameInv' BY RangeStep, FrameStep DEF KeyInv
<1> DEFINE Books == /\ isTopicOpen' => KeysCollected(chunk, log)' /\ (config'.video => ~config'.compressed)
                    /\ \A x \in Listed' : Described(stream', x, log')
                    /\ EmptyKeyless(stream', log')
<1> SUFFICES ASSUME ~sinkFailed', NotReopened' PROVE Books
  BY <1>1 DEF KeyInv, Described, EmptyKeyless, KeysRight, KeyPlaces
<1>2. HealthyStep /\ ~Reopening /\ ~sinkFailed /\ NotReopened
  BY NotReopenedBefore DEF KeyInv, RangeInv, OrderInv
<1>3. /\ TypeOK /\ BufferIndexed /\ chunk \in ChunkType /\ log \in Seq(Message)
      /\ stream \in Seq(Record) /\ stream' \in Seq(Record)
      /\ indexChunks \in Seq(IndexChunk) /\ indexList \in Seq(Seq(IndexChunk))
  BY NextType DEF KeyInv, RangeInv, OrderInv, IndexInv, TypeOK
<1>4. /\ InPlace(stream) /\ DataFramed(stream, log) /\ Known(chunk.buf, log)
      /\ isTopicOpen => KeysCollected(chunk, log) /\ (config.video => ~config.compressed)
      /\ \A x \in Listed : Described(stream, x, log)
      /\ EmptyKeyless(stream, log)
  BY <1>2 DEF KeyInv, RangeInv, FrameInv, Framed
<1>5. /\ \A x \in Listed : Described(stream, x, log')
      /\ EmptyKeyless(stream, log')
  <2>1. CASE log' = log BY <1>4, <2>1
  <2>2. ASSUME NEW m, log' = Append(log, m)
        PROVE  (\A x \in Listed : Described(stream, x, log')) /\ EmptyKeyless(stream, log')
    BY <1>3, <1>4, <2>2, DescribedGrows
  <2> QED BY <2>1, <2>2, LogGrows
<1>6. ASSUME NEW r \in OpenRequests, OpenTopics(r) PROVE Books
  <2>1. UNCHANGED <<indexChunks, indexList, stream>> BY <1>3, <1>6, OpenTopicsLen
  <2>2. Listed' = Listed BY <2>1 DEF Listed
  <2> QED BY <1>2, <1>3, <1>5, <1>6, <2>1, <2>2, OpenedKeys
<1>7. ASSUME NEW nm \in Names, NEW len \in Nat, NEW ts \in Times, NEW frame,
             Taking(nm, len, ts, frame), NEW c \in ChunkType, Known(c.buf, log), KeysCollected(c, log)
      PROVE  /\ KeysCollected(With(c, nm, len, ts, frame), log')
             /\ With(c, nm, len, ts, frame) \in ChunkType
             /\ KeysCollected(c, log')
  <2>1. /\ config \in Config /\ nm \in DOMAIN config.ids
        /\ frame \in IF config.video THEN {"key", "delta"} ELSE {"plain"}
        /\ log' = Append(log, MessageOf(nm, len, ts, frame))
    BY <1>7 DEF Taking
  <2>2. KeyPlaces(c.buf, log') = KeyPlaces(c.buf, log) BY <1>3, <1>7, <2>1, KeyPlacesGrow
  <2>3. KeysCollected(c, log') BY <1>7, <2>2 DEF KeysCollected
  <2>4. With(c, nm, len, ts, frame) \in ChunkType BY <1>3, <1>7, TakingTypes
  <2>5. KeysCollected(With(c, nm, len, ts, frame), Append(log, MessageOf(nm, len, ts, frame)))
    BY <1>3, <1>7, <2>1, WithKeys
  <2> QED BY <2>1, <2>3, <2>4, <2>5
<1>8. ASSUME NEW nm \in Names, NEW len \in Nat, NEW ts \in Times, NEW frame,
             Keeping(nm, len, ts, frame)
      PROVE  Books
  <2>1. /\ Taking(nm, len, ts, frame) /\ chunk' = With(chunk, nm, len, ts, frame)
        /\ isTopicOpen /\ UNCHANGED <<config, indexChunks, indexList, stream>>
    BY <1>8 DEF Keeping, Taking, fileVars
  <2>2. KeysCollected(chunk', log') BY <1>3, <1>4, <1>7, <2>1
  <2>3. KeysCollected(chunk, log)' BY <2>1, <2>2, KeysAfter
  <2>4. Listed' = Listed BY <2>1 DEF Listed
  <2> QED BY <1>4, <1>5, <2>1, <2>3, <2>4
<1>9. ASSUME NEW nm \in Names, NEW len \in Nat, NEW ts \in Times, NEW packed \in Nat,
             Filling(nm, len, ts, packed)
      PROVE  Books
  <2> DEFINE c == With(chunk, nm, len, ts, "plain")
  <2>1. /\ Taking(nm, len, ts, "plain") /\ chunk' = Drained(c)
        /\ isTopicOpen /\ UNCHANGED <<config, indexList>> /\ config \in Config /\ ~config.video
        /\ indexChunks' = Append(indexChunks, IndexChunkOf(c, packed))
        /\ stream' = Append(stream, ChunkRecord(c, packed)) /\ offset = StreamEnd(stream)
        /\ packed \in ChunkLens(c)
    BY <1>9 DEF Filling, Flushing, Taking, fileVars
  <2>2. KeysCollected(c, log') /\ c \in ChunkType BY <1>3, <1>4, <1>7, <2>1
  <2>3. Listed' \subseteq Listed \cup {IndexChunkOf(c, packed)} BY <1>3, <2>1, ListedAfterFlush
  <2> HIDE DEF c
  <2>4. (\A x \in Listed' : Described(stream', x, log')) /\ EmptyKeyless(stream', log')
    BY <1>3, <1>4, <1>5, <2>1, <2>2, <2>3, StoredDescribed
  <2>5. KeysCollected(chunk', log') BY <2>1, <2>2, DrainedKeys
  <2>6. KeysCollected(chunk, log)' BY <2>1, <2>5, KeysAfter
  <2> QED BY <2>1, <2>4, <2>6
<1>10. ASSUME NEW nm \in Names, NEW len \in Nat, NEW ts \in Times, NEW packed \in Nat,
              Cutting(nm, len, ts, packed)
       PROVE  Books
  <2> DEFINE d == Drained(chunk)
  <2>1. /\ Taking(nm, len, ts, "key") /\ chunk' = With(d, nm, len, ts, "key")
        /\ isTopicOpen /\ UNCHANGED <<config, indexList>> /\ config \in Config
        /\ indexChunks' = Append(indexChunks, IndexChunkOf(chunk, packed))
        /\ stream' = Append(stream, ChunkRecord(chunk, packed)) /\ offset = StreamEnd(stream)
        /\ packed \in ChunkLens(chunk) /\ chunk.len > 0
    BY <1>10 DEF Cutting, CutNow, Flushing, Taking, fileVars
  <2>2. KeysCollected(chunk, log') BY <1>3, <1>4, <1>7, <2>1
  <2>3. Listed' \subseteq Listed \cup {IndexChunkOf(chunk, packed)} BY <1>3, <2>1, ListedAfterFlush
  <2>4. chunk.len # 0 BY <1>3, <2>1 DEF ChunkType
  <2>5. (\A x \in Listed' : Described(stream', x, log')) /\ EmptyKeyless(stream', log')
    BY <1>3, <1>4, <1>5, <2>1, <2>2, <2>3, <2>4, StoredDescribed
  <2>6. d \in ChunkType /\ KeysCollected(d, log) BY <1>3, <1>4, <2>1, DrainedKeys, DrainedType
  <2>7. Known(d.buf, log) BY DEF Known, Drained, ClearedBuf
  <2> HIDE DEF d
  <2>8. KeysCollected(chunk', log') BY <1>7, <2>1, <2>6, <2>7
  <2>9. KeysCollected(chunk, log)' BY <2>1, <2>8, KeysAfter
  <2> QED BY <1>4, <2>1, <2>5, <2>9
<1>11. ASSUME Closing PROVE Books
  <2>1. isTopicOpen /\ ~isTopicOpen' /\ indexChunks' = <<>> /\ log' = log BY <1>11 DEF Closing
  <2>2. ASSUME indexList' = Append(indexList, indexChunks), stream' = stream PROVE Books
    <3>1. Listed' \subseteq Listed \cup ToSet(indexChunks) BY <1>3, <2>1, <2>2, ListedAfterClose
    <3>2. Listed' \subseteq Listed BY <3>1 DEF Listed
    <3> QED BY <1>5, <2>1, <2>2, <3>2
  <2>3. ASSUME chunk.len > 0, config \in Config, NEW packed \in ChunkLens(chunk) \cap Nat,
               offset = StreamEnd(stream),
               indexList' = Append(indexList, Append(indexChunks, IndexChunkOf(chunk, packed))),
               stream' = Append(stream, ChunkRecord(chunk, packed))
        PROVE  Books
    <3> DEFINE x == IndexChunkOf(chunk, packed)
               filed == Append(indexChunks, x)
    <3>1. Listed' \subseteq Listed \cup ToSet(filed) BY <1>3, <2>1, <2>3, ListedAfterClose
    <3>2. ToSet(filed) = ToSet(indexChunks) \cup {x}
      <4> HIDE DEF x
      <4> QED BY <1>3, AppendToSet
    <3>3. Listed' \subseteq Listed \cup {x} BY <3>1, <3>2 DEF Listed
    <3>4. chunk.len # 0 BY <1>3, <2>3 DEF ChunkType
    <3>5. KeysCollected(chunk, log') BY <1>4, <2>1
    <3>6. (\A y \in Listed' : Described(stream', y, log')) /\ EmptyKeyless(stream', log')
      BY <1>3, <1>4, <1>5, <2>1, <2>3, <3>3, <3>4, <3>5, StoredDescribed
    <3> QED BY <2>1, <3>6
  <2> QED BY <1>11, <2>2, <2>3 DEF Closing
<1>12. ASSUME Quiet PROVE Books
  <2>1. /\ UNCHANGED <<isTopicOpen, config, indexChunks, indexList, log>>
        /\ isTopicOpen => chunk' = chunk
    BY <1>12 DEF Quiet
  <2>2. isTopicOpen' => KeysCollected(chunk, log)' BY <1>4, <2>1, KeysAfter
  <2>3. Listed' = Listed BY <2>1 DEF Listed
  <2>4. CASE stream' = stream BY <1>4, <1>5, <2>1, <2>2, <2>3, <2>4
  <2>5. ASSUME NEW r, stream' = Append(stream, r), OtherRecord(r) PROVE Books
    <3>1. r \in Record
      <4>1. Len(stream) + 1 \in DOMAIN stream' /\ stream'[Len(stream) + 1] = r BY <1>3, <2>5
      <4> QED BY <1>3, <4>1
    <3>2. r.kind # "data" /\ r.at = StreamEnd(stream) BY <2>5 DEF OtherRecord
    <3>3. \A x \in Listed : Described(stream', x, log')
      <4> TAKE x \in Listed
      <4>1. x \in IndexChunk BY <1>3, ListedType
      <4> QED BY <1>3, <1>5, <2>5, <3>1, <3>2, <4>1, AppendDescribed
    <3>4. EmptyKeyless(stream', log') BY <1>3, <1>5, <2>5, <3>2, AppendEmptyKeyless
    <3> QED BY <1>4, <2>1, <2>2, <2>3, <3>3, <3>4
  <2> QED BY <1>12, <2>4, <2>5 DEF Quiet
<1> HIDE DEF Books
<1> QED BY <1>2, <1>6, <1>8, <1>9, <1>10, <1>11, <1>12 DEF HealthyStep

LEMMA InitKeyInv == ASSUME WriterAssumption, Init PROVE KeyInv
<1>1. RangeInv /\ OrderInv BY InitRangeInv, InitOrderInv
<1>2. chunk.buf = <<>> /\ stream = <<>> /\ ~isTopicOpen /\ indexChunks = <<>> /\ indexList = <<>>
  BY DEF Init
<1>3. Listed = {} BY <1>2 DEF Listed, ToSet
<1>4. DataFramed(stream, log) /\ EmptyKeyless(stream, log) BY <1>2 DEF DataFramed, EmptyKeyless
<1> QED BY <1>1, <1>2, <1>3, <1>4, EmptyFramed DEF KeyInv, FrameInv

(* A record that stands where an index chunk says is the one described. *)
LEMMA KeysFollow == ASSUME KeyInv PROVE VideoChunksDecodable
<1>1. ASSUME NEW k \in DOMAIN stream, stream[k].kind = "data", stream[k].body # <<>>
      PROVE  log[stream[k].body[1].n].frame # "delta"
  BY <1>1 DEF KeyInv, FrameInv, DataFramed, Framed
<1>2. ASSUME ~sinkFailed, NotReopened, NEW c \in Listed,
             NEW d \in RecordsAt(stream, "data", c.off, c.len),
             NEW id \in {i \in TopicIds : c.topics[i].msgs # <<>>}
      PROVE  ToSet(c.topics[id].keys)
               = {k - 1 : k \in {j \in DOMAIN d.body : log[d.body[j].n].frame = "key"}}
  <2>1. PICK k \in DOMAIN stream :
          d = stream[k] /\ stream[k].kind = "data" /\ stream[k].at = c.off /\ stream[k].len = c.len
    BY DEF RecordsAt, ToSet
  <2>2. KeysRight(c, d.body, log) BY <1>2, <2>1 DEF KeyInv, Described
  <2> QED BY <2>2 DEF KeysRight, Mentioned, KeysOf, KeyPlaces
<1> QED BY <1>1, <1>2 DEF VideoChunksDecodable

(* GOP integrity: no stored chunk begins with a delta frame, and the key   *)
(* frame indexes of a chunk are the places of its key frames.              *)
THEOREM VideoIsDecodable == Spec => []VideoChunksDecodable
<1>1. Init => KeyInv BY WriterAssumption, InitKeyInv
<1>2. KeyInv /\ [Next]_vars => KeyInv' BY WriterAssumption, KeyStep
<1>3. KeyInv => VideoChunksDecodable BY KeysFollow
<1> QED BY <1>1, <1>2, <1>3, PTL DEF Spec

-----------------------------------------------------------------------------
(* Chunk boundaries.  The counters of chunkStatus always say what a        *)
(* threshold measures on the buffer, and at no point of the buffer where   *)
(* the Writer could have cut had the measure reached the limit.            *)

(* Measure of the first k messages of a run. *)
MeasureAt(body, k, lg) ==
  CASE config.mode = "size"     -> body[k].at + body[k].len
    [] config.mode = "duration" -> lg[body[k].n].ts - lg[body[1].n].ts
    [] config.mode = "count"    -> k

CanCut(body, k, lg) == config.video => lg[body[k + 1].n].frame = "key" /\ body[k + 1].at > 0

BelowAtCuts(body, lg) ==
  \A k \in 1 .. Len(body) - 1 : CanCut(body, k, lg) => MeasureAt(body, k, lg) < config.limit

CutAtLimit(body, lg) ==
  MeasureAt(body, Len(body), lg) >= config.limit /\ BelowAtCuts(body, lg)

Tally(c, st, lg, last) ==
  /\ config.mode = "size" => st.size = c.len
  /\ config.mode = "count" => st.count = Len(c.buf)
  /\ config.mode = "duration" => st.start = IF c.buf = <<>> THEN -1 ELSE lg[c.buf[1].n].ts
  /\ c.buf = <<>> => c.len = 0
  /\ c.buf # <<>> => /\ c.len = Last(c.buf).at + Last(c.buf).len
                     /\ lg[Last(c.buf).n].ts = last
                     /\ lg[c.buf[1].n].ts >= 0

BelowAtEnd(c, lg) ==
  ~config.video /\ c.buf # <<>> => MeasureAt(c.buf, Len(c.buf), lg) < config.limit

OpenGroupCut(s, lg) ==
  \A k \in DOMAIN s :
    s[k].kind = "data" /\ s[k].body # <<>> /\ lg[s[k].body[1].n].name \in DOMAIN config.ids
      => CutAtLimit(s[k].body, lg)

CutInv ==
  /\ FrameInv
  /\ ~sinkFailed /\ NotReopened =>
       /\ lastTimestamp >= 0
       /\ \A n \in DOMAIN log : log[n].name \in openedNames
       /\ isTopicOpen => /\ DOMAIN config.ids \subseteq openedNames
                         /\ Tally(chunk, status, log, lastTimestamp)
                         /\ BelowAtCuts(chunk.buf, log)
                         /\ BelowAtEnd(chunk, log)
                         /\ OpenGroupCut(stream, log)

LEMMA MessageFields ==
  ASSUME WriterAssumption, NEW lg \in Seq(Message), NEW n \in DOMAIN lg PROVE lg[n].ts \in Int
<1>1. lg[n] \in Message OBVIOUS
<1> QED BY <1>1 DEF Message, WriterAssumption

LEMMA SegmentFields ==
  ASSUME NEW body \in Seq(Segment), NEW k \in DOMAIN body
  PROVE  body[k].at \in Nat /\ body[k].len \in Nat
<1>1. body[k] \in Segment OBVIOUS
<1> QED BY <1>1 DEF Segment

(* A longer log changes no measure. *)
LEMMA CutAtLimitGrows ==
  ASSUME NEW lg \in Seq(Message), NEW m, NEW body \in Seq(Segment), Known(body, lg)
  PROVE  /\ \A k \in DOMAIN body : MeasureAt(body, k, Append(lg, m)) = MeasureAt(body, k, lg)
         /\ BelowAtCuts(body, lg) => BelowAtCuts(body, Append(lg, m))
         /\ body # <<>> /\ CutAtLimit(body, lg) => CutAtLimit(body, Append(lg, m))
<1> DEFINE h == Append(lg, m)
<1>1. \A k \in DOMAIN body : h[body[k].n] = lg[body[k].n] BY DEF Known
<1>2. DOMAIN body = 1 .. Len(body) /\ Len(body) \in Nat OBVIOUS
<1>3. body # <<>> => Len(body) \in DOMAIN body OBVIOUS
<1> HIDE DEF h
<1>4. ASSUME NEW k \in DOMAIN body PROVE MeasureAt(body, k, h) = MeasureAt(body, k, lg)
  <2>1. 1 \in DOMAIN body BY <1>2, <1>4
  <2> QED BY <1>1, <1>4, <2>1 DEF MeasureAt
<1>5. ASSUME NEW k \in 1 .. Len(body) - 1
      PROVE  k \in DOMAIN body /\ (CanCut(body, k, h) <=> CanCut(body, k, lg))
  <2>1. k \in DOMAIN body /\ k + 1 \in DOMAIN body BY <1>2, <1>5
  <2> QED BY <1>1, <2>1 DEF CanCut
<1>6. BelowAtCuts(body, h) <=> BelowAtCuts(body, lg) BY <1>4, <1>5 DEF BelowAtCuts
<1>7. body # <<>> => (CutAtLimit(body, h) <=> CutAtLimit(body, lg))
  BY <1>3, <1>4, <1>6 DEF CutAtLimit
<1> QED BY <1>4, <1>6, <1>7 DEF h

LEMMA OpenGroupCutGrows ==
  ASSUME NEW lg \in Seq(Message), NEW m, NEW s \in Seq(Record), DataFramed(s, lg),
         OpenGroupCut(s, lg)
  PROVE  OpenGroupCut(s, Append(lg, m))
<1> SUFFICES ASSUME NEW k \in DOMAIN s, s[k].kind = "data", s[k].body # <<>>,
                    Append(lg, m)[s[k].body[1].n].name \in DOMAIN config.ids
             PROVE  CutAtLimit(s[k].body, Append(lg, m))
  BY DEF OpenGroupCut
<1>1. s[k] \in Record OBVIOUS
<1>2. s[k].body \in Seq(Segment) /\ Known(s[k].body, lg) BY <1>1, DataBody DEF DataFramed, Framed
<1>3. 1 \in DOMAIN s[k].body BY <1>2
<1>4. Append(lg, m)[s[k].body[1].n] = lg[s[k].body[1].n] BY <1>2, <1>3 DEF Known
<1>5. CutAtLimit(s[k].body, lg) BY <1>4 DEF OpenGroupCut
<1> QED BY <1>2, <1>5, CutAtLimitGrows

LEMMA AppendOpenGroupCut ==
  ASSUME NEW s \in Seq(Record), NEW lg, OpenGroupCut(s, lg), NEW r,
         r.kind = "data" => CutAtLimit(r.body, lg)
  PROVE  OpenGroupCut(Append(s, r), lg)
<1>1. \A k \in DOMAIN Append(s, r) : \/ Append(s, r)[k] = r
                                     \/ (k \in DOMAIN s /\ Append(s, r)[k] = s[k])
  BY AppendCases
<1> QED BY <1>1 DEF OpenGroupCut

(* The test of the code measures the buffer. *)
LEMMA ReachedMeasures ==
  ASSUME WriterAssumption, config \in Config, NEW c \in ChunkType, NEW st, NEW last,
         NEW lg \in Seq(Message), Known(c.buf, lg), c.buf # <<>>, Tally(c, st, lg, last)
  PROVE  /\ ThresholdReached(st, last) <=> MeasureAt(c.buf, Len(c.buf), lg) >= config.limit
         /\ MeasureAt(c.buf, Len(c.buf), lg) \in Int
<1>1. /\ config.mode \in Modes /\ config.limit \in Nat /\ c.buf \in Seq(Segment) /\ c.len \in Nat
  BY DEF Config, ChunkType
<1>2. 1 \in DOMAIN c.buf /\ Len(c.buf) \in DOMAIN c.buf /\ Len(c.buf) \in Nat
      /\ Last(c.buf) = c.buf[Len(c.buf)]
  BY <1>1 DEF Last
<1>3. /\ c.buf[Len(c.buf)].at \in Nat /\ c.buf[Len(c.buf)].len \in Nat
      /\ lg[c.buf[1].n].ts \in Int /\ lg[c.buf[Len(c.buf)].n].ts \in Int
  BY <1>1, <1>2, SegmentFields, MessageFields DEF Known
<1>4. CASE config.mode = "size" BY <1>1, <1>2, <1>3, <1>4 DEF Tally, ThresholdReached, MeasureAt
<1>5. CASE config.mode = "duration"
  <2>1. st.start = lg[c.buf[1].n].ts /\ last = lg[c.buf[Len(c.buf)].n].ts /\ lg[c.buf[1].n].ts >= 0
    BY <1>2, <1>5 DEF Tally
  <2>2. st.start # -1 BY <1>3, <2>1
  <2>3. MeasureAt(c.buf, Len(c.buf), lg) = last - st.start BY <1>5, <2>1 DEF MeasureAt
  <2>4. ThresholdReached(st, last) <=> st.start # -1 /\ last - st.start >= config.limit
    BY <1>5 DEF ThresholdReached
  <2>5. last \in Int /\ st.start \in Int BY <1>3, <2>1
  <2> QED BY ONLY <2>2, <2>3, <2>4, <2>5
<1>6. CASE config.mode = "count" BY <1>1, <1>2, <1>6 DEF Tally, ThresholdReached, MeasureAt
<1> QED BY <1>1, <1>4, <1>5, <1>6 DEF Modes

(* A fresh status is right for an empty chunk. *)
LEMMA EmptyTally ==
  ASSUME config \in Config, NEW c, c.buf = <<>>, c.len = 0, NEW lg, NEW last
  PROVE  /\ Tally(c, FreshStatus, lg, last)
         /\ BelowAtCuts(c.buf, lg)
         /\ BelowAtEnd(c, lg)
<1>1. Len(c.buf) = 0 OBVIOUS
<1>2. Tally(c, FreshStatus, lg, last) BY <1>1 DEF Tally, FreshStatus
<1>3. BelowAtCuts(c.buf, lg) BY <1>1 DEF BelowAtCuts
<1> QED BY <1>2, <1>3 DEF BelowAtEnd

(* One more message is counted as it is measured. *)
LEMMA WithTally ==
  ASSUME WriterAssumption, config \in Config, log \in Seq(Message), NEW c \in ChunkType, NEW st,
         st \in [start : Int, size : Nat, count : Nat],
         Known(c.buf, log), NEW last \in Int, last >= 0, Tally(c, st, log, last),
         NEW nm, NEW len, NEW ts \in Times, NEW frame, last <= ts
  PROVE  Tally(With(c, nm, len, ts, frame), Counted(st, ts, len),
               Append(log, MessageOf(nm, len, ts, frame)), ts)
<1> DEFINE d == With(c, nm, len, ts, frame)
           m == MessageOf(nm, len, ts, frame)
           lg == Append(log, m)
           su == Counted(st, ts, len)
           seg == [n |-> Len(log) + 1, at |-> c.len, len |-> len]
<1>0. config.mode \in Modes /\ c.len \in Nat /\ ts \in Int /\ c.buf \in Seq(Segment)
  BY DEF Config, ChunkType, WriterAssumption
<1>1. /\ DOMAIN d.buf = 1 .. Len(c.buf) + 1 /\ DOMAIN c.buf = 1 .. Len(c.buf)
      /\ Len(c.buf) \in Nat /\ Len(d.buf) = Len(c.buf) + 1
      /\ \A k \in DOMAIN c.buf : d.buf[k] = c.buf[k]
      /\ d.buf[Len(c.buf) + 1] = [n |-> Len(log) + 1, at |-> c.len, len |-> len]
  BY ONLY WithBuf, c \in ChunkType, log \in Seq(Message)
<1>2. d.len = c.len + len /\ d.buf # <<>>
  <2>1. d.len = c.len + len BY DEF With, Buffered
  <2>2. d.buf # <<>> BY ONLY <1>1
  <2> QED BY <2>1, <2>2
<1>3. seg.at = c.len /\ seg.len = len /\ seg.n = Len(log) + 1 OBVIOUS
<1>4. /\ lg[Len(log) + 1] = m /\ m.ts = ts
      /\ \A n \in DOMAIN log : lg[n] = log[n]
  BY AppendedLog DEF MessageOf
<1>5. /\ config.mode = "size" => su.size = st.size + len
      /\ config.mode = "count" => su.count = st.count + 1
      /\ config.mode = "duration" => su.start = IF st.start = -1 THEN ts ELSE st.start
  BY DEF Counted
<1> HIDE DEF d, m, lg, su, seg
<1>6. Last(d.buf) = seg /\ d.buf[Len(c.buf) + 1] = seg BY <1>1 DEF Last, seg
<1>7. lg[d.buf[1].n].ts = IF c.buf = <<>> THEN ts ELSE log[c.buf[1].n].ts
  <2>1. CASE c.buf = <<>> BY <1>0, <1>1, <1>3, <1>4, <1>6, <2>1
  <2>2. CASE c.buf # <<>>
    <3>1. 1 \in DOMAIN c.buf BY <1>0, <2>2
    <3> QED BY <1>1, <1>4, <2>2, <3>1 DEF Known
  <2> QED BY <2>1, <2>2
<1>8. lg[d.buf[1].n].ts >= 0
  <2>1. ts >= 0 BY <1>0
  <2> QED BY <1>7, <2>1 DEF Tally
<1>9. config.mode = "duration" => su.start = lg[d.buf[1].n].ts
  <2> SUFFICES ASSUME config.mode = "duration" PROVE su.start = lg[d.buf[1].n].ts OBVIOUS
  <2>1. CASE c.buf = <<>> BY <1>5, <1>7, <2>1 DEF Tally
  <2>2. CASE c.buf # <<>>
    <3>1. st.start = log[c.buf[1].n].ts /\ log[c.buf[1].n].ts >= 0 BY <2>2 DEF Tally
    <3>2. st.start >= 0 BY <3>1
    <3>3. st.start # -1 BY ONLY <3>2
    <3> QED BY <1>5, <1>7, <2>2, <3>1, <3>3
  <2> QED BY <2>1, <2>2
<1>10. lg[Last(d.buf).n].ts = ts BY <1>3, <1>4, <1>6
<1>11. d.len = Last(d.buf).at + Last(d.buf).len BY <1>2, <1>3, <1>6
<1>12. config.mode = "size" => su.size = d.len BY <1>2, <1>5 DEF Tally
<1>13. config.mode = "count" => su.count = Len(d.buf) BY <1>1, <1>5 DEF Tally
<1>14. Tally(d, su, lg, ts) BY <1>2, <1>8, <1>9, <1>10, <1>11, <1>12, <1>13 DEF Tally
<1> QED BY <1>14 DEF d, su, lg, m

(* The only new point to cut at is before the new message. *)
LEMMA WithCuts ==
  ASSUME WriterAssumption, config \in Config, log \in Seq(Message), NEW c \in ChunkType,
         Known(c.buf, log), BelowAtCuts(c.buf, log),
         NEW nm, NEW len, NEW ts \in Times, NEW frame,
         c.buf # <<>> /\ (config.video => frame = "key" /\ c.len > 0)
           => MeasureAt(c.buf, Len(c.buf), log) < config.limit
  PROVE  BelowAtCuts(With(c, nm, len, ts, frame).buf, Append(log, MessageOf(nm, len, ts, frame)))
<1> DEFINE d == With(c, nm, len, ts, frame)
           m == MessageOf(nm, len, ts, frame)
           lg == Append(log, m)
           seg == [n |-> Len(log) + 1, at |-> c.len, len |-> len]
<1>0. c.buf \in Seq(Segment) BY DEF ChunkType
<1>1. /\ DOMAIN d.buf = 1 .. Len(c.buf) + 1 /\ DOMAIN c.buf = 1 .. Len(c.buf)
      /\ Len(c.buf) \in Nat /\ Len(d.buf) = Len(c.buf) + 1
      /\ \A k \in DOMAIN c.buf : d.buf[k] = c.buf[k]
      /\ d.buf[Len(c.buf) + 1] = [n |-> Len(log) + 1, at |-> c.len, len |-> len]
  BY ONLY WithBuf, c \in ChunkType, log \in Seq(Message)
<1>2. seg.at = c.len /\ seg.n = Len(log) + 1 OBVIOUS
<1>3. /\ lg[Len(log) + 1] = m /\ m.frame = frame
      /\ \A n \in DOMAIN log : lg[n] = log[n]
  BY AppendedLog DEF MessageOf
<1> HIDE DEF d, m, lg, seg
<1>4. \A k \in DOMAIN c.buf : d.buf[k] = c.buf[k] /\ lg[d.buf[k].n] = log[c.buf[k].n]
  BY <1>1, <1>3 DEF Known
<1>5. ASSUME NEW k \in DOMAIN c.buf PROVE MeasureAt(d.buf, k, lg) = MeasureAt(c.buf, k, log)
  <2>1. 1 \in DOMAIN c.buf BY <1>1, <1>5
  <2> QED BY <1>4, <1>5, <2>1 DEF MeasureAt
<1> SUFFICES ASSUME NEW k \in 1 .. Len(d.buf) - 1, CanCut(d.buf, k, lg)
             PROVE  MeasureAt(d.buf, k, lg) < config.limit
  BY DEF BelowAtCuts, d, lg, m
<1>6. k \in DOMAIN c.buf BY <1>1
<1>7. CASE k = Len(c.buf)
  <2>1. d.buf[k + 1] = seg BY <1>1, <1>7 DEF seg
  <2>2. config.video => frame = "key" /\ c.len > 0 BY <1>2, <1>3, <2>1 DEF CanCut
  <2>3. c.buf # <<>> BY <1>1, <1>6
  <2> QED BY <1>5, <1>6, <1>7, <2>2, <2>3
<1>8. CASE k # Len(c.buf)
  <2>1. k \in 1 .. Len(c.buf) - 1 /\ k + 1 \in DOMAIN c.buf BY <1>1, <1>8
  <2>2. CanCut(c.buf, k, log) BY <1>4, <2>1 DEF CanCut
  <2> QED BY <1>5, <1>6, <2>1, <2>2 DEF BelowAtCuts
<1> QED BY <1>7, <1>8

GroupCut(c, st, lg, last, s) ==
  /\ Tally(c, st, lg, last)
  /\ BelowAtCuts(c.buf, lg)
  /\ BelowAtEnd(c, lg)
  /\ OpenGroupCut(s, lg)

LEMMA CutAfter ==
  ASSUME config' = config, GroupCut(chunk', status', log', lastTimestamp', stream')
  PROVE  GroupCut(chunk, status, log, lastTimestamp, stream)'
BY DEF GroupCut, Tally, BelowAtCuts, BelowAtEnd, OpenGroupCut, CutAtLimit, CanCut, MeasureAt

(* A group that opens has nothing buffered, and nothing on the stream is   *)
(* of its topics.                                                          *)
LEMMA OpenedCut ==
  ASSUME WriterAssumption, TypeOK, BufferIndexed, ~sinkFailed, DataFramed(stream, log),
         \A n \in DOMAIN log : log[n].name \in openedNames,
         NEW r \in OpenRequests, OpenTopics(r)
  PROVE  /\ GroupCut(chunk, status, log, lastTimestamp, stream)'
         /\ DOMAIN config'.ids \subseteq openedNames'
         /\ openedNames \subseteq openedNames' /\ lastTimestamp' = 0
<1>1. /\ chunk'.buf = chunk.buf /\ chunk'.len = chunk.len
      /\ DOMAIN config'.ids = ToSet(r.names)
      /\ openedNames' = openedNames \cup ToSet(r.names)
  BY OpenedGroup
<1>2. chunk'.buf = <<>> /\ chunk'.len = 0 BY <1>1 DEF OpenTopics, Openable, BufferIndexed
<1>3. UNCHANGED <<stream, log>> /\ status' = FreshStatus /\ lastTimestamp' = 0 BY OpenTopicsLen
<1>4. Len(chunk'.buf) = 0 BY <1>2
<1>5. Tally(chunk, status, log, lastTimestamp)' BY <1>2, <1>3, <1>4 DEF Tally, FreshStatus
<1>6. BelowAtCuts(chunk.buf, log)' /\ BelowAtEnd(chunk, log)'
  BY <1>2, <1>4 DEF BelowAtCuts, BelowAtEnd
<1>7. ToSet(r.names) \cap openedNames = {} BY DEF OpenTopics, Openable, Repeated
<1>8. OpenGroupCut(stream, log)'
  <2>1. ASSUME NEW k \in DOMAIN stream, stream[k].kind = "data", stream[k].body # <<>>
        PROVE  log[stream[k].body[1].n].name \notin DOMAIN config'.ids
    <3>1. stream \in Seq(Record) /\ stream[k] \in Record
      <4>1. stream \in Seq(Record) BY DEF TypeOK
      <4> QED BY <4>1
    <3>2. stream[k].body \in Seq(Segment) BY <2>1, <3>1, DataBody
    <3>3. 1 \in DOMAIN stream[k].body BY <2>1, <3>2
    <3>4. stream[k].body[1].n \in DOMAIN log BY <2>1, <3>3 DEF DataFramed, Framed, Known
    <3> QED BY <1>1, <1>7, <3>4
  <2> QED BY <1>3, <2>1 DEF OpenGroupCut
<1> QED BY <1>1, <1>3, <1>5, <1>6, <1>8 DEF GroupCut

(* What an accepted message does to a chunk that is being measured. *)
LEMMA TakingCut ==
  ASSUME WriterAssumption, TypeOK, lastTimestamp >= 0,
         NEW nm, NEW len, NEW ts, NEW frame, Taking(nm, len, ts, frame),
         NEW c \in ChunkType, NEW st \in [start : Int, size : Nat, count : Nat],
         Framed(c.buf, log), frame = "delta" => c.buf # <<>>,
         Tally(c, st, log, lastTimestamp), BelowAtCuts(c.buf, log),
         c.buf # <<>> /\ (config.video => frame = "key" /\ c.len > 0)
           => MeasureAt(c.buf, Len(c.buf), log) < config.limit,
         NEW d, d = With(c, nm, len, ts, frame)
  PROVE  /\ d \in ChunkType /\ d.buf # <<>>
         /\ Tally(d, Counted(st, ts, len), log', ts)
         /\ BelowAtCuts(d.buf, log')
         /\ ThresholdReached(Counted(st, ts, len), ts)
              <=> MeasureAt(d.buf, Len(d.buf), log') >= config.limit
         /\ MeasureAt(d.buf, Len(d.buf), log') \in Int
<1> DEFINE su == Counted(st, ts, len)
           lg == Append(log, MessageOf(nm, len, ts, frame))
<1>1. /\ config \in Config /\ log \in Seq(Message) /\ len \in Nat /\ d \in ChunkType
      /\ lastTimestamp \in Int /\ lastTimestamp <= ts /\ ts \in Times
      /\ log' = lg
  BY TakingTypes DEF Taking
<1>2. Known(c.buf, log) BY DEF Framed
<1>3. Tally(d, su, lg, ts) BY <1>1, <1>2, WithTally
<1>4. BelowAtCuts(d.buf, lg) BY <1>1, <1>2, WithCuts
<1>5. Framed(d.buf, lg) BY <1>1, WithFramed
<1>6. lg \in Seq(Message)
  <2>1. MessageOf(nm, len, ts, frame) \in Message
    BY <1>1, ConfigIds DEF MessageOf, Message, Taking
  <2> QED BY <1>1, <2>1
<1>7. d.buf # <<>>
  <2> DEFINE e == With(c, nm, len, ts, frame)
             s == [n |-> Len(log) + 1, at |-> c.len, len |-> len]
  <2>1. e.buf = Append(c.buf, s)
    <3> DEFINE index == [c.index EXCEPT ![config.ids[nm]] = Append(@, [ts |-> ts, off |-> c.len])]
               keys == [c.keys EXCEPT ![config.ids[nm]] =
                          IF frame = "key" THEN Append(@, Len(c.index[config.ids[nm]])) ELSE @]
               buf == Append(c.buf, s)
               total == c.len + len
    <3>1. e = [index |-> index, keys |-> keys, buf |-> buf, len |-> total] BY DEF With, Buffered
    <3> HIDE DEF e, index, keys, buf, total
    <3>2. e.buf = buf BY <3>1
    <3> QED BY <3>2 DEF buf
  <2>2. c.buf \in Seq(Segment) BY DEF ChunkType
  <2>3. d = e OBVIOUS
  <2> HIDE DEF e, s
  <2>4. Append(c.buf, s) # <<>> BY <2>2, AppendedIsNotEmpty
  <2> QED BY <2>1, <2>3, <2>4
<1> HIDE DEF su, lg
<1>8. /\ ThresholdReached(su, ts) <=> MeasureAt(d.buf, Len(d.buf), lg) >= config.limit
      /\ MeasureAt(d.buf, Len(d.buf), lg) \in Int
  BY <1>1, <1>3, <1>5, <1>6, <1>7, ReachedMeasures DEF Framed
<1>9. Tally(d, su, log', ts) /\ BelowAtCuts(d.buf, log') BY <1>1, <1>3, <1>4
<1>10. /\ ThresholdReached(su, ts) <=> MeasureAt(d.buf, Len(d.buf), log') >= config.limit
       /\ MeasureAt(d.buf, Len(d.buf), log') \in Int
  BY <1>1, <1>8
<1>11. d \in ChunkType BY <1>1
<1>12. su = Counted(st, ts, len) BY DEF su
<1> HIDE DEF su
<1> QED BY ONLY <1>7, <1>9, <1>10, <1>11, <1>12

(* CutInv is inductive. *)
LEMMA CutStep ==
  ASSUME WriterAssumption, CutInv, [Next]_vars
  PROVE  CutInv'
<1>1. FrameInv' BY FrameStep DEF CutInv
<1> DEFINE Named == \A n \in DOMAIN log' : log'[n].name \in openedNames'
           Goal == /\ lastTimestamp' >= 0
                   /\ Named
                   /\ isTopicOpen' => /\ DOMAIN config'.ids \subseteq openedNames'
                                      /\ GroupCut(chunk, status, log, lastTimestamp, stream)'
<1> SUFFICES ASSUME ~sinkFailed', NotReopened' PROVE Goal
  BY <1>1 DEF CutInv, GroupCut
<1>2. HealthyStep /\ ~Reopening /\ ~sinkFailed /\ NotReopened
  BY NotReopenedBefore DEF CutInv, FrameInv, OrderInv
<1>3. /\ TypeOK /\ BufferIndexed /\ chunk \in ChunkType /\ log \in Seq(Message)
      /\ stream \in Seq(Record) /\ chunk.buf \in Seq(Segment) /\ chunk.len \in Nat
      /\ lastTimestamp \in Int /\ status \in [start : Int, size : Nat, count : Nat]
  BY DEF CutInv, FrameInv, OrderInv, IndexInv, TypeOK, ChunkType
<1>4. /\ DataFramed(stream, log) /\ Framed(chunk.buf, log) /\ lastTimestamp >= 0
      /\ \A n \in DOMAIN log : log[n].name \in openedNames
      /\ isTopicOpen => /\ DOMAIN config.ids \subseteq openedNames
                        /\ GroupCut(chunk, status, log, lastTimestamp, stream)
  BY <1>2 DEF CutInv, FrameInv, GroupCut
<1>5. ASSUME NEW r \in OpenRequests, OpenTopics(r) PROVE Goal
  <2>1. log' = log BY <1>3, <1>5, OpenTopicsLen
  <2>2. /\ GroupCut(chunk, status, log, lastTimestamp, stream)'
        /\ DOMAIN config'.ids \subseteq openedNames'
        /\ openedNames \subseteq openedNames' /\ lastTimestamp' = 0
    BY <1>2, <1>3, <1>4, <1>5, OpenedCut
  <2>3. Named BY <1>4, <2>1, <2>2
  <2> QED BY <2>2, <2>3
<1>6. ASSUME NEW nm, NEW len, NEW ts, NEW frame, Taking(nm, len, ts, frame)
      PROVE  /\ lastTimestamp' >= 0 /\ Named /\ DOMAIN config'.ids \subseteq openedNames'
             /\ OpenGroupCut(stream, log')
  <2>1. /\ log' = Append(log, MessageOf(nm, len, ts, frame)) /\ openedNames' = openedNames
        /\ config' = config /\ nm \in DOMAIN config.ids /\ isTopicOpen
        /\ lastTimestamp' = ts /\ lastTimestamp <= ts /\ ts \in Int
    BY <1>6 DEF Taking, fileVars, WriterAssumption
  <2>2. MessageOf(nm, len, ts, frame).name = nm BY DEF MessageOf
  <2>3. \A n \in DOMAIN log' : log'[n] = MessageOf(nm, len, ts, frame)
                               \/ (n \in DOMAIN log /\ log'[n] = log[n])
    <3> DEFINE m == MessageOf(nm, len, ts, frame)
    <3>1. log \in Seq(Message) /\ log' = Append(log, m) BY <1>3, <2>1
    <3> HIDE DEF m
    <3>2. \A n \in DOMAIN log' : log'[n] = m \/ (n \in DOMAIN log /\ log'[n] = log[n])
      BY ONLY <3>1, AppendCases
    <3> QED BY <3>2 DEF m
  <2>4. Named BY <1>4, <2>1, <2>2, <2>3
  <2>5. OpenGroupCut(stream, log') BY <1>3, <1>4, <2>1, OpenGroupCutGrows DEF GroupCut
  <2>6. lastTimestamp' >= 0 BY <1>3, <1>4, <2>1
  <2> QED BY <1>4, <2>1, <2>4, <2>5, <2>6
<1>7. ASSUME NEW nm, NEW len, NEW ts, NEW frame, Keeping(nm, len, ts, frame) PROVE Goal
  <2> DEFINE d == With(chunk, nm, len, ts, frame)
             su == Counted(status, ts, len)
  <2>1. /\ Taking(nm, len, ts, frame) /\ chunk' = d /\ status' = su
        /\ IF config.video THEN ~CutNow(frame) ELSE ~ThresholdReached(su, ts)
        /\ isTopicOpen /\ UNCHANGED <<config, stream>> /\ config \in Config /\ lastTimestamp' = ts
        /\ frame = "delta" => chunk.len # 0
    BY <1>7 DEF Keeping, Taking
  <2>2. Tally(chunk, status, log, lastTimestamp) /\ BelowAtCuts(chunk.buf, log)
        /\ BelowAtEnd(chunk, log)
    BY <1>4, <2>1 DEF GroupCut
  <2>3. frame = "delta" => chunk.buf # <<>> BY <2>1, <2>2 DEF Tally
  <2>4. ASSUME chunk.buf # <<>>, config.video => frame = "key" /\ chunk.len > 0
        PROVE  MeasureAt(chunk.buf, Len(chunk.buf), log) < config.limit
    <3>1. CASE ~config.video BY <2>2, <2>4, <3>1 DEF BelowAtEnd
    <3>2. CASE config.video
      <4>1. ~ThresholdReached(status, lastTimestamp) BY <2>1, <2>4, <3>2 DEF CutNow
      <4>2. /\ ~(MeasureAt(chunk.buf, Len(chunk.buf), log) >= config.limit)
            /\ MeasureAt(chunk.buf, Len(chunk.buf), log) \in Int
        BY <1>3, <1>4, <2>1, <2>2, <2>4, <4>1, ReachedMeasures DEF Framed
      <4>3. config.limit \in Nat BY <2>1 DEF Config
      <4> QED BY <4>2, <4>3
    <3> QED BY <3>1, <3>2
  <2> HIDE DEF d
  <2>5. /\ d \in ChunkType /\ d.buf # <<>>
        /\ Tally(d, su, log', ts)
        /\ BelowAtCuts(d.buf, log')
        /\ ThresholdReached(su, ts) <=> MeasureAt(d.buf, Len(d.buf), log') >= config.limit
        /\ MeasureAt(d.buf, Len(d.buf), log') \in Int
    BY <1>3, <1>4, <2>1, <2>2, <2>3, <2>4, TakingCut DEF d
  <2> HIDE DEF su
  <2>6. BelowAtEnd(d, log')
    <3>1. config.limit \in Nat BY <2>1 DEF Config
    <3>2. ~config.video => MeasureAt(d.buf, Len(d.buf), log') < config.limit BY <2>1, <2>5, <3>1
    <3> QED BY <3>2 DEF BelowAtEnd
  <2>7. GroupCut(chunk', status', log', lastTimestamp', stream')
    BY <1>6, <2>1, <2>5, <2>6 DEF GroupCut
  <2>8. GroupCut(chunk, status, log, lastTimestamp, stream)' BY <2>1, <2>7, CutAfter
  <2> QED BY <1>6, <2>1, <2>8
<1>8. ASSUME NEW nm, NEW len, NEW ts, NEW packed, Filling(nm, len, ts, packed) PROVE Goal
  <2> DEFINE d == With(chunk, nm, len, ts, "plain")
             su == Counted(status, ts, len)
             r == ChunkRecord(d, packed)
  <2>1. /\ Taking(nm, len, ts, "plain") /\ chunk' = Drained(d) /\ status' = FreshStatus
        /\ ThresholdReached(su, ts)
        /\ isTopicOpen /\ config' = config /\ config \in Config /\ ~config.video
        /\ stream' = Append(stream, r)
    BY <1>8 DEF Filling, Flushing, Taking
  <2>2. Tally(chunk, status, log, lastTimestamp) /\ BelowAtCuts(chunk.buf, log)
        /\ BelowAtEnd(chunk, log)
    BY <1>4, <2>1 DEF GroupCut
  <2>3. chunk.buf # <<>> => MeasureAt(chunk.buf, Len(chunk.buf), log) < config.limit
    BY <2>1, <2>2 DEF BelowAtEnd
  <2>4. r.body = d.buf BY DEF ChunkRecord
  <2>5. Drained(d).buf = <<>> /\ Drained(d).len = 0 BY DEF Drained, ClearedBuf
  <2> HIDE DEF d, r
  <2>6. /\ BelowAtCuts(d.buf, log')
        /\ ThresholdReached(su, ts) <=> MeasureAt(d.buf, Len(d.buf), log') >= config.limit
    BY <1>3, <1>4, <2>1, <2>2, <2>3, TakingCut DEF d
  <2> HIDE DEF su
  <2>7. CutAtLimit(r.body, log') BY <2>1, <2>4, <2>6 DEF CutAtLimit
  <2>8. OpenGroupCut(stream', log') BY <1>3, <1>6, <2>1, <2>7, AppendOpenGroupCut
  <2>9. GroupCut(chunk', status', log', lastTimestamp', stream')
    BY <2>1, <2>5, <2>8, EmptyTally DEF GroupCut
  <2>10. GroupCut(chunk, status, log, lastTimestamp, stream)' BY <2>1, <2>9, CutAfter
  <2> QED BY <1>6, <2>1, <2>10
<1>9. ASSUME NEW nm, NEW len, NEW ts, NEW packed, Cutting(nm, len, ts, packed) PROVE Goal
  <2> DEFINE c == Drained(chunk)
             d == With(c, nm, len, ts, "key")
             su == Counted(FreshStatus, ts, len)
             r == ChunkRecord(chunk, packed)
  <2>1. /\ Taking(nm, len, ts, "key") /\ chunk' = d /\ status' = su
        /\ ThresholdReached(status, lastTimestamp) /\ chunk.len > 0
        /\ isTopicOpen /\ config' = config /\ config \in Config /\ config.video
        /\ stream' = Append(stream, r) /\ lastTimestamp' = ts
        /\ log' = Append(log, MessageOf(nm, len, ts, "key"))
    BY <1>9 DEF Cutting, CutNow, Flushing, Taking
  <2>2. Tally(chunk, status, log, lastTimestamp) /\ BelowAtCuts(chunk.buf, log)
    BY <1>4, <2>1 DEF GroupCut
  <2>3. chunk.buf # <<>> BY <1>3, <2>1, <2>2 DEF Tally
  <2>4. r.body = chunk.buf BY DEF ChunkRecord
  <2>5. CutAtLimit(chunk.buf, log)
    <3>1. MeasureAt(chunk.buf, Len(chunk.buf), log) >= config.limit
      BY <1>3, <1>4, <2>1, <2>2, <2>3, ReachedMeasures DEF Framed
    <3> QED BY <2>2, <3>1 DEF CutAtLimit
  <2>6. CutAtLimit(r.body, log') BY <1>3, <1>4, <2>1, <2>3, <2>4, <2>5, CutAtLimitGrows DEF Framed
  <2> HIDE DEF r
  <2>7. OpenGroupCut(stream', log') BY <1>3, <1>6, <2>1, <2>6, AppendOpenGroupCut
  <2>8. c \in ChunkType /\ c.buf = <<>> /\ c.len = 0 BY <1>3, DrainedType DEF Drained, ClearedBuf
  <2> HIDE DEF c
  <2>9. /\ Tally(c, FreshStatus, log, lastTimestamp) /\ BelowAtCuts(c.buf, log)
        /\ Framed(c.buf, log)
    BY <2>1, <2>8, EmptyTally, EmptyFramed
  <2> HIDE DEF d
  <2>10. Tally(d, su, log', ts) /\ BelowAtCuts(d.buf, log')
    BY <1>3, <1>4, <2>1, <2>8, <2>9, FreshStatusType, TakingCut DEF d
  <2> HIDE DEF su
  <2>11. BelowAtEnd(d, log') BY <2>1 DEF BelowAtEnd
  <2>12. GroupCut(chunk', status', log', lastTimestamp', stream')
    BY <2>1, <2>7, <2>10, <2>11 DEF GroupCut
  <2>13. GroupCut(chunk, status, log, lastTimestamp, stream)' BY <2>1, <2>12, CutAfter
  <2> QED BY <1>6, <2>1, <2>13
<1>10. ASSUME Closing PROVE Goal
  BY <1>4, <1>10 DEF Closing
<1>11. ASSUME Quiet PROVE Goal
  <2>1. /\ UNCHANGED <<isTopicOpen, config, lastTimestamp, status, openedNames, log>>
        /\ isTopicOpen => chunk' = chunk
    BY <1>11 DEF Quiet
  <2>2. isTopicOpen => OpenGroupCut(stream', log)
    <3>1. CASE stream' = stream BY <1>4, <3>1 DEF GroupCut
    <3>2. ASSUME NEW r, stream' = Append(stream, r), r.kind # "data", isTopicOpen
          PROVE  OpenGroupCut(stream', log)
      BY <1>3, <1>4, <3>2, AppendOpenGroupCut DEF GroupCut
    <3> QED BY <1>11, <3>1, <3>2 DEF Quiet, OtherRecord
  <2>3. isTopicOpen => GroupCut(chunk', status', log', lastTimestamp', stream')
    BY <1>4, <2>1, <2>2 DEF GroupCut
  <2>4. isTopicOpen' => GroupCut(chunk, status, log, lastTimestamp, stream)'
    BY <2>1, <2>3, CutAfter
  <2> QED BY <1>4, <2>1, <2>4
<1> HIDE DEF Goal
<1> QED BY <1>2, <1>5, <1>7, <1>8, <1>9, <1>10, <1>11 DEF HealthyStep

LEMMA InitCutInv == ASSUME WriterAssumption, Init PROVE CutInv
<1>1. FrameInv BY InitKeyInv DEF KeyInv
<1>2. ~isTopicOpen /\ lastTimestamp = 0 /\ log = <<>> BY DEF Init
<1> QED BY <1>1, <1>2 DEF CutInv

(* What the threshold measures on a prefix is MeasureAt of its length. *)
LEMMA CutsFollow == ASSUME WriterAssumption, CutInv PROVE BoundariesExact
<1> SUFFICES ASSUME isTopicOpen, ~sinkFailed, NotReopened,
                    NEW k \in DOMAIN stream, stream[k].kind = "data", OfTheOpenGroup(stream[k].body)
             PROVE  CutRight(stream[k].body)
  BY DEF BoundariesExact
<1> DEFINE body == stream[k].body
<1>1. body \in Seq(Segment)
  <2>1. stream \in Seq(Record) BY DEF CutInv, FrameInv, OrderInv, IndexInv, TypeOK
  <2>2. stream[k] \in Record BY <2>1
  <2> QED BY <2>2, DataBody
<1>2. body # <<>> /\ CutAtLimit(body, log) BY DEF CutInv, OpenGroupCut, OfTheOpenGroup
<1> HIDE DEF body
<1>3. ASSUME NEW j \in 1 .. Len(body) PROVE Measure(SubSeq(body, 1, j)) = MeasureAt(body, j, log)
  <2> DEFINE s == SubSeq(body, 1, j)
  <2>1. Len(s) = j /\ s[1] = body[1] /\ s[j] = body[j] BY <1>1
  <2> HIDE DEF s
  <2>2. Last(s) = body[j] BY <2>1 DEF Last
  <2>3. Measure(s) = MeasureAt(body, j, log) BY <2>1, <2>2 DEF Measure, MeasureAt
  <2> QED BY <2>3 DEF s
<1>4. Measure(body) = MeasureAt(body, Len(body), log)
  <2>1. Last(body) = body[Len(body)] BY DEF Last
  <2> QED BY <2>1 DEF Measure, MeasureAt
<1>5. \A j \in CutPoints(body) : j \in 1 .. Len(body) - 1 /\ j \in 1 .. Len(body) /\ CanCut(body, j, log)
  BY <1>1 DEF CutPoints, CanCut
<1>6. CutRight(body) BY <1>2, <1>3, <1>4, <1>5 DEF CutRight, CutAtLimit, BelowAtCuts
<1> QED BY <1>6 DEF body

(* While a group is open its chunks have been cut exactly where the        *)
(* threshold table puts the boundaries, for every limit and every payload. *)
THEOREM CutsAreExact == Spec => []BoundariesExact
<1>1. Init => CutInv BY WriterAssumption, InitCutInv
<1>2. CutInv /\ [Next]_vars => CutInv' BY WriterAssumption, CutStep
<1>3. CutInv => BoundariesExact BY WriterAssumption, CutsFollow
<1> QED BY <1>1, <1>2, <1>3, PTL DEF Spec

-----------------------------------------------------------------------------
(* Topic ids.  They are the first ids in the order of the names opened,    *)
(* except that the last of all is 0: a file that has as many topics as     *)
(* there are ids uses each once.                                           *)

Rank(id) == IF id = 0 THEN IdSpace ELSE id

RankedUpTo(gs, n) ==
  \A g \in DOMAIN gs : \A i \in DOMAIN gs[g].topics : Rank(gs[g].topics[i].id) <= n

IdsDiffer(gs) ==
  \A g, h \in DOMAIN gs : \A i \in DOMAIN gs[g].topics, j \in DOMAIN gs[h].topics :
    gs[g].topics[i].id = gs[h].topics[j].id => g = h /\ i = j

IdsInv ==
  /\ TypeOK
  /\ IsFiniteSet(openedNames)
  /\ FewTopics => /\ lastId = Cardinality(openedNames) % IdSpace
                  /\ RankedUpTo(groups, Cardinality(openedNames))
                  /\ IdsDiffer(groups)

SameIds(gs, hs) ==
  /\ DOMAIN hs = DOMAIN gs
  /\ \A g \in DOMAIN gs : /\ DOMAIN hs[g].topics = DOMAIN gs[g].topics
                          /\ \A i \in DOMAIN gs[g].topics : hs[g].topics[i].id = gs[g].topics[i].id

LEMMA ModLow == ASSUME NEW n \in Nat, NEW s \in Nat \ {0} PROVE (n < s => n % s = n) /\ s % s = 0
OBVIOUS

(* Only OpenTopics gives ids; the other steps keep them. *)
LEMMA IdsKept ==
  ASSUME WriterAssumption, TypeOK, [Next]_vars
  PROVE  \/ \E r \in OpenRequests : OpenTopics(r)
         \/ SameIds(groups, groups') /\ UNCHANGED <<lastId, openedNames>>
<1>0. groups \in Seq(TopicsInfo) /\ at \in Position BY DEF TypeOK, Position
<1>1. SameIds(groups, groups) BY DEF SameIds
<1>2. ASSUME NEW g, NEW y, groups' = [groups EXCEPT ![g] = y], y.topics = groups[g].topics
      PROVE  SameIds(groups, groups')
  BY <1>0, <1>2 DEF SameIds
<1>3. ASSUME WriteIndexChunk PROVE SameIds(groups, groups')
  <2> DEFINE g == at[1]
             info == InfoOf(indexList[g][at[2]])
             y == [groups[g] EXCEPT !.infos = Append(@, info)]
  <2>1. groups' = [groups EXCEPT ![g].infos = Append(@, info)] BY <1>3 DEF WriteIndexChunk
  <2>2. g \in DOMAIN groups
    <3>1. groups \in Seq(TopicsInfo) /\ at[1] \in Nat \ {0} BY <1>0, PositionFields
    <3>2. at[1] <= Len(groups) BY <1>3 DEF WriteIndexChunk
    <3> QED BY ONLY <3>1, <3>2
  <2> HIDE DEF g, info
  <2>3. groups[g] \in TopicsInfo BY <1>0, <2>2
  <2>4. y.topics = groups[g].topics BY <2>3 DEF TopicsInfo
  <2>5. groups' = [groups EXCEPT ![g] = y] BY <2>1
  <2> HIDE DEF y
  <2> QED BY <1>2, <2>4, <2>5
<1>4. ASSUME FinishGroup PROVE SameIds(groups, groups')
  <2> DEFINE g == at[1]
             n == at[3]
             y == [groups[g] EXCEPT !.total = n]
  <2>1. groups' = [groups EXCEPT ![g].total = n] BY <1>4 DEF FinishGroup
  <2>2. g \in DOMAIN groups BY <1>0, <1>4, PositionFields DEF FinishGroup
  <2> HIDE DEF g, n
  <2>3. groups[g] \in TopicsInfo BY <1>0, <2>2
  <2>4. y.topics = groups[g].topics BY <2>3 DEF TopicsInfo
  <2>5. groups' = [groups EXCEPT ![g] = y] BY <2>1
  <2> HIDE DEF y
  <2> QED BY <1>2, <2>4, <2>5
<1>5. ASSUME WriteSummary PROVE SameIds(groups, groups')
  <2>1. groups' = [g \in DOMAIN groups |-> Stamped(groups[g])] BY <1>5 DEF WriteSummary
  <2>2. ASSUME NEW g \in DOMAIN groups
        PROVE  /\ DOMAIN Stamped(groups[g]).topics = DOMAIN groups[g].topics
               /\ \A i \in DOMAIN groups[g].topics :
                    Stamped(groups[g]).topics[i].id = groups[g].topics[i].id
    <3> DEFINE Topic == [id : TopicIds, name : Names, count : Nat]
               topics == [k \in DOMAIN groups[g].topics |->
                            [groups[g].topics[k] EXCEPT !.count = count[groups[g].topics[k].id]]]
    <3>1. groups[g] \in TopicsInfo BY <1>0
    <3>2. groups[g].topics \in Seq(Topic) BY <3>1 DEF TopicsInfo
    <3>3. Stamped(groups[g]).topics = topics
      <4>1. Stamped(groups[g]) = [groups[g] EXCEPT !.topics = topics] BY DEF Stamped
      <4> HIDE DEF topics
      <4> QED BY <3>1, <4>1 DEF TopicsInfo
    <3> HIDE DEF Topic
    <3>4. \A i \in DOMAIN groups[g].topics : groups[g].topics[i] \in Topic BY <3>2
    <3>5. \A i \in DOMAIN groups[g].topics : topics[i].id = groups[g].topics[i].id
      BY <3>4 DEF Topic
    <3> QED BY <3>3, <3>5
  <2> QED BY <1>5, <2>1, <2>2 DEF SameIds, WriteSummary
<1>6. CASE \E r \in OpenRequests : OpenRejectedLate(r)
  BY <1>1, <1>6 DEF OpenRejectedLate, fileVars
<1>7. CASE \E nm \in Names, ts \in Times, len \in Lens :
             \/ WriteMessage(nm, len, ts)
             \/ \E key \in BOOLEAN : WriteVideoMessage(nm, len, ts, key)
  <2>1. ASSUME NEW nm, NEW ts, NEW len, WriteMessage(nm, len, ts) PROVE UNCHANGED fileVars
    BY <2>1 DEF WriteMessage
  <2>2. ASSUME NEW nm, NEW ts, NEW len, NEW key, WriteVideoMessage(nm, len, ts, key)
        PROVE  UNCHANGED fileVars
    BY <2>2 DEF WriteVideoMessage
  <2> QED BY <1>1, <1>7, <2>1, <2>2 DEF fileVars
<1>8. CASE CloseTopic \/ Close \/ WriteFooter \/ UNCHANGED vars
  BY <1>1, <1>8 DEF CloseTopic, Close, WriteFooter, vars, fileVars
<1>9. CASE \/ \E r \in OpenRequests : OpenRejected(r)
           \/ \E nm \in Names, ts \in Times : \/ \E video \in BOOLEAN : WriteRejected(video, nm, ts)
                                             \/ VideoNeedsKeyFrame(nm, ts)
           \/ CloseTopicRejected \/ CloseRejected \/ IndexOutOfRange
  <2>1. Panic \/ \E err \in Results : Rejected(err)
    BY <1>9 DEF OpenRejected, WriteRejected, VideoNeedsKeyFrame, CloseTopicRejected, CloseRejected,
           IndexOutOfRange, Results, OpenErrors, WriteErrors, CloseErrors
  <2> QED BY <1>1, <2>1 DEF Panic, Rejected, fileVars
<1>10. CASE WriteIndexChunk \/ FinishGroup \/ WriteSummary
  <2>1. UNCHANGED <<lastId, openedNames>>
    BY <1>10 DEF WriteIndexChunk, FinishGroup, WriteSummary
  <2> QED BY <1>3, <1>4, <1>5, <1>10, <2>1
<1> QED BY <1>6, <1>7, <1>8, <1>9, <1>10 DEF Next, Done

(* The names a group opens are new, and each counts. *)
LEMMA OpenedNamesCount ==
  ASSUME WriterAssumption, IdsInv, NEW r \in OpenRequests, OpenTopics(r)
  PROVE  /\ Cardinality(openedNames) \in Nat /\ Len(r.names) \in Nat
         /\ Cardinality(openedNames') = Cardinality(openedNames) + Len(r.names)
         /\ IsFiniteSet(openedNames')
<1> DEFINE N == ToSet(r.names)
<1>1. /\ N \cap openedNames = {} /\ Cardinality(N) = Len(r.names)
      /\ openedNames' = openedNames \cup N
  BY DEF OpenTopics, Openable, Repeated
<1>2. r.names \in Seq(Names) BY DEF WriterAssumption
<1>3. IsFiniteSet(N)
  <2>1. r.names \in Surjection(1 .. Len(r.names), N)
    <3>1. r.names \in [1 .. Len(r.names) -> N] BY <1>2 DEF ToSet
    <3>2. \A x \in N : \E i \in 1 .. Len(r.names) : r.names[i] = x BY <1>2 DEF ToSet
    <3> QED BY <3>1, <3>2 DEF Surjection
  <2>2. Len(r.names) \in Int BY <1>2
  <2>3. IsFiniteSet(1 .. Len(r.names)) BY <2>2, FS_Interval
  <2> HIDE DEF N
  <2> QED BY <2>1, <2>3, FS_Surjection
<1> HIDE DEF N
<1>4. IsFiniteSet(openedNames) BY DEF IdsInv
<1>5. Cardinality(N \cap openedNames) = 0 BY <1>1, FS_EmptySet
<1>6. Cardinality(N) \in Nat /\ Cardinality(openedNames) \in Nat
  BY <1>3, <1>4, FS_CardinalityType
<1>7. /\ IsFiniteSet(openedNames \cup N)
      /\ Cardinality(openedNames \cup N)
           = Cardinality(openedNames) + Cardinality(N) - Cardinality(openedNames \cap N)
  BY <1>3, <1>4, FS_Union
<1>8. openedNames \cap N = N \cap openedNames OBVIOUS
<1> DEFINE n == Cardinality(openedNames)
           p == Cardinality(N)
<1>9. Cardinality(openedNames \cup N) = n + p - 0 BY <1>5, <1>7, <1>8
<1> HIDE DEF n, p
<1>10. n + p - 0 = n + p BY <1>6 DEF n, p
<1> QED BY <1>1, <1>2, <1>6, <1>7, <1>9, <1>10 DEF n, p

(* The i-th topic of the group gets the id that comes i-th after those     *)
(* that are taken.                                                         *)
LEMMA NextIdRank ==
  ASSUME WriterAssumption, NEW n \in Nat, lastId = n % IdSpace,
         NEW i \in Nat \ {0}, n + i <= IdSpace
  PROVE  Rank(NextId(i)) = n + i
<1>1. IdSpace \in Nat \ {0} BY DEF WriterAssumption
<1>2. n < IdSpace BY <1>1
<1>3. lastId = n BY <1>1, <1>2, ModLow
<1>4. CASE n + i < IdSpace
  <2>1. (n + i) % IdSpace = n + i BY <1>1, <1>4, ModLow
  <2> QED BY <1>3, <2>1 DEF NextId, Rank
<1>5. CASE n + i = IdSpace
  <2>1. (n + i) % IdSpace = 0 BY <1>1, <1>5, ModLow
  <2> QED BY <1>3, <1>5, <2>1 DEF NextId, Rank
<1> QED BY <1>1, <1>4, <1>5

LEMMA OpenTopicsIds ==
  ASSUME WriterAssumption, IdsInv, NEW r \in OpenRequests, OpenTopics(r), FewTopics'
  PROVE  /\ lastId' = Cardinality(openedNames') % IdSpace
         /\ RankedUpTo(groups', Cardinality(openedNames'))
         /\ IdsDiffer(groups')
<1> DEFINE n == Cardinality(openedNames)
           l == Len(r.names)
           New(i) == [id |-> NextId(i), name |-> r.names[i], count |-> 0]
           topics == [i \in DOMAIN r.names |-> New(i)]
           info == [topics |-> topics, infos |-> <<>>, total |-> 0]
<1>0. /\ n \in Nat /\ l \in Nat /\ Cardinality(openedNames') = n + l
  BY OpenedNamesCount
<1>1. n \in Nat /\ l \in Nat /\ Cardinality(openedNames') = n + l /\ n + l <= IdSpace
  BY <1>0 DEF FewTopics
<1>1a. /\ lastId = Cardinality(openedNames) % IdSpace
       /\ RankedUpTo(groups, Cardinality(openedNames))
       /\ IdsDiffer(groups)
  <2>1. IdSpace \in Nat BY DEF WriterAssumption
  <2> HIDE DEF n, l
  <2>2. n <= IdSpace BY <1>1, <2>1
  <2> QED BY <2>2 DEF IdsInv, FewTopics, n
<1>2. TypeOK' /\ groups \in Seq(TopicsInfo)
  <2>1. [Next]_vars BY DEF Next
  <2> QED BY <2>1, NextType DEF IdsInv, TypeOK
<1>3. groups' = Append(groups, info) /\ lastId' = NextId(l) /\ r.names # <<>> BY DEF OpenTopics, Openable
<1>4. r.names \in Seq(Names) /\ IdSpace \in Nat \ {0} BY DEF WriterAssumption
<1>5. DOMAIN r.names = 1 .. l BY <1>4
<1>6. l # 0 BY <1>3, <1>4
<1>7. lastId = n % IdSpace BY <1>1a
<1>8. info.topics = topics /\ DOMAIN topics = 1 .. l BY <1>5
<1>9. \A i \in DOMAIN topics : topics[i].id = NextId(i) OBVIOUS
<1> HIDE DEF l, topics, info, New
<1>10. \A i \in 1 .. l : Rank(NextId(i)) = n + i
  <2> TAKE i \in 1 .. l
  <2>1. i \in Nat \ {0} /\ n + i <= IdSpace BY <1>1, <1>4
  <2> HIDE DEF n
  <2> QED BY <1>1, <1>7, <2>1, NextIdRank
<1>11. lastId' = (n + l) % IdSpace
  <2>1. n < IdSpace BY <1>1, <1>4, <1>6
  <2>2. lastId = n BY <1>1, <1>4, <1>7, <2>1, ModLow
  <2> QED BY <1>3, <2>2 DEF NextId
<1>12. ASSUME NEW g \in DOMAIN groups'
       PROVE  \/ g \in DOMAIN groups /\ groups'[g] = groups[g]
              \/ g = Len(groups) + 1 /\ groups'[g] = info
  <2>1. /\ DOMAIN groups' = 1 .. Len(groups) + 1 /\ DOMAIN groups = 1 .. Len(groups)
        /\ Len(groups) \in Nat /\ groups'[Len(groups) + 1] = info
        /\ \A k \in DOMAIN groups : groups'[k] = groups[k]
    BY <1>2, <1>3
  <2>2. g \in DOMAIN groups \/ g = Len(groups) + 1 BY <1>12, <2>1
  <2> QED BY <2>1, <2>2
<1>13. ASSUME NEW g \in DOMAIN groups, NEW i \in DOMAIN groups[g].topics
       PROVE  Rank(groups[g].topics[i].id) <= n /\ Rank(groups[g].topics[i].id) \in Nat
  <2>1. groups[g] \in TopicsInfo BY <1>2
  <2>2. groups[g].topics \in Seq([id : TopicIds, name : Names, count : Nat]) BY <2>1 DEF TopicsInfo
  <2>3. groups[g].topics[i].id \in TopicIds
    <3> DEFINE T == [id : TopicIds, name : Names, count : Nat]
    <3>1. \A t \in T : t.id \in TopicIds OBVIOUS
    <3>3. groups[g].topics \in Seq(T) BY <2>2
    <3> HIDE DEF T
    <3>2. groups[g].topics[i] \in T BY <3>3
    <3> QED BY <3>1, <3>2
  <2>4. Rank(groups[g].topics[i].id) \in Nat BY <1>4, <2>3 DEF Rank, TopicIds
  <2> QED BY <1>1a, <2>4 DEF RankedUpTo
<1>14. ASSUME NEW i \in DOMAIN info.topics
       PROVE  /\ i \in 1 .. l /\ info.topics[i].id = NextId(i)
              /\ Rank(info.topics[i].id) = n + i
  BY <1>8, <1>9, <1>10, <1>14
<1> HIDE DEF n
<1>15. RankedUpTo(groups', n + l)
  <2> SUFFICES ASSUME NEW g \in DOMAIN groups', NEW i \in DOMAIN groups'[g].topics
               PROVE  Rank(groups'[g].topics[i].id) <= n + l
    BY DEF RankedUpTo
  <2>1. CASE g \in DOMAIN groups /\ groups'[g] = groups[g]
    <3>1. Rank(groups'[g].topics[i].id) <= n /\ Rank(groups'[g].topics[i].id) \in Nat
      BY <1>13, <2>1
    <3> QED BY <1>1, <3>1
  <2>2. CASE groups'[g] = info
    <3>1. Rank(groups'[g].topics[i].id) = n + i /\ i \in 1 .. l BY <1>14, <2>2
    <3> QED BY <1>1, <3>1
  <2> QED BY <1>12, <2>1, <2>2
<1>16. IdsDiffer(groups')
  <2> SUFFICES ASSUME NEW g \in DOMAIN groups', NEW h \in DOMAIN groups',
                      NEW i \in DOMAIN groups'[g].topics, NEW j \in DOMAIN groups'[h].topics,
                      groups'[g].topics[i].id = groups'[h].topics[j].id
               PROVE  g = h /\ i = j
    BY DEF IdsDiffer
  <2>1. CASE g \in DOMAIN groups /\ groups'[g] = groups[g] /\ h \in DOMAIN groups /\ groups'[h] = groups[h]
    BY <1>1a, <2>1 DEF IdsDiffer
  <2>2. ASSUME NEW a \in DOMAIN groups, NEW p \in DOMAIN groups[a].topics,
               NEW q \in DOMAIN info.topics
        PROVE  groups[a].topics[p].id # info.topics[q].id
    <3>1. Rank(groups[a].topics[p].id) <= n /\ Rank(groups[a].topics[p].id) \in Nat BY <1>13
    <3>2. Rank(info.topics[q].id) = n + q /\ q \in 1 .. l BY <1>14
    <3> QED BY <1>1, <3>1, <3>2
  <2>3. CASE groups'[g] = info /\ groups'[h] = info /\ g = h
    <3>1. n + i = n + j /\ i \in 1 .. l /\ j \in 1 .. l BY <1>14, <2>3
    <3> QED BY <1>1, <2>3, <3>1
  <2> QED BY <1>12, <2>1, <2>2, <2>3
<1> QED BY <1>1, <1>11, <1>15, <1>16 DEF n

LEMMA IdsStep ==
  ASSUME WriterAssumption, IdsInv, [Next]_vars
  PROVE  IdsInv'
<1>1. TypeOK' BY NextType DEF IdsInv
<1>2. CASE SameIds(groups, groups') /\ UNCHANGED <<lastId, openedNames>>
  <2>1. FewTopics' => /\ RankedUpTo(groups', Cardinality(openedNames'))
                      /\ IdsDiffer(groups')
                      /\ lastId' = Cardinality(openedNames') % IdSpace
    BY <1>2 DEF IdsInv, FewTopics, SameIds, RankedUpTo, IdsDiffer
  <2>2. IsFiniteSet(openedNames') BY <1>2 DEF IdsInv
  <2> QED BY <1>1, <2>1, <2>2 DEF IdsInv
<1>3. CASE \E r \in OpenRequests : OpenTopics(r)
  <2> PICK r \in OpenRequests : OpenTopics(r) BY <1>3
  <2>1. IsFiniteSet(openedNames') BY OpenedNamesCount
  <2>2. FewTopics' => /\ RankedUpTo(groups', Cardinality(openedNames'))
                      /\ IdsDiffer(groups')
                      /\ lastId' = Cardinality(openedNames') % IdSpace
    BY OpenTopicsIds
  <2> QED BY <1>1, <2>1, <2>2 DEF IdsInv
<1> QED BY <1>2, <1>3, IdsKept DEF IdsInv

LEMMA InitIdsInv == ASSUME WriterAssumption, Init PROVE IdsInv
<1>1. TypeOK BY InitType
<1>2. openedNames = {} /\ lastId = 0 /\ groups = <<>> BY DEF Init
<1>3. Cardinality(openedNames) = 0 /\ IsFiniteSet(openedNames) BY <1>2, FS_EmptySet
<1>4. IdSpace \in Nat \ {0} BY DEF WriterAssumption
<1>5. 0 % IdSpace = 0 BY <1>4, ModLow
<1> QED BY <1>1, <1>2, <1>3, <1>5 DEF IdsInv, RankedUpTo, IdsDiffer

(* As long as a file has no more topics than there are ids (2^16), no two  *)
(* of them have the same one, although the counter wraps around.           *)
THEOREM IdsAreUnique == Spec => []TopicIdsUnique
<1>1. Init => IdsInv BY WriterAssumption, InitIdsInv
<1>2. IdsInv /\ [Next]_vars => IdsInv' BY WriterAssumption, IdsStep
<1>3. IdsInv => TopicIdsUnique BY DEF IdsInv, IdsDiffer, TopicIdsUnique
<1> QED BY <1>1, <1>2, <1>3, PTL DEF Spec
=============================================================================
