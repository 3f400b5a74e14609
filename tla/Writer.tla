------------------------------- MODULE Writer -------------------------------
(***************************************************************************)
(* The Go Writer (go/turbodata/writer.go): topic groups are opened one at  *)
(* a time, messages are buffered into the chunk in progress, chunks are    *)
(* cut by a threshold and streamed to the output, and Close writes the     *)
(* index chunks, the summary and the footer.  A Writer is used by one      *)
(* goroutine; its hazards are the long sequences of calls and the write    *)
(* that fails in the middle of one.                                        *)
(*                                                                         *)
(* One action per call.  Close writes one record per index chunk, so it is *)
(* several steps (pc), one per Write on the stream.                        *)
(***************************************************************************)
EXTENDS Format, FiniteSets

CONSTANTS
  Names,         \* topic names
  OpenRequests,  \* the OpenTopics calls a caller may make:
                 \*   [names, metadatas, optionFails, mode, limit, compressed, video]
                 \*   metadatas is the number of them, optionFails says that a
                 \*   WriteOption returns an error
  Lens,          \* payload lengths
  Times,         \* timestamps
  PackedLens,    \* lengths a zstd frame may have
  IdSpace,       \* number of topic ids: 2^16 in the code (uint16)
  SinkMayFail,   \* may a Write on the output fail?
  MaxMsgs,       \* bound: messages taken by the Writer
  MaxGroups,     \* bound: groups closed
  MaxCloses,     \* bound: Close calls that get past their guard
  Infinity,      \* math.MaxInt64; -Infinity stands for math.MinInt64
  NoConfig       \* the nil writerConfig of a new Writer

Modes == {"size", "duration", "count"}
TopicIds == 0 .. IdSpace - 1

ASSUME WriterAssumption ==
  /\ OpenRequests \subseteq [names : Seq(Names), metadatas : Nat, optionFails : BOOLEAN,
                             mode : Modes, limit : Nat, compressed : BOOLEAN, video : BOOLEAN]
  /\ Lens \subseteq Nat
  /\ Times \subseteq Int
  /\ PackedLens \subseteq Nat \ {0}
  /\ IdSpace \in Nat \ {0}
  /\ SinkMayFail \in BOOLEAN
  /\ {MaxMsgs, MaxGroups, MaxCloses} \subseteq Nat
  /\ Infinity \in Nat /\ \A t \in Times : -Infinity <= t /\ t <= Infinity

VARIABLES
  \* topic level
  isTopicOpen,   \* a group is open
  config,        \* writerConfig: namesToIds as ids, chunk threshold, flags
  lastTimestamp,
  \* chunk level
  chunk,         \* the chunk in progress: idToMessageIndexes, idToKeyFrameIndexes, buf, buf.Len()
  status,        \* chunkStatus
  indexChunks,   \* index chunks of the open group
  \* file level
  indexList,     \* indexChunksList: index chunks of the closed groups
  groups,        \* summary.TopicsInfos
  openedNames,
  lastId,        \* currentTopicId
  count,         \* idToMessageCount
  offset,        \* what the Writer believes it has written
  \* Close in progress
  pc,            \* "idle", "indexing", "footer", "closed", "panicked"
  at,            \* <<i, j, totalLen>> of the loops of writeIndexChunks
  closes,        \* Close calls so far
  \* the output: bufio.Writer over the caller's io.Writer
  stream,        \* records written
  sinkFailed,    \* bufio.Writer.err # nil
  \* observation
  log,           \* every message that entered the buffer, in call order
  ret            \* result of the last call

topicVars == <<isTopicOpen, config, lastTimestamp>>
chunkVars == <<chunk, status, indexChunks>>
fileVars  == <<indexList, groups, openedNames, lastId>>
closeVars == <<at, closes>>
sinkVars  == <<stream, sinkFailed, offset>>
vars == <<topicVars, chunkVars, fileVars, count, closeVars, pc, sinkVars, log, ret>>
-----------------------------------------------------------------------------
FreshStatus == [start |-> -1, size |-> 0, count |-> 0]

(* The ids of the group that was opened last (writerConfig.topicIds). *)
GroupIds == {config.ids[nm] : nm \in DOMAIN config.ids}

(* Mutant: the chunk duration is taken from the last message. *)
CountedFromLast(st, ts, len) ==
  CASE config.mode = "size"     -> [st EXCEPT !.size = @ + len]
    [] config.mode = "duration" -> [st EXCEPT !.start = ts]
    [] config.mode = "count"    -> [st EXCEPT !.count = @ + 1]

(* chunkStatus after a message was buffered: one counter, chosen by mode. *)
Counted(st, ts, len) ==
  CASE config.mode = "size"     -> [st EXCEPT !.size = @ + len]
    [] config.mode = "duration" -> [st EXCEPT !.start = IF @ = -1 THEN ts ELSE @]
    [] config.mode = "count"    -> [st EXCEPT !.count = @ + 1]

(* Mutant: a threshold must be exceeded. *)
ThresholdExceeded(st, last) ==
  CASE config.mode = "size"     -> st.size > config.limit
    [] config.mode = "duration" -> st.start # -1 /\ last - st.start > config.limit
    [] config.mode = "count"    -> st.count > config.limit

(* thresholdReached, and the same tests inlined in WriteMessage. *)
ThresholdReached(st, last) ==
  CASE config.mode = "size"     -> st.size >= config.limit
    [] config.mode = "duration" -> st.start # -1 /\ last - st.start >= config.limit
    [] config.mode = "count"    -> st.count >= config.limit

(* The chunk with one more message of topic id at the end of its buffer. *)
Buffered(c, id, ts, len, key) ==
  [index |-> [c.index EXCEPT ![id] = Append(@, [ts |-> ts, off |-> c.len])],
   keys  |-> [c.keys EXCEPT ![id] = IF key THEN Append(@, Len(c.index[id])) ELSE @],
   buf   |-> Append(c.buf, [n |-> Len(log) + 1, at |-> c.len, len |-> len]),
   len   |-> c.len + len]

(* Mutants: the index entries, or the key frame indexes, are not reset. *)
UnindexedNothing(c) == c
UnindexedButKeys(c) ==
  [c EXCEPT !.index = [id \in TopicIds |-> IF id \in GroupIds THEN <<>> ELSE c.index[id]]]

(* What writeChunk takes out of the maps before it writes: the index       *)
(* entries of the group's topics.  The buffer is reset only after a write  *)
(* that succeeded.                                                         *)
Unindexed(c) ==
  [index |-> [id \in TopicIds |-> IF id \in GroupIds THEN <<>> ELSE c.index[id]],
   keys  |-> [id \in TopicIds |-> IF id \in GroupIds /\ c.index[id] # <<>>
                                  THEN <<>> ELSE c.keys[id]],
   buf   |-> c.buf,
   len   |-> c.len]

(* Mutant: buf.Len() survives the reset. *)
ClearedButLen(c) == [c EXCEPT !.buf = <<>>]

ClearedBuf(c) == [index |-> c.index, keys |-> c.keys, buf |-> <<>>, len |-> 0]
Drained(c) == ClearedBuf(Unindexed(c))

(* Mutant: the length recorded is that of the uncompressed chunk. *)
IndexChunkOfRaw(c, packed) ==
  [topics |-> [id \in TopicIds |-> [msgs |-> IF id \in GroupIds THEN c.index[id] ELSE <<>>,
                                    keys |-> IF id \in GroupIds THEN c.keys[id] ELSE <<>>]],
   off |-> offset, len |-> c.len, ulen |-> c.len]

(* The IndexChunk that describes chunk c, stored at the current offset.    *)
(* A topic without messages in it, which has no TopicIndex, has no entries.*)
IndexChunkOf(c, packed) ==
  [topics |-> [id \in TopicIds |->
                 IF id \in GroupIds /\ c.index[id] # <<>>
                 THEN [msgs |-> c.index[id], keys |-> c.keys[id]]
                 ELSE [msgs |-> <<>>, keys |-> <<>>]],
   off |-> offset, len |-> packed, ulen |-> c.len]

(* Length of the stored data chunk: the buffer itself or one zstd frame. *)
ChunkLens(c) == IF config.compressed THEN PackedLens ELSE {c.len}

(* Mutant: the error of the output is not remembered. *)
ForgetfulSink == IF SinkMayFail THEN BOOLEAN ELSE {TRUE}

(* bufio.Writer: a Write may fail, and once one failed every later one     *)
(* does (its error is sticky).                                             *)
SinkOutcomes ==
  IF sinkFailed THEN {FALSE} ELSE IF SinkMayFail THEN BOOLEAN ELSE {TRUE}

(* One w.w.Write of len bytes; the Writer advances its offset on success. *)
Emit(ok, kind, len, body) ==
  /\ sinkFailed' = ~ok
  /\ stream' = IF ok THEN Append(stream, [kind |-> kind, at |-> StreamEnd(stream),
                                          len |-> len, body |-> body])
                     ELSE stream
  /\ offset' = IF ok THEN offset + len ELSE offset

(* writeChunk on chunk c: the index chunk is recorded before the write. *)
WriteChunk(c, ok) ==
  \E packed \in ChunkLens(c) :
    /\ indexChunks' = Append(indexChunks, IndexChunkOf(c, packed))
    /\ Emit(ok, "data", packed, c.buf)
-----------------------------------------------------------------------------
Init ==
  /\ isTopicOpen = FALSE
  /\ config = NoConfig
  /\ lastTimestamp = 0
  /\ chunk = [index |-> [id \in TopicIds |-> <<>>], keys |-> [id \in TopicIds |-> <<>>],
              buf |-> <<>>, len |-> 0]
  /\ status = FreshStatus
  /\ indexChunks = <<>>
  /\ indexList = <<>>
  /\ groups = <<>>
  /\ openedNames = {}
  /\ lastId = 0
  /\ count = [id \in TopicIds |-> 0]
  /\ offset = 0
  /\ pc = "idle"
  /\ at = <<1, 1, 0>>
  /\ closes = 0
  /\ stream = <<>>
  /\ sinkFailed = FALSE
  /\ log = <<>>
  /\ ret = "ok"

Rejected(err) ==
  /\ ret' = err
  /\ UNCHANGED <<topicVars, chunkVars, fileVars, count, closeVars, pc, sinkVars, log>>

(* A nil or out-of-range dereference: the program stops. *)
Panic ==
  /\ pc' = "panicked"
  /\ ret' = "panic"
  /\ UNCHANGED <<topicVars, chunkVars, fileVars, count, closeVars, sinkVars, log>>

(* A video group is one topic and is not compressed. *)
VideoError(r) == r.video /\ (Len(r.names) # 1 \/ r.compressed)

Repeated(r) == \/ ToSet(r.names) \cap openedNames # {}
               \/ Cardinality(ToSet(r.names)) # Len(r.names)

(* OpenTopics, the checks made before any state is touched. *)
OpenRejected(r) ==
  /\ pc = "idle"
  /\ \/ isTopicOpen /\ Rejected("ErrTopicAlreadyOpen")
     \/ /\ ~isTopicOpen /\ Len(r.names) # r.metadatas
        /\ Rejected("ErrNamesMetadatasMismatch")
     \/ /\ ~isTopicOpen /\ Len(r.names) = r.metadatas /\ r.names = <<>>
        /\ Rejected("ErrNoTopicsToOpen")
     \/ /\ ~isTopicOpen /\ Len(r.names) = r.metadatas /\ Repeated(r)
        /\ Rejected("ErrTopicNameAlreadyOpened")

(* The call got past these checks. *)
Openable(r) ==
  /\ pc = "idle" /\ ~isTopicOpen
  /\ Len(r.names) = r.metadatas /\ r.names # <<>> /\ ~Repeated(r)

(* OpenTopics, the errors that come after isTopicOpen was set: that of a   *)
(* WriteOption, and then those of the video checks.                        *)
OpenRejectedLate(r) ==
  /\ Openable(r)
  /\ Len(indexList) < MaxGroups /\ Len(indexChunks) <= MaxMsgs
  /\ isTopicOpen' = TRUE
  /\ lastTimestamp' = 0
  /\ \/ r.optionFails /\ ret' = "ErrOfOption"
     \/ /\ ~r.optionFails /\ VideoError(r)
        /\ ret' = IF Len(r.names) # 1 THEN "ErrVideoGroupMustBeSingleTopic"
                                      ELSE "ErrVideoTopicCannotBeCompressed"
  /\ UNCHANGED <<config, chunkVars, fileVars, count, closeVars, pc, sinkVars, log>>

(* Mutants: a wider counter; a counter that restarts with every group. *)
WideNextId(i) == lastId + i
LocalNextId(i) == i % IdSpace

(* currentTopicId, i topics later: a uint16, so modulo its width. *)
NextId(i) == (lastId + i) % IdSpace

(* OpenTopics: the ids are handed out in order. *)
OpenTopics(r) ==
  /\ Openable(r) /\ ~r.optionFails /\ ~VideoError(r)
  /\ Len(indexList) < MaxGroups
  /\ LET ids == {NextId(i) : i \in DOMAIN r.names}
         Position(nm) == CHOOSE i \in DOMAIN r.names : r.names[i] = nm
     IN  /\ lastId' = NextId(Len(r.names))
         /\ config' = [ids |-> [nm \in ToSet(r.names) |-> NextId(Position(nm))],
                       mode |-> r.mode, limit |-> r.limit,
                       compressed |-> r.compressed, video |-> r.video]
         /\ chunk' = [index |-> [id \in TopicIds |-> IF id \in ids THEN <<>> ELSE chunk.index[id]],
                      keys  |-> [id \in TopicIds |-> IF id \in ids THEN <<>> ELSE chunk.keys[id]],
                      buf   |-> chunk.buf, len |-> chunk.len]
         /\ count' = [id \in TopicIds |-> IF id \in ids THEN 0 ELSE count[id]]
         /\ groups' = Append(groups,
                        [topics |-> [i \in DOMAIN r.names |->
                                       [id |-> NextId(i), name |-> r.names[i], count |-> 0]],
                         infos |-> <<>>, total |-> 0])
  /\ openedNames' = openedNames \cup ToSet(r.names)
  /\ isTopicOpen' = TRUE
  /\ lastTimestamp' = 0
  /\ status' = FreshStatus
  /\ ret' = "ok"
  /\ UNCHANGED <<indexChunks, indexList, closeVars, pc, sinkVars, log>>
-----------------------------------------------------------------------------
(* The checks WriteMessage and WriteVideoMessage share, in their order. *)
WriteRejected(video, nm, ts) ==
  /\ pc = "idle"
  /\ \/ ~isTopicOpen /\ Rejected("ErrTopicNotOpened")
     \/ isTopicOpen /\ config = NoConfig /\ Panic
     \/ /\ isTopicOpen /\ config # NoConfig
        /\ \/ config.video # video /\ Rejected("ErrWrongWriteMethod")
           \/ /\ config.video = video /\ ts < lastTimestamp
              /\ Rejected("ErrTimestampDecreases")
           \/ /\ config.video = video /\ ts >= lastTimestamp /\ nm \notin DOMAIN config.ids
              /\ Rejected("ErrTopicNotRegistered")

(* Mutant: the order of the timestamps is not checked. *)
WritableAnyTime(video, nm, ts) ==
  /\ pc = "idle" /\ isTopicOpen /\ config # NoConfig
  /\ config.video = video
  /\ nm \in DOMAIN config.ids
  /\ Len(log) < MaxMsgs /\ Len(indexChunks) <= MaxMsgs

Writable(video, nm, ts) ==
  /\ pc = "idle" /\ isTopicOpen /\ config # NoConfig
  /\ config.video = video
  /\ ts >= lastTimestamp
  /\ nm \in DOMAIN config.ids
  /\ Len(log) < MaxMsgs /\ Len(indexChunks) <= MaxMsgs

(* Bookkeeping common to both write calls once a message is accepted. *)
Accept(nm, len, ts, frame) ==
  /\ lastTimestamp' = ts
  /\ count' = [count EXCEPT ![config.ids[nm]] = @ + 1]
  /\ log' = Append(log, [name |-> nm, ts |-> ts, len |-> len, frame |-> frame])

(* WriteMessage: buffer, then flush when the threshold is reached. *)
WriteMessage(nm, len, ts) ==
  /\ Writable(FALSE, nm, ts)
  /\ Accept(nm, len, ts, "plain")
  /\ LET c == Buffered(chunk, config.ids[nm], ts, len, FALSE)
         st == Counted(status, ts, len)
     IN  \/ /\ ~ThresholdReached(st, ts)
            /\ chunk' = c /\ status' = st /\ ret' = "ok"
            /\ UNCHANGED <<indexChunks, sinkVars>>
         \/ /\ ThresholdReached(st, ts)
            /\ \E ok \in SinkOutcomes :
                 /\ WriteChunk(c, ok)
                 /\ chunk' = IF ok THEN Drained(c) ELSE Unindexed(c)
                 /\ status' = IF ok THEN FreshStatus ELSE st
                 /\ ret' = IF ok THEN "ok" ELSE "io"
  /\ UNCHANGED <<isTopicOpen, config, fileVars, closeVars, pc>>

(* WriteVideoMessage before the buffer holds any byte. *)
VideoNeedsKeyFrame(nm, ts) ==
  /\ Writable(TRUE, nm, ts)
  /\ chunk.len = 0
  /\ Rejected("ErrFirstVideoMessageMustBeKeyFrame")

(* WriteVideoMessage: only a key frame flushes, before it is buffered. *)
WriteVideoMessage(nm, len, ts, key) ==
  /\ Writable(TRUE, nm, ts)
  /\ key \/ chunk.len # 0
  /\ LET id == config.ids[nm]
         flush == key /\ chunk.len > 0 /\ ThresholdReached(status, lastTimestamp)
         frame == IF key THEN "key" ELSE "delta"
     IN  \/ /\ ~flush
            /\ Accept(nm, len, ts, frame)
            /\ chunk' = Buffered(chunk, id, ts, len, key)
            /\ status' = Counted(status, ts, len)
            /\ ret' = "ok"
            /\ UNCHANGED <<indexChunks, sinkVars>>
         \/ /\ flush
            /\ \E ok \in SinkOutcomes :
                 /\ WriteChunk(chunk, ok)
                 /\ \/ /\ ok
                       /\ Accept(nm, len, ts, frame)
                       /\ chunk' = Buffered(Drained(chunk), id, ts, len, key)
                       /\ status' = Counted(FreshStatus, ts, len)
                       /\ ret' = "ok"
                    \/ /\ ~ok
                       /\ chunk' = Unindexed(chunk)
                       /\ ret' = "io"
                       /\ UNCHANGED <<lastTimestamp, count, log, status>>
  /\ UNCHANGED <<isTopicOpen, config, fileVars, closeVars, pc>>
-----------------------------------------------------------------------------
CloseTopicRejected ==
  /\ pc = "idle" /\ ~isTopicOpen
  /\ Rejected("ErrTopicAlreadyClosed")

(* CloseTopic: isTopicOpen falls first; a failed flush returns before the  *)
(* group's index chunks are filed.  An empty buffer is not flushed: what   *)
(* it holds are payloads of no bytes, which leave nothing behind in it but *)
(* whose index entries stay where they are.                                *)
CloseTopic ==
  /\ pc = "idle" /\ isTopicOpen
  /\ isTopicOpen' = FALSE
  /\ \/ /\ chunk.len = 0
        /\ chunk' = ClearedBuf(chunk)
        /\ indexList' = Append(indexList, indexChunks)
        /\ indexChunks' = <<>>
        /\ ret' = "ok"
        /\ UNCHANGED <<status, sinkVars>>
     \/ /\ chunk.len > 0
        /\ \E ok \in SinkOutcomes, packed \in ChunkLens(chunk) :
             LET filed == Append(indexChunks, IndexChunkOf(chunk, packed))
             IN  /\ Emit(ok, "data", packed, chunk.buf)
                 /\ chunk' = IF ok THEN Drained(chunk) ELSE Unindexed(chunk)
                 /\ status' = IF ok THEN FreshStatus ELSE status
                 /\ indexList' = IF ok THEN Append(indexList, filed) ELSE indexList
                 /\ indexChunks' = IF ok THEN <<>> ELSE filed
                 /\ ret' = IF ok THEN "ok" ELSE "io"
  /\ UNCHANGED <<config, lastTimestamp, groups, openedNames, lastId, count, closeVars, pc, log>>
-----------------------------------------------------------------------------
CloseRejected ==
  /\ pc = "idle" /\ isTopicOpen
  /\ Rejected("ErrTopicNotClosed")

(* Close enters writeIndexChunks. *)
Close ==
  /\ pc = "idle" /\ ~isTopicOpen
  /\ closes < MaxCloses
  /\ closes' = closes + 1
  /\ pc' = "indexing"
  /\ at' = <<1, 1, 0>>
  /\ ret' = "running"
  /\ UNCHANGED <<topicVars, chunkVars, fileVars, count, sinkVars, log>>

(* First and last timestamps of the topics of an index chunk. *)
Indexed(c) == {id \in DOMAIN c.topics : c.topics[id].msgs # <<>>}
StartTimes(c) == {Head(c.topics[id].msgs).ts : id \in Indexed(c)}
EndTimes(c) == {Last(c.topics[id].msgs).ts : id \in Indexed(c)}

(* Mutant: the time range of the first topic with messages. *)
InfoOfOneTopic(c) ==
  LET msgs == c.topics[CHOOSE id \in Indexed(c) : TRUE].msgs
  IN  IF Indexed(c) = {} THEN [start |-> Infinity, end |-> -Infinity, off |-> offset]
      ELSE [start |-> msgs[1].ts, end |-> Last(msgs).ts, off |-> offset]

(* The IndexChunkInfo of an index chunk; a chunk whose index entries were  *)
(* taken by an earlier failed flush has none left, and an empty range.     *)
InfoOf(c) ==
  LET starts == StartTimes(c) \cup {Infinity}
      ends   == EndTimes(c) \cup {-Infinity}
  IN  [start |-> CHOOSE t \in starts : \A u \in starts : t <= u,
       end   |-> CHOOSE t \in ends : \A u \in ends : u <= t,
       off   |-> offset]

(* One turn of the inner loop of writeIndexChunks: the IndexChunkInfo is   *)
(* recorded, then the index chunk, serialised through the message buffer   *)
(* (which is reset), is compressed and written.                            *)
WriteIndexChunk ==
  LET i == at[1]  j == at[2]
  IN  /\ pc = "indexing" /\ i <= Len(indexList) /\ j <= Len(indexList[i])
      /\ i <= Len(groups)
      /\ groups' = [groups EXCEPT ![i].infos = Append(@, InfoOf(indexList[i][j]))]
      /\ chunk' = ClearedBuf(chunk)
      /\ \E ok \in SinkOutcomes, packed \in PackedLens :
           /\ Emit(ok, "index", packed, indexList[i][j])
           /\ at' = IF ok THEN <<i, j + 1, at[3] + packed>> ELSE at
           /\ pc' = IF ok THEN pc ELSE "idle"
           /\ ret' = IF ok THEN ret ELSE "io"
      /\ UNCHANGED <<topicVars, status, indexChunks, indexList, openedNames, lastId, count,
                     closes, log>>

(* End of the inner loop: TotalLen of group i. *)
FinishGroup ==
  LET i == at[1]
  IN  /\ pc = "indexing" /\ i <= Len(indexList) /\ at[2] > Len(indexList[i])
      /\ i <= Len(groups)
      /\ groups' = [groups EXCEPT ![i].total = at[3]]
      /\ at' = <<i + 1, 1, 0>>
      /\ UNCHANGED <<topicVars, chunkVars, indexList, openedNames, lastId, count, closes, pc,
                     sinkVars, log, ret>>

(* indexChunksList has more groups than the summary: index out of range. *)
IndexOutOfRange ==
  /\ pc = "indexing" /\ at[1] <= Len(indexList) /\ at[1] > Len(groups)
  /\ Panic

Stamped(g) ==
  [g EXCEPT !.topics = [k \in DOMAIN g.topics |->
                          [g.topics[k] EXCEPT !.count = count[g.topics[k].id]]]]

(* writeSummary: the message counts are stamped, the summary is written. *)
WriteSummary ==
  /\ pc = "indexing" /\ at[1] > Len(indexList)
  /\ groups' = [g \in DOMAIN groups |-> Stamped(groups[g])]
  /\ chunk' = ClearedBuf(chunk)
  /\ \E ok \in SinkOutcomes, packed \in PackedLens :
       /\ Emit(ok, "summary", packed, groups')
       /\ at' = IF ok THEN <<at[1], at[2], packed>> ELSE at
       /\ pc' = IF ok THEN "footer" ELSE "idle"
       /\ ret' = IF ok THEN ret ELSE "io"
  /\ UNCHANGED <<topicVars, status, indexChunks, indexList, openedNames, lastId, count,
                 closes, log>>

FooterLen == 13

(* writeFooter (SummaryLen, magic) and the final Flush. *)
WriteFooter ==
  /\ pc = "footer"
  /\ \E ok \in SinkOutcomes :
       /\ sinkFailed' = ~ok
       /\ stream' = IF ok THEN Append(stream, [kind |-> "footer", at |-> StreamEnd(stream),
                                               len |-> FooterLen, body |-> at[3]])
                          ELSE stream
       /\ pc' = IF ok THEN "closed" ELSE "idle"
       /\ ret' = IF ok THEN "ok" ELSE "io"
  /\ UNCHANGED <<topicVars, chunkVars, fileVars, count, closeVars, offset, log>>
-----------------------------------------------------------------------------
(* A Writer whose Close returned nil, or that panicked, is not used again. *)
Done == pc \in {"closed", "panicked"} /\ UNCHANGED vars

Next ==
  \/ \E r \in OpenRequests : OpenRejected(r) \/ OpenRejectedLate(r) \/ OpenTopics(r)
  \/ \E nm \in Names, ts \in Times :
       \/ \E video \in BOOLEAN : WriteRejected(video, nm, ts)
       \/ VideoNeedsKeyFrame(nm, ts)
       \/ \E len \in Lens : \/ WriteMessage(nm, len, ts)
                            \/ \E key \in BOOLEAN : WriteVideoMessage(nm, len, ts, key)
  \/ CloseTopicRejected \/ CloseTopic
  \/ CloseRejected \/ Close
  \/ WriteIndexChunk \/ FinishGroup \/ IndexOutOfRange \/ WriteSummary \/ WriteFooter
  \/ Done

Spec == Init /\ [][Next]_vars
-----------------------------------------------------------------------------
(* Types: what the records of the model may hold. *)
MessageIndex == [ts : Times, off : Nat]
Segment == [n : Nat \ {0}, at : Nat, len : Nat]
TopicIndex == [msgs : Seq(MessageIndex), keys : Seq(Nat)]
IndexChunk == [topics : [TopicIds -> TopicIndex], off : Nat, len : Nat, ulen : Nat]
ChunkType == [index : [TopicIds -> Seq(MessageIndex)], keys : [TopicIds -> Seq(Nat)],
              buf : Seq(Segment), len : Nat]
Config == [ids : UNION {[S -> TopicIds] : S \in SUBSET Names}, mode : Modes, limit : Nat,
           compressed : BOOLEAN, video : BOOLEAN]
TopicsInfo == [topics : Seq([id : TopicIds, name : Names, count : Nat]),
               infos : Seq(IndexChunkInfo), total : Nat]
Record == [kind : {"data"}, at : Nat, len : Nat, body : Seq(Segment)]
     \cup [kind : {"index"}, at : Nat, len : Nat, body : IndexChunk]
     \cup [kind : {"summary"}, at : Nat, len : Nat, body : Seq(TopicsInfo)]
     \cup [kind : {"footer"}, at : Nat, len : Nat, body : Nat]
Message == [name : Names, ts : Times, len : Nat, frame : {"plain", "key", "delta"}]

OpenErrors == {"ErrTopicAlreadyOpen", "ErrNamesMetadatasMismatch", "ErrNoTopicsToOpen",
               "ErrTopicNameAlreadyOpened", "ErrOfOption",
               "ErrVideoGroupMustBeSingleTopic", "ErrVideoTopicCannotBeCompressed"}
WriteErrors == {"ErrTopicNotOpened", "ErrWrongWriteMethod", "ErrTimestampDecreases",
                "ErrTopicNotRegistered", "ErrFirstVideoMessageMustBeKeyFrame"}
CloseErrors == {"ErrTopicAlreadyClosed", "ErrTopicNotClosed"}
Results == OpenErrors \cup WriteErrors \cup CloseErrors \cup {"ok", "io", "running", "panic"}

(* Every variable of the Writer keeps its type. *)
TypeOK ==
  /\ isTopicOpen \in BOOLEAN
  /\ config \in Config \cup {NoConfig}
  /\ lastTimestamp \in Int
  /\ chunk \in ChunkType
  /\ status \in [start : Int, size : Nat, count : Nat]
  /\ indexChunks \in Seq(IndexChunk)
  /\ indexList \in Seq(Seq(IndexChunk))
  /\ groups \in Seq(TopicsInfo)
  /\ openedNames \subseteq Names
  /\ lastId \in TopicIds
  /\ count \in [TopicIds -> Nat]
  /\ offset \in Nat
  /\ pc \in {"idle", "indexing", "footer", "closed", "panicked"}
  /\ at \in (Nat \ {0}) \X (Nat \ {0}) \X Nat
  /\ closes \in 0 .. MaxCloses
  /\ stream \in Seq(Record)
  /\ sinkFailed \in BOOLEAN
  /\ log \in Seq(Message)
  /\ ret \in Results

-----------------------------------------------------------------------------
(* Index chunks of the open group and of the closed ones. *)
Listed == ToSet(indexChunks) \cup UNION {ToSet(indexList[g]) : g \in DOMAIN indexList}

(* As long as no write failed, the offsets the Writer puts in its index    *)
(* are true: `offset' is the end of the stream (the footer is not counted) *)
(* and every index chunk names the place of a data chunk on the stream,    *)
(* with as many bytes, whose messages begin exactly at the indexed         *)
(* offsets (FORMAT.md: the offsets partition the uncompressed chunk).      *)
ChunkStored(s, c) ==
  \E d \in RecordsAt(s, "data", c.off, c.len) :
    /\ Offsets(c) = {d.body[k].at : k \in DOMAIN d.body}
    /\ d.body # <<>> => c.ulen = Last(d.body).at + Last(d.body).len

IndexTellsTheTruth ==
  ~sinkFailed => /\ pc # "closed" => offset = StreamEnd(stream)
                 /\ \A c \in Listed : ChunkStored(stream, c)

(* The buffer and the index of the chunk in progress describe each other,  *)
(* as long as no write failed: segments follow one another up to buf.Len(),*)
(* the offsets indexed for the topics of the open group are where segments *)
(* begin (or 0, for payloads without bytes left over by a closed group),   *)
(* and between groups, or before the first, nothing is buffered.           *)
IndexedOffsets(c, ids) ==
  UNION {{c.index[id][k].off : k \in DOMAIN c.index[id]} : id \in ids}

WellBuffered(c, ids) ==
  /\ c.buf = <<>> => c.len = 0
  /\ c.buf # <<>> => c.buf[1].at = 0 /\ c.len = Last(c.buf).at + Last(c.buf).len
  /\ \A k \in DOMAIN c.buf : c.buf[k].at + c.buf[k].len <= c.len
  /\ {c.buf[k].at : k \in DOMAIN c.buf} \subseteq IndexedOffsets(c, ids)
  /\ IndexedOffsets(c, ids) \subseteq {c.buf[k].at : k \in DOMAIN c.buf} \cup {0}

BufferIndexed ==
  ~sinkFailed => /\ config # NoConfig => WellBuffered(chunk, GroupIds)
                 /\ ~isTopicOpen \/ config = NoConfig => chunk.buf = <<>> /\ chunk.len = 0

(* No refused video group has opened the last group again: that is the    *)
(* fault of RejectedOpenChangesNothing.  Payloads of no bytes that the      *)
(* group left behind (ClosedGroupIsFlushed) would then be indexed and       *)
(* counted a second time, with chunks nobody meant to write.                *)
NotReopened == Len(groups) = Len(indexList) + (IF isTopicOpen THEN 1 ELSE 0)

(* GOP integrity (WriteVideoMessage): a stored chunk never begins with a   *)
(* delta frame, so a reader that fetched the chunk of any frame has the    *)
(* key frame it decodes from, and the KeyFrameIndexes of the chunk are     *)
(* exactly the positions of its key frames.                                *)
VideoChunksDecodable ==
  /\ \A k \in DOMAIN stream :
       stream[k].kind = "data" /\ stream[k].body # <<>>
         => log[stream[k].body[1].n].frame # "delta"
  /\ ~sinkFailed /\ NotReopened =>
       \A c \in Listed : \A d \in RecordsAt(stream, "data", c.off, c.len) :
         \A id \in {i \in TopicIds : c.topics[i].msgs # <<>>} :
           ToSet(c.topics[id].keys) =
             {k - 1 : k \in {j \in DOMAIN d.body : log[d.body[j].n].frame = "key"}}

(* Within a group the chunks do not overlap in time: nothing in a later    *)
(* chunk is older than anything in an earlier one.  The readers stop and   *)
(* skip on this (topicsGroupIterator.loadIndexChunk).                      *)
InTimeOrder(chunks) ==
  \A i, j \in DOMAIN chunks : i < j =>
    \A t \in Timestamps(chunks[i]), u \in Timestamps(chunks[j]) : t <= u

ChunksInTimeOrder ==
  ~sinkFailed /\ NotReopened =>
    /\ InTimeOrder(indexChunks)
    /\ \A g \in DOMAIN indexList : InTimeOrder(indexList[g])

(* What a threshold measures on a stored run of messages. *)
Measure(body) ==
  CASE config.mode = "size"     -> Last(body).at + Last(body).len
    [] config.mode = "duration" -> log[Last(body).n].ts - log[body[1].n].ts
    [] config.mode = "count"    -> Len(body)

(* Chunk boundaries are where FORMAT.md's threshold table puts them, while *)
(* a group is open: a flushed chunk has reached the threshold, and it had  *)
(* not at any earlier point where the writer could have cut, which is      *)
(* after every message, and for video before every key frame but one that  *)
(* finds no byte in the buffer: WriteVideoMessage does not cut there, and  *)
(* the bounds of a video group are lower bounds by its comment.  The       *)
(* counters of chunkStatus are reset or carried wrongly otherwise.         *)
CutPoints(body) ==
  {k \in 1 .. Len(body) - 1 :
     /\ config.video => /\ log[body[k + 1].n].frame = "key"
                        /\ body[k + 1].at > 0}

CutRight(body) ==
  /\ Measure(body) >= config.limit
  /\ \A k \in CutPoints(body) : Measure(SubSeq(body, 1, k)) < config.limit

OfTheOpenGroup(body) == body # <<>> /\ log[body[1].n].name \in DOMAIN config.ids

BoundariesExact ==
  isTopicOpen /\ config # NoConfig /\ ~sinkFailed /\ NotReopened =>
    \A k \in DOMAIN stream :
      stream[k].kind = "data" /\ OfTheOpenGroup(stream[k].body) => CutRight(stream[k].body)

(* A file has no more topics than there are ids. *)
FewTopics == Cardinality(openedNames) <= IdSpace

(* Up to 2^16 topics, a summary never gives two topics of the file the     *)
(* same id: readers select and relabel topics by id alone.  With one more  *)
(* OpenTopics gives an id a second time and reports nothing.               *)
TopicIdsUnique ==
  FewTopics =>
  \A g, h \in DOMAIN groups : \A i \in DOMAIN groups[g].topics, j \in DOMAIN groups[h].topics :
    groups[g].topics[i].id = groups[h].topics[j].id => g = h /\ i = j

(* Messages of topic nm in the order they were written: bytes and time. *)
Written(nm) ==
  LET mine == SelectSeq([n \in DOMAIN log |-> [n |-> n, m |-> log[n]]],
                        LAMBDA e : e.m.name = nm)
  IN  [k \in DOMAIN mine |-> <<{<<mine[k].n, x>> : x \in 0 .. mine[k].m.len - 1}, mine[k].m.ts>>]

Stamps(messages) == [k \in DOMAIN messages |-> messages[k][2]]

(* Messages of topic nm that CloseTopic left behind: their index entries.  *)
LeftBehind(nm, id) ==
  SubSeq(Written(nm), Len(Written(nm)) - Len(chunk.index[id]) + 1, Len(Written(nm)))

(* The reading of topic t of a group: what is found on the file, and what  *)
(* CloseTopic left behind.                                                 *)
ReadBack(file, group, t) == TopicMessages(file, group, t.id) \o LeftBehind(t.name, t.id)

(* A reader that starts from the footer of a file finds the summary, every *)
(* index chunk at the length IndexChunkLen gives, every data chunk, and in *)
(* them every message of the log, with its own bytes but in a group in     *)
(* which two topics share an offset (EveryMessageItsBytes).                *)
CompleteIn(file) ==
  \E s \in SummariesOf(file) :
    /\ {log[n].name : n \in DOMAIN log} \subseteq
         UNION {{t.name : t \in ToSet(s[g].topics)} : g \in DOMAIN s}
    /\ \A g \in DOMAIN s :
         /\ \A i \in DOMAIN s[g].infos : ChunkReadable(file, s[g], i)
         /\ \A t \in ToSet(s[g].topics) :
              /\ Stamps(ReadBack(file, s[g], t)) = Stamps(Written(t.name))
              /\ ~OffsetsShared(file, s[g]) => ReadBack(file, s[g], t) = Written(t.name)
              /\ \A m \in ToSet(LeftBehind(t.name, t.id)) : m[1] = {}
              /\ t.count = Len(Written(t.name))

(* When Close has returned nil the file is complete: a reader that starts  *)
(* from the footer finds the summary, every index chunk at the length      *)
(* IndexChunkLen gives, every data chunk, and in them every message of     *)
(* every topic, once, in order, with its own time and bytes, as many as    *)
(* the summary counts.  Whatever failed on the way, a nil never hides a    *)
(* lost message but one of no bytes in a chunk of no bytes                 *)
(* (ClosedGroupIsFlushed).  Where a message of no bytes shares its offset  *)
(* with a message of another topic the bytes are not the message's own     *)
(* (EveryMessageItsBytes), and with more topics than there are ids the     *)
(* counts are those of the topics that were opened last.                   *)
NilMeansComplete == pc = "closed" /\ FewTopics => CompleteIn(stream)

(* The time range the summary gives for an index chunk is that of its      *)
(* messages: a query that skips the chunk by its range loses nothing.  (In *)
(* Go, a Close that returned nil means that no write failed.)              *)
RangesCoverMessages ==
  pc = "closed" /\ ~sinkFailed =>
    \A g \in DOMAIN groups : \A i \in DOMAIN groups[g].infos :
      \A r \in RecordsAt(stream, "index", groups[g].infos[i].off, IndexChunkLen(groups[g], i)) :
        LET info == groups[g].infos[i]
        IN  \A t \in Timestamps(r.body) : info.start <= t /\ t <= info.end

-----------------------------------------------------------------------------
(* What the documents say and the code does not do.                        *)

(* writer_test.go and the comment in OpenTopics: a rejected call must      *)
(* leave the Writer unchanged and reusable.                                *)
RejectedOpenChangesNothing ==
  [][ret' \in OpenErrors =>
       UNCHANGED <<topicVars, chunkVars, fileVars, count, closeVars, pc, sinkVars, log>>]_vars

(* FORMAT.md, writing algorithm: closing a group flushes any partial       *)
(* chunk.  Nothing the group buffered is still unindexed after CloseTopic. *)
ClosedGroupIsFlushed ==
  ~isTopicOpen /\ config # NoConfig /\ ~sinkFailed =>
    \A id \in GroupIds : chunk.index[id] = <<>>

(* FORMAT.md, data chunk: payloads follow one another in write order and   *)
(* the bytes of a message run from its offset to the next greater one.     *)
(* After a Close that returned nil, a message that has bytes reads back as *)
(* its own, also where a message of no bytes has the same offset.          *)
EveryMessageItsBytes ==
  pc = "closed" /\ ~sinkFailed /\ FewTopics =>
    \A s \in SummariesOf(stream) : \A g \in DOMAIN s : \A t \in ToSet(s[g].topics) :
      \A k \in DOMAIN Written(t.name) :
        Written(t.name)[k][1] # {} => ReadBack(stream, s[g], t)[k] = Written(t.name)[k]
=============================================================================
