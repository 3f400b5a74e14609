------------------------------ MODULE PyWriter ------------------------------
(***************************************************************************)
(* The Python Writer (py/turbodata/writer.py), a port of the Go Writer     *)
(* with its state and most of its steps; Writer's operators are used where *)
(* the two agree.  It differs in three ways: open_topics checks a video    *)
(* group before it changes anything; the output has no buffer that         *)
(* remembers an error, so after a write that raised the next one may       *)
(* succeed; and a raw output may take fewer bytes than it is given, which  *)
(* only the write of a data chunk looks at.                                *)
(*                                                                         *)
(* sinkFailed is history here: some write was not complete.                *)
(***************************************************************************)
EXTENDS Writer

VARIABLE marred   \* history: a write failed in a way that is not made good

pyVars == <<vars, marred>>

(* What a write on the output does: takes all bytes, raises before it took *)
(* any, or takes fewer and returns how many (an output that answers None,  *)
(* as a non-blocking one may, is left out).  Bound: a failure that lasts   *)
(* is the last one.                                                        *)
Outcomes == IF SinkMayFail /\ ~marred THEN {"all", "raises", "short"} ELSE {"all"}

(* Bytes on the output that no one vouches for. *)
Torn(len) == [kind |-> "data", at |-> StreamEnd(stream), len |-> len, body |-> <<>>]

PyEmit(o, kind, len, body) ==
  /\ \/ o = "all" /\ stream' = Append(stream, [Torn(len) EXCEPT !.kind = kind, !.body = body])
     \/ o = "raises" /\ UNCHANGED stream
     \/ o = "short" /\ \E n \in 0 .. len - 1 : stream' = Append(stream, Torn(n))
  /\ sinkFailed' = (sinkFailed \/ o # "all")

(* A short write of a data chunk raises; a later flush of an uncompressed  *)
(* chunk writes again what a failed one left in the buffer.                *)
Mars(o) == o = "short" \/ (o = "raises" /\ config.compressed)

(* _write_chunk on chunk c. *)
PyWriteChunk(c, o) ==
  \E packed \in ChunkLens(c) :
    /\ indexChunks' = Append(indexChunks, IndexChunkOf(c, packed))
    /\ PyEmit(o, "data", packed, c.buf)
    /\ offset' = IF o = "all" THEN offset + packed ELSE offset
    /\ marred' = (marred \/ Mars(o))

PyInit == Init /\ marred = FALSE
-----------------------------------------------------------------------------
(* Mutant: the group is opened before the video checks. *)
PyOpenRejectedLate(r) ==
  \/ OpenRejected(r)
  \/ OpenRejectedLate(r)

(* open_topics, all of its checks; its options are arguments, which do not *)
(* fail: a request with optionFails is none of Python's.                   *)
PyOpenRejected(r) ==
  \/ OpenRejected(r)
  \/ /\ Openable(r) /\ VideoError(r)
     /\ Rejected(IF Len(r.names) # 1 THEN "ErrVideoGroupMustBeSingleTopic"
                                     ELSE "ErrVideoTopicCannotBeCompressed")

(* An id is a Python integer, which has to fit its field when the file is  *)
(* closed: callers open fewer topics than there are ids.                   *)
PyOpenTopics(r) == lastId + Len(r.names) < IdSpace /\ OpenTopics(r)

(* write_message *)
PyWriteMessage(nm, len, ts) ==
  /\ Writable(FALSE, nm, ts)
  /\ Accept(nm, len, ts, "plain")
  /\ LET c == Buffered(chunk, config.ids[nm], ts, len, FALSE)
         st == Counted(status, ts, len)
     IN  \/ /\ ~ThresholdReached(st, ts)
            /\ chunk' = c /\ status' = st /\ ret' = "ok"
            /\ UNCHANGED <<indexChunks, sinkVars, marred>>
         \/ /\ ThresholdReached(st, ts)
            /\ \E o \in Outcomes :
                 /\ PyWriteChunk(c, o)
                 /\ chunk' = IF o = "all" THEN Drained(c) ELSE Unindexed(c)
                 /\ status' = IF o = "all" THEN FreshStatus ELSE st
                 /\ ret' = IF o = "all" THEN "ok" ELSE "io"
  /\ UNCHANGED <<isTopicOpen, config, fileVars, closeVars, pc>>

(* write_video_message; if its flush raises, the frame is not taken. *)
PyWriteVideoMessage(nm, len, ts, key) ==
  /\ Writable(TRUE, nm, ts)
  /\ key \/ chunk.len # 0
  /\ LET id == config.ids[nm]
         flush == key /\ chunk.len > 0 /\ ThresholdReached(status, lastTimestamp)
         before == IF flush THEN Drained(chunk) ELSE chunk
         st == IF flush THEN FreshStatus ELSE status
     IN  \/ /\ IF flush THEN PyWriteChunk(chunk, "all")
                        ELSE UNCHANGED <<indexChunks, sinkVars, marred>>
            /\ Accept(nm, len, ts, IF key THEN "key" ELSE "delta")
            /\ chunk' = Buffered(before, id, ts, len, key)
            /\ status' = Counted(st, ts, len)
            /\ ret' = "ok"
         \/ /\ flush
            /\ \E o \in Outcomes \ {"all"} : PyWriteChunk(chunk, o)
            /\ chunk' = Unindexed(chunk)
            /\ ret' = "io"
            /\ UNCHANGED <<lastTimestamp, count, log, status>>
  /\ UNCHANGED <<isTopicOpen, config, fileVars, closeVars, pc>>

(* close_topic; if its flush raises, the chunks of the group are not       *)
(* filed, and the group cannot be closed again.                            *)
PyCloseTopic ==
  /\ pc = "idle" /\ isTopicOpen
  /\ isTopicOpen' = FALSE
  /\ \/ /\ chunk.len = 0
        /\ chunk' = ClearedBuf(chunk)
        /\ indexList' = Append(indexList, indexChunks)
        /\ indexChunks' = <<>>
        /\ ret' = "ok"
        /\ UNCHANGED <<status, sinkVars, marred>>
     \/ /\ chunk.len > 0
        /\ \E o \in Outcomes, packed \in ChunkLens(chunk) :
             LET filed == Append(indexChunks, IndexChunkOf(chunk, packed))
                 ok == o = "all"
             IN  /\ PyEmit(o, "data", packed, chunk.buf)
                 /\ offset' = IF ok THEN offset + packed ELSE offset
                 /\ chunk' = IF ok THEN Drained(chunk) ELSE Unindexed(chunk)
                 /\ status' = IF ok THEN FreshStatus ELSE status
                 /\ indexList' = IF ok THEN Append(indexList, filed) ELSE indexList
                 /\ indexChunks' = IF ok THEN <<>> ELSE filed
                 /\ ret' = IF ok THEN "ok" ELSE "io"
                 /\ marred' = (marred \/ ~ok)
  /\ UNCHANGED <<config, lastTimestamp, groups, openedNames, lastId, count, closeVars, pc, log>>
-----------------------------------------------------------------------------
(* close.  A short write of an index chunk, of the summary or of the       *)
(* footer goes unnoticed; whatever fails here lasts, since close starts    *)
(* over and describes the chunks once more.                                *)
CloseWrite(o, kind, len, body) ==
  /\ PyEmit(o, kind, len, body)
  /\ marred' = (marred \/ o # "all")

PyWriteIndexChunk ==
  LET i == at[1]  j == at[2]
  IN  /\ pc = "indexing" /\ i <= Len(indexList) /\ j <= Len(indexList[i])
      /\ groups' = [groups EXCEPT ![i].infos = Append(@, InfoOf(indexList[i][j]))]
      /\ \E o \in Outcomes, packed \in PackedLens :
           /\ CloseWrite(o, "index", packed, indexList[i][j])
           /\ offset' = IF o = "raises" THEN offset ELSE offset + packed
           /\ at' = IF o = "raises" THEN at ELSE <<i, j + 1, at[3] + packed>>
           /\ pc' = IF o = "raises" THEN "idle" ELSE pc
           /\ ret' = IF o = "raises" THEN "io" ELSE ret
      /\ UNCHANGED <<topicVars, chunkVars, indexList, openedNames, lastId, count, closes, log>>

PyWriteSummary ==
  /\ pc = "indexing" /\ at[1] > Len(indexList)
  /\ groups' = [g \in DOMAIN groups |-> Stamped(groups[g])]
  /\ \E o \in Outcomes, packed \in PackedLens :
       /\ CloseWrite(o, "summary", packed, groups')
       /\ offset' = IF o = "raises" THEN offset ELSE offset + packed
       /\ at' = IF o = "raises" THEN at ELSE <<at[1], at[2], packed>>
       /\ pc' = IF o = "raises" THEN "idle" ELSE "footer"
       /\ ret' = IF o = "raises" THEN "io" ELSE ret
  /\ UNCHANGED <<topicVars, chunkVars, indexList, openedNames, lastId, count, closes, log>>

(* The footer is two writes; if the second raises, the first stays. *)
PyWriteFooter ==
  /\ pc = "footer"
  /\ \/ \E o \in {"all", "short"} \cap Outcomes :
          /\ CloseWrite(o, "footer", FooterLen, at[3])
          /\ pc' = "closed" /\ ret' = "ok"
     \/ /\ "raises" \in Outcomes
        /\ stream' \in {stream, Append(stream, Torn(8))}
        /\ sinkFailed' = TRUE /\ marred' = TRUE
        /\ pc' = "idle" /\ ret' = "io"
  /\ UNCHANGED <<topicVars, chunkVars, fileVars, count, closeVars, offset, log>>
-----------------------------------------------------------------------------
(* The steps that are the Go Writer's. *)
Shared ==
  \/ \E nm \in Names, ts \in Times :
       \/ \E video \in BOOLEAN : WriteRejected(video, nm, ts)
       \/ VideoNeedsKeyFrame(nm, ts)
  \/ CloseTopicRejected \/ CloseRejected \/ Close \/ FinishGroup \/ Done

PyNext ==
  \/ \E r \in OpenRequests : (PyOpenRejected(r) \/ PyOpenTopics(r)) /\ UNCHANGED marred
  \/ \E nm \in Names, ts \in Times, len \in Lens :
       PyWriteMessage(nm, len, ts) \/ \E key \in BOOLEAN : PyWriteVideoMessage(nm, len, ts, key)
  \/ PyCloseTopic \/ PyWriteIndexChunk \/ PyWriteSummary \/ PyWriteFooter
  \/ Shared /\ UNCHANGED marred

PySpec == PyInit /\ [][PyNext]_pyVars
-----------------------------------------------------------------------------
(* A read of an uncompressed chunk finds its bytes also where a longer     *)
(* record, written later at the same place, begins with them.              *)
Beginnings ==
  {[d EXCEPT !.len = c.len] : <<d, c>> \in
     {p \in {d \in ToSet(stream) : d.kind = "data"} \X Listed :
        p[1].at = p[2].off /\ p[2].len < p[1].len}}

(* When close() has returned, the file has everything, also after a        *)
(* write_message of an uncompressed group that raised because the output   *)
(* took nothing: what was buffered is written by the next flush, and both  *)
(* index chunks are true of it.  Other failures may cost messages.         *)
PyCloseComplete ==
  pc = "closed" /\ ~marred => CompleteIn(SetToSeq(Beginnings) \o stream)
=============================================================================
