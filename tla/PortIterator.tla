---------------------------- MODULE PortIterator ----------------------------
(***************************************************************************)
(* readMessages of the TypeScript Reader (ts/src/reader.ts and iterators/) *)
(* and read_messages of the Python one (py/turbodata/reader.py, _iter.py). *)
(* Chunks, kept messages, plans and preloaded chunks are those of          *)
(* MessageIterator, whose names the actions below use.  What differs:      *)
(*                                                                         *)
(*   - a chunk is read into a buffer of its own, so an item of the heap    *)
(*     carries its bytes;                                                  *)
(*   - TypeScript prepares in the first next(), and an error there is      *)
(*     followed, in the next call, by all of it again with the heap that   *)
(*     was left;                                                           *)
(*   - Python is a generator: it yields a message before its group moves   *)
(*     on, an error ends it, and messages of one time come in the order    *)
(*     they were pushed.                                                   *)
(*                                                                         *)
(* As in MessageIterator messages of no bytes are sorted as the heap of    *)
(* the Go SDK does; Python's stable sort may order more than two of one    *)
(* offset in another way.                                                  *)
(***************************************************************************)
EXTENDS MessageIterator

CONSTANT MaxLeft   \* bound: items an init that fails may leave in the heap

ASSUME MaxLeftAssumption == MaxLeft \in Nat

VARIABLE sdk   \* whose iterator it is: "go", "ts" or "py"

portVars == <<vars, sdk>>

(* Python's prefetching and TypeScript's are the steps of Go; a group      *)
(* without a chunk in the range of the query gets no iterator.             *)
PortPrepareLazy ==
  /\ pc = "start" /\ ~query.costAware
  /\ iters' = [k \in DOMAIN Scoped |->
                 [Iterator(Scoped[k], Chunks(Scoped[k]), <<>>) EXCEPT !.cur = 1]]
  /\ pc' = "idle"
  /\ UNCHANGED <<file, query, pulled, heap, loaded, popped, ranges, delivered, result, failed>>

(* init failed, and its caller gets the error. *)
TsFetchFails ==
  /\ pc \in {"indexes", "data"} /\ ranges # <<>>
  /\ pc' = "start"
  /\ result' = "error"
  /\ failed' = TRUE
  /\ UNCHANGED <<file, query, iters, pulled, heap, loaded, popped, ranges, delivered>>

TsPrepareCostAware == PlanIndexes \/ PlanData \/ Preload \/ TsFetchFails
PyPrepareCostAware == PlanIndexes \/ PlanData \/ Preload \/ FetchFails

PortPrepare ==
  \/ PortPrepareLazy
  \/ sdk = "ts" /\ TsPrepareCostAware
  \/ sdk = "py" /\ PyPrepareCostAware
-----------------------------------------------------------------------------
(* heapq on (key, counter): the first that was pushed of the least key. *)
LeastKey ==
  CHOOSE k \in DOMAIN heap : \A j \in DOMAIN heap :
    heap[k].key < heap[j].key \/ (heap[k].key = heap[j].key /\ k <= j)

PortItem(m, off, bytes) ==
  [key |-> Key(m.ts), id |-> m.id, ts |-> m.ts, off |-> off, len |-> m.len, iter |-> pulled, bytes |-> bytes]

PortPushed(m, off, bytes) ==
  LET item == PortItem(m, off, bytes)
  IN  heap' = IF sdk = "ts" THEN Pushed(heap, item) ELSE Append(heap, item)

(* next() of TypeScript: the message that was popped, and then what its    *)
(* group has next.  Its answer is Answered.                                *)
TsPop ==
  /\ pc = "pop" /\ heap # <<>>
  /\ popped' = [item |-> Head(heap), bytes |-> Head(heap).bytes]
  /\ heap' = Popped(heap)
  /\ pulled' = Head(heap).iter
  /\ pc' = "pull"
  /\ UNCHANGED <<file, query, iters, loaded, ranges, delivered, result, failed>>

(* __next__ of Python: the group of the message that was yielded last, and *)
(* then the next message.                                                  *)
PyCall ==
  /\ pc = "idle"
  /\ IF failed \/ result = "eof"
     THEN result' = "eof" /\ UNCHANGED <<pc, pulled, loaded>>
     ELSE /\ result' = "none"
          /\ pulled' = IF loaded THEN popped.item.iter ELSE IF iters = <<>> THEN 0 ELSE 1
          /\ pc' = IF pulled' = 0 THEN "pop" ELSE "pull"
          /\ loaded' = (loaded \/ iters = <<>>)
  /\ UNCHANGED <<file, query, iters, heap, popped, ranges, delivered, failed>>

PyYield ==
  /\ pc = "pop" /\ heap # <<>>
  /\ LET item == heap[LeastKey]
     IN  /\ popped' = [item |-> item, bytes |-> item.bytes]
         /\ delivered' = Append(delivered, [id |-> item.id, ts |-> item.ts, bytes |-> item.bytes])
  /\ heap' = RemoveAt(heap, LeastKey)
  /\ result' = "message"
  /\ pc' = "idle"
  /\ UNCHANGED <<file, query, iters, pulled, loaded, ranges, failed>>

(* Next of a group answered. *)
PortAnswered ==
  IF sdk = "py" /\ loaded
  THEN pc' = "pop" /\ pulled' = 0 /\ popped' = NoMessage /\ UNCHANGED <<loaded, delivered, result>>
  ELSE Answered

PortEndOfGroup ==
  /\ pc = "pull"
  /\ it.cur \notin DOMAIN it.kept /\ it.next \notin DOMAIN it.chunks
  /\ UNCHANGED <<file, query, iters, heap, ranges, failed>>
  /\ PortAnswered

(* Next of a group threw.  If that was in init, TypeScript will do it all  *)
(* again; otherwise the popped message and the rest of its group are lost. *)
PortFails ==
  /\ sdk = "ts" /\ ~loaded => Len(heap) <= MaxLeft
  /\ result' = "error"
  /\ failed' = TRUE
  /\ popped' = NoMessage
  /\ pulled' = 0
  /\ pc' = IF sdk = "ts" /\ ~loaded THEN "start" ELSE "idle"
  /\ UNCHANGED <<file, query, heap, loaded, ranges, delivered>>
-----------------------------------------------------------------------------
(* Next of a lazy group.  TypeScript moves to the next chunk, and to the   *)
(* first message of the one it has, when the data have been read; here the *)
(* chunk is passed by with its index, and a failure of the data undoes it. *)
PortAfterIndex(i) ==
  LET kept == Kept(i.group, i.chunks[i.next])
  IN  [i EXCEPT !.next = @ + Step, !.kept = kept,
                !.cur = IF sdk = "ts" /\ kept # <<>> THEN @ ELSE First(kept),
                !.buf = IF sdk = "ts" /\ kept = <<>> THEN 0 ELSE @]

PortLoadIndexChunk ==
  /\ pc = "pull" /\ ~query.costAware
  /\ it.cur \notin DOMAIN it.kept /\ it.next \in DOMAIN it.chunks
  /\ \/ /\ iters' = [iters EXCEPT ![pulled] = PortAfterIndex(@)]
        /\ pc' = IF iters'[pulled].kept = <<>> THEN "pull" ELSE "chunk"
        /\ UNCHANGED <<file, query, pulled, heap, loaded, popped, ranges, delivered, result, failed>>
     \/ PortFails /\ UNCHANGED iters

PortLoadDataChunk ==
  /\ pc = "chunk"
  /\ \/ /\ iters' = [iters EXCEPT ![pulled] = [@ EXCEPT !.buf = CurrentChunk, !.cur = First(it.kept)]]
        /\ pc' = "pull"
        /\ UNCHANGED <<file, query, pulled, heap, loaded, popped, ranges, delivered, result, failed>>
     \/ /\ PortFails
        /\ iters' = IF sdk = "ts" THEN [iters EXCEPT ![pulled].next = @ - Step] ELSE iters

(* The buffer of an iterator holds one chunk, and a slice of it is no      *)
(* longer than it is.                                                      *)
Slice(m) ==
  LET c == file[it.group].chunks[it.buf]
      rest == IF m.off < c.ulen THEN c.ulen - m.off ELSE 0
  IN  Bytes(c.data, m.off, IF m.len < rest THEN m.len ELSE rest)

PortServe ==
  /\ pc = "pull" /\ ~query.costAware /\ it.cur \in DOMAIN it.kept /\ it.buf # 0
  /\ LET m == it.kept[it.cur] IN PortPushed(m, m.off, Slice(m))
  /\ iters' = [iters EXCEPT ![pulled] = Advanced(@)]
  /\ PortAnswered
  /\ UNCHANGED <<file, query, ranges, failed>>

(* A group that is asked again after its data could not be read may have   *)
(* no buffer: a TypeError.                                                 *)
TsNoBuffer ==
  /\ pc = "pull" /\ ~query.costAware /\ it.cur \in DOMAIN it.kept /\ it.buf = 0
  /\ iters' = [iters EXCEPT ![pulled] = Advanced(@)]
  /\ PortFails

(* Next of a preloaded group; its chunks are passed by as in Go. *)
PortServePreloaded ==
  /\ pc = "pull" /\ query.costAware /\ it.cur \in DOMAIN it.kept
  /\ LET m == it.kept[it.cur]
         c == file[it.group].chunks[it.chunks[it.next]]
         compressed == file[it.group].compressed
     IN  /\ iters' = [iters EXCEPT ![pulled] =
                        [Advanced(it) EXCEPT !.buf = IF compressed THEN it.chunks[it.next] ELSE it.buf]]
         /\ IF compressed THEN PortPushed(m, m.off, Bytes(c.data, m.off, m.len))
            ELSE PortPushed(m, c.off + m.off, FileBytes(Loaded(c.off + m.off)))
  /\ PortAnswered
  /\ UNCHANGED <<file, query, ranges, failed>>

PortDecompressFails ==
  /\ pc = "pull" /\ query.costAware /\ it.cur \in DOMAIN it.kept
  /\ file[it.group].compressed /\ it.buf # it.chunks[it.next]
  /\ PortFails
  /\ UNCHANGED iters
-----------------------------------------------------------------------------
PortNext ==
  /\ \/ PortPrepare \/ Over
     \/ sdk = "ts" /\ (Call \/ TsPop)
     \/ sdk = "py" /\ (PyCall \/ PyYield)
     \/ Eof \/ PortEndOfGroup \/ PortLoadIndexChunk \/ PortLoadDataChunk \/ PortServe \/ TsNoBuffer
     \/ AdvanceChunk \/ PortServePreloaded \/ PortDecompressFails
  /\ UNCHANGED sdk

(* The iterator of one of the SDKs. *)
SdkInit == Init /\ sdk \in {"go", "ts", "py"}
SdkNext == \/ sdk = "go" /\ Next /\ UNCHANGED sdk
           \/ sdk # "go" /\ PortNext
SdkSpec == SdkInit /\ [][SdkNext]_portVars
-----------------------------------------------------------------------------
(* The merged stream is in time order, also after errors, of a file in     *)
(* which no message of no bytes has the offset of a later one of another   *)
(* topic (EveryMessageItsBytes of Writer); only next() of TypeScript,      *)
(* which starts over with the heap it had when an error was in init, may   *)
(* go back in time.                                                        *)
InTimeOrder == TiesInFile => (sdk = "ts" /\ failed) \/ TimeOrdered
=============================================================================
