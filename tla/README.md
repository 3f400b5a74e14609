# A verification project for turbodata

turbodata stores timestamped messages of many topics in one file (`.td`). A
Writer streams chunks of messages to an output; readers find chunks through an
index and merge them back into time order, lazily or with planned, concurrent
range reads. There are three SDKs: Go (`go/turbodata`, the reference, reads and
writes), Python (`py/turbodata`, reads and writes) and TypeScript (`ts/src`,
reads in browsers). FORMAT.md and DESIGN.md describe the file and the ideas.

This directory holds TLA+ models of the parts of that code where order, failure
and boundaries matter, the TLC configurations that check them, and TLAPS proofs
of what matters most. Paths below are relative to the repository.

## Contents

| Module | What it is |
|---|---|
| `Heap`, `Lists`, `SortFilter` | container/heap, sequences given by a set, and `sortAndFilter`, as operators |
| `Format`, `Layout` | what a file is and what following its index yields; what a reader may suppose of one |
| `Writer`, `PyWriter`, `MCWriter` | the Go Writer; the Python one; the callers TLC explores |
| `WriterProofs`, `OrderLemmas` | theorems about the Writer |
| `Fetch` | what a batch of reads promises (abstract) |
| `Fetcher`, `FetcherProofs` | Go's `Fetcher.Execute`; theorems |
| `FetchPool`, `PyFetcher` | the same batch in TypeScript and Python |
| `FetchPoolProofs`, `PyFetcherProofs` | theorems: they implement `Fetch` |
| `Planner`, `PlannerProofs` | `Plan` and `LoadedBytes`; theorems about them |
| `MCFetch` | the parts of a cost-aware read, each on its own: the plan and the three batches |
| `MessageIterator`, `MCMessageIterator` | the read path from `ReadMessages` to `NextInto` |
| `PortIterator` | the same in TypeScript and Python, and the iterators of all three |
| `IteratorProofs` | theorems about the iterators of all three |
| `Sampler` | the sampling engine |
| `Reader` | the summary of a file and the names of its topics |
| `MultiReader`, `MCMultiReader` | the calls of a program on one or several files: `Summary`, `Sample`, `ReadMessages` |
| `MultiReaderProofs` | theorems about the waves of the engine, the Reader as those calls use it, and the merge |
| `SmallFiles` | how the small files TLC reads are laid out |

## Inventory

For every part: the state it keeps, its operations, what is hard about it, and
what makes it correct.

**Go Writer** (`writer.go`, `chunk.go`). State: the open topic group and its
config; the chunk in progress, as a byte buffer and per-topic index entries;
index chunks of the open and of the closed groups; the summary; the offset it
believes the output has; counters. Operations: `OpenTopics`, `WriteMessage`,
`WriteVideoMessage`, `CloseTopic`, `Close`. Used by one goroutine. Hard: a write
that fails in the middle of a call, long sequences of legal and refused calls,
and three chunk thresholds that interact with key frames. Correct when the
index is true of the stored bytes, chunks are in time order and cut where the
config says, video chunks can be decoded, and a nil from `Close` means that
everything accepted can be read back.

**Python Writer** (`py/turbodata/writer.py`). The same state and operations.
Hard in its own way: the output does not remember an error, so a caller that
goes on after one may get a `close()` that returns; and it may take a part of the
bytes it is given. Correct when a refused call changes nothing, and when a
failure that the next calls can make good is made good.

**File format** (`format/`). Data chunks, index chunks, summary and footer, and
the arithmetic that locates one from the other (`IndexChunkLen`, tail of the
file).

**Index merge** (`internal/iter/sort_filter.go`). A pure function: entries of
several topics merged by offset, lengths from the next offset, then a filter by
topic and time with a snap back to a key frame.

**Message iterator** (`internal/iter/iterator.go`, `group.go`,
`group_preloaded.go`). State: a heap with at most one message per group, and
per group a queue of chunks, a cursor and a reused buffer. Operations:
`Prepare`, `NextInto`. Interacts with the byte source (lazy path) or with
planner, fetcher and `LoadedBytes` (cost-aware path). Hard: heap items alias
buffers that are reused; cursors that run in both directions; reads that fail in
any step, and callers that call again; two paths that have to agree. Correct
when the stream is in time order, is complete at `io.EOF`, carries the right
bytes, and does not depend on the path.

**Read planner** (`internal/iorange/planner.go`, `loaded.go`). A pure function
from sorted ranges to reads, and a map back. Hard: boundaries (a gap that is
just allowed, an op just at the threshold, ranges of no bytes). Correct when
every range is found, and ops are as long as allowed.

**Read batches** (`internal/iorange/fetcher.go`; `py/turbodata/_iorange.py`;
`ts/src/read_fetcher.ts`). State: buffers, tokens, the first error, a context.
Hard: goroutines, futures and promises racing an error and a cancellation.
Correct when reads in progress are bounded, the result is every buffer or a
true error, nothing is left running, and the call returns.

**Reader** (`reader.go`). State: a cached size, summary, inverse remap (or the
error of making it) and time bounds of topics, each filled by the first call
that needs it. Operations: `Summary`, `ReadMessages`, `Sample`. Hard: the tail
window may be shorter than the summary or the file shorter than the window; a
load that fails half-way leaves a part of the state to the next call; two name
spaces. Correct when the summary kept is the one the file ends with, and a remap
under which topics collapse is refused by every call.

**Sampler** (`sampler.go`, `internal/iter/sample.go`). State, within one call:
pending timestamps with their candidate chunk, decoded index chunks, resolved
targets, planned ranges. Hard: a timestamp that precedes the first message of
its chunk falls back, wave by wave; chunks are shared by waves and topics; rows
of video frames share a range and must not repeat a frame. Correct when a sample
is the last message not after its timestamp, with its own bytes, when a row can
be decoded, and when the waves end.

**Multi-file reader** (`multi_reader.go`, `internal/iter/multi.go`). State: a
heap with at most one message per file, a buffer per file. Calls Reader and
sampler of every file, and merges their iterators. Hard: buffers that are
reused behind heap entries, a file that fails while others go on, videos that
touch, rows that move from file to file. Correct when the merge is ordered and
complete, samples are the floor over all files, and the frames of a video do
not come from two files in turn.

**Python and TypeScript readers** (`py/turbodata/reader.py`, `_iter.py`,
`ts/src/reader.ts`, `iterators/`). Ports, with a buffer per chunk. They differ in
their batches of reads and in what an error leaves: in Python the merge is a
generator, which an error ends; in TypeScript the first `next()` prepares and
loads, a call after an error there does so again with the heap that was left,
and a group changes its cursors in another order than Go's. Correct when they
deliver what the Go iterator does as long as nothing fails.

**Left aside.** Benchmarks, examples, fixtures, zstd, MessagePack and the byte
sources (HTTP, Blob, files): I/O or libraries. That a read may fail is part of
every model that reads.

`PROJECT.json` lists the components and, under `hazards`, each place where the
code can go wrong in a way a test would hardly reach, with the properties that
watch it.

## The models

### Writer

One action per public call; `Close` writes several records and is a sequence of
steps (`pc`), one per record, in the order of `writeIndexChunks`, `writeSummary`
and `writeFooter`. A rejected call is an action of its own with the error it
returns in `ret`. `writeChunk` is the operator `WriteChunk`, used by the write
calls and by `CloseTopic`: it records the index chunk, then writes the data
chunk, and the output may fail (`SinkOutcomes`; a `bufio.Writer` remembers its
first error, so after a failure every write fails).

Variables are the fields of the Go struct. Bytes are abstracted: a payload is a
length, a chunk a sequence of segments `[n, at, len]` where `n` is the number of
the message, a zstd frame has any length of `PackedLens`, the output is a
sequence of records with their offsets. The two maps of index entries, the
buffer and its length are one record `chunk`. `log` and `ret` are history.
A panic of the code (a nil config, an index out of range) is a value of `pc`.
A call of `OpenTopics` is refused in two places: `OpenRejected` has the guards
that come before `isTopicOpen` is set, `OpenRejectedLate` those after it (an
option that returns an error, a video group).

`PyWriter` extends `Writer` and uses its operators and refusals where the two
SDKs agree. Its own are the actions that check in another order (`open_topics`
validates a video group before it changes anything; a video frame whose flush
raises is not taken) and all that write: `Outcomes` says that a write takes all,
raises, or takes a part, and only the write of a data chunk looks at the number
of bytes taken. `marred` is history: a failure that no later call makes good, of
which the bound `~marred` in `Outcomes` allows one.

### Format, Heap, SortFilter

`Format` reads a stream back as FORMAT.md's reading algorithm and the Go reader
do: footer, summary, index chunk lengths by subtraction, index chunk, data
chunk, then `Merged` of SortFilter. `CompleteIn` compares that with the
Writer's `log`. `Heap` repeats container/heap move by move, because the order it
gives to equal keys is visible: a message of no bytes has the offset of the next
one, and if that is of another topic the merge may swap them and their bytes, and
messages of different groups share a timestamp. An item that is sifted goes along
a trail of places, and every item on it takes the place before; that is a function
of the heap and can be proved about. `Layout` is the other end of `Format`: the
record a reader sees of a file, and `InOrder`, what the Writer guarantees of it.

### Fetch and its implementations

`Fetch` is the promise: at most `Workers` reads run, a read once done stays
done, the call returns all buffers if no read failed and otherwise an error
that some read or the caller caused, and only when nothing runs. `Fetcher`
models `Execute` statement by statement: the token channel, the `select`, one
goroutine per op that reads, records the first error under the mutex, cancels,
returns its token and leaves the WaitGroup, each a step. The caller may cancel
the context at any time. `PyFetcher` is the thread pool and `wait` of Python,
with futures that are pending, running, done, failed or cancelled. `FetchPool`
is the set of promises of TypeScript. `ImplementsFetch` in each states the
refinement. `MCFetch` runs one of `Plan`, `Fetcher`, `FetchPool`
and two instances of `PyFetcher`; they share no state.

### Planner

One action per turn of the two loops of `Plan`; `groups` keeps first and last
member, which are consecutive. `Registered` and `Get` are `LoadedBytes`.

### MessageIterator

`Prepare` is one step on the lazy path and three on the cost-aware one (plan the
index ranges, plan the data ranges when the index has been fetched, preload),
each fetch of which may fail. `NextInto` is split where the code reads: the call
(`Call`), the pop (`Pop`, `Eof`), and the steps of `Next` of one group, each of
which may fail when it reads: `LoadIndexChunk`, `LoadDataChunk`, then `Serve`,
`ServePreloaded` (whose decompression may fail, `DecompressFails`) or
`EndOfGroup`. An error has two outcomes, as in the code: `Failed` returns it to
the caller, and `EndsWithEof` is a read that failed with io.EOF, which `NextInto`
and `initLoad` take for the end of the group. While `loaded` is false these are the turns of
`initLoad`. A caller may call again after an error, and the model shows what
happens then: the buffer of a group whose data chunk could not be read holds
unknown bytes (`<<0, x>>`), and a slice past its end panics.

The plan and the fetch are used by contract: `Planner` shows that a range is
found where it was registered (`RangesLocated`) and what `Get` answers when two
ranges have one offset (the last), `Fetch` that a fetch returns all buffers or
fails. A topic is its id; names and renames are left out.

### PortIterator

`readMessages` of TypeScript and `read_messages` of Python, over the variables,
plans and preloaded groups of MessageIterator. `sdk` says whose steps are taken.
Heap items carry their bytes. In TypeScript `TsPop` takes a message and its group
moves on before the caller gets it; an error while `loaded` is false leads back
to "start" (`TsFetchFails`, `PortFails`), and a group whose data could not be read
has the messages of the new chunk, the cursor of the old one and stays before
both. `SdkSpec` is the iterator of one SDK, any of the three. `MaxLeft` bounds the heap that such an error leaves, which would grow with
every retry. In Python `PyYield` hands a message out and the next `PyCall` begins
with its group; `LeastKey` is heapq's order of ties.

### Sampler

What `sample.go` keeps in lists per group and topic is a function of the cells
`<<q, j>>`, the j-th timestamp of query q. `Assign` gives every cell its first
candidate. A wave is `Gather` (which index chunks are missing), `FetchIndexes`
(one batch, which may fail) and `Walk`, which looks every pending cell up and
resolves it, moves it to the chunk before, or gives it up. Cursors that walk two
ascending lists are `Upto`, per cell: what they find does not depend on the
cells before, which is why a cursor may go on where the last cell left it. When
no cell is pending, `Plan` computes the ranges of phase B, frames of one group
of pictures in one range that reaches the furthest frame, and `Materialize` cuts
the hits out of what was read, a row of video going on after the frame it was
last given. Plan and fetch are used by contract, as in MessageIterator.
`OnePerOffset` leaves open which of two ranges of one offset is registered or
found; only payloads of no bytes have that.

### Reader and MultiReader

`Reader` has the files on disk and, per Reader, what is cached. `step` is where
`summaryWithHint` stands: size, tail, and the rest of a summary that began before
the tail; every read may fail, and the next call takes up from what is cached. A
tail hint of 1 to 12 bytes slices below zero, which is the step "panic". A
topic's id stands for its name in the file, `remap` gives its exposed name.

`MultiReader` is a program: a session is a set of files and a script of calls,
each of which passes from Reader to Reader (`phase`, `at`) as the code's loops
do. Sampling composes with `Sampler`: the step `Sample` sets the arguments of
the engine for one Reader, `Engine` is a step of `SampleNext`, and `EngineDone`
merges its rows into the answer. `ReadMessages` opens an iterator per Reader and
checks that videos are apart; then `NextInto`, `Pull`, `Pop` and `Eof` are
`MultiMessageIterator`, with its heap, its buffers and `initLoad`. The iterators
that are merged are used by what MessageIterator promises: messages of a group in
order, an error in any call (at most `MaxFailures` times), after which a group
may be lost. That contract is what `InTimeOrder` and `EofMeansAll` say: a file with
offset ties (`TiesInFile`) or a read that fails with io.EOF breaks it, and with it
the order or the completeness of the merge. Payloads are message numbers: `Written` is a group in the order of the
call, `Asked` the part of it that an iterator is opened for. Time ranges and read
strategies are options of each file's iterator and are left to MessageIterator.

## Runs

| Run | Checks | Shows |
|---|---|---|
| `writer` | 9 invariants, `PyRejectedOpenChangesNothing` | chunks, index and file are right for twelve callers, in Go and in Python |
| `writer_rejected_open` | `RejectedOpenChangesNothing` | violated: see Findings |
| `writer_empty_group` | `ClosedGroupIsFlushed` | violated |
| `writer_empty_tie` | `EveryMessageItsBytes` | violated |
| `fetch` | 6 invariants, 7 temporal properties | plans are complete and greedy; the batches of Go, TypeScript and Python keep `Fetch` and return |
| `fetcher_stops` | `StopsAfterError` | violated |
| `iterator` | 7 invariants, `CallsEnd` | the read path of each SDK is complete, ordered and path-independent, but for the findings |
| `iterator_empty_payload` | `PathsAgree` | violated |
| `iterator_hidden_eof` | `EofHidesNothing` | violated |
| `iterator_video_seek` | `SnapsBack` | violated |
| `multi_reader` | 8 invariants, `EveryWaveDescends` | samples, merged streams and caches are right whatever fails before |
| `multi_reader_names` | `UnknownMatchesNothing` | violated |

A property that a finding shows to fail is kept where it holds: the run checks
it with the finding's case as its hypothesis, by name, and TLC reads files and
runs callers on both sides of it.

**Writer properties.** `CloseMeansComplete`: after a `Close` without an error,
reading the file gives every message of the log in its topic, with its bytes and
timestamp, but for three exceptions it names: the empty payloads that
`writer_empty_group` is about; the bytes, not the times, of a group in which two
topics share an offset (`OffsetsShared`, the finding `writer_empty_tie`); and a
file with more topics than there are ids (`FewTopics`). In Go
that is so whatever failed; in Python when the only failures were writes of
uncompressed chunks in `write_message` and `write_video_message` that took
nothing, after which the next flush writes the bytes of the failed one again and
both index chunks are true of them. `PyRejectedOpenChangesNothing`: what
`writer_rejected_open` refutes for Go holds in Python.
`RangesCoverMessages`: the summary's time ranges contain the chunk's messages,
so that no reader skips a chunk it needs. `IndexTellsTheTruth`, `BufferIndexed`:
index entries and the stored or buffered bytes describe the same messages.
`BoundariesExact`: a chunk ends at the first message at which it may be cut and
has reached the bound. Video may be cut where a key frame arrives and the buffer
has bytes (`CutPoints`): key frames that meet an empty buffer, which is one whose
frames so far have no bytes, are no such points, whatever the counters say. For
video FORMAT.md:254 calls the thresholds a lower bound, and so they are.
`TopicIdsUnique`: while a file has no more topics than there are ids. One caller
passes that bound; the counter then comes round, a topic gets the id of an earlier
one and nothing is reported (see Worth knowing). `ChunksInTimeOrder`,
`VideoChunksDecodable` as named.

Three of them (`BoundariesExact`, `ChunksInTimeOrder`, the index half of
`VideoChunksDecodable`) suppose `NotReopened`. Their proofs showed why: the open
that `writer_rejected_open` is about leaves the last group open again, with the
entries that `writer_empty_group` is about still in the chunk and in the counts
of `chunkStatus`. What is written then is indexed together with messages that
were indexed before, in a chunk that may be cut below its threshold. None of the
twelve callers does all of that, so TLC had not met it. Both causes are
findings of their own; offsets stay true even then, and no finished file is
concerned: `Close` panics when more groups were filed than opened.

**Iterator properties.** `EofMeansAll` compares what was delivered, topic by
topic and byte by byte, with a reference that knows nothing of chunks being
loaded, heaps or cursors: `Asked` is the time range, its start moved back, over
the whole group, to the latest key frame at or before it, as the documents have
it. It speaks of iterators no read of which has failed, whether the caller was
told or not (`failed` is set by io.EOF as well). In a video whose anchoring key
frame is in a chunk that ends before the start (not `AnchorIsRead`) only messages
of the range itself are judged, and bytes are compared in groups that keep them
apart (`BytesKept`). `SnapsBack` and `EofHidesNothing` are what the documents say
without these exceptions, and are violated.

`InTimeOrder` holds even for callers that go on after errors, except in
TypeScript, and of files without an offset tie of two topics and two times
(`TiesInFile`). `OneItemPerGroup` is what makes the aliasing of buffers safe.
`DecodableCold`: with `WithVideoDecodable` the first frame of a topic is a key
frame, and if the chunk of the anchor is read, the anchor; stated of videos no
other frame of which has the time of a key frame (`KeysApart`), since the snap is
by time: a delta frame before the key frame, with its time, is delivered first.
`PlanPrecondition`: both plans are made of sorted ranges. `PathsAgree`: the same
query, served lazily and then cost-aware, delivers the same sequence. `CallsEnd`:
every step of a call returns or makes the variant `Todo` smaller, so calls end
without a fairness assumption. All of them are stated of each SDK's iterator.

**Reader, sampler and multi-file properties.** `SummaryIsTheFiles`: what is
cached as the summary is the summary, whatever the hints and the failures before.
`FloorResolved`: after each wave, a resolved cell has the last message not after
its timestamp, a pending one has passed by no message it could have taken, and a
cell that was given up has none. `EveryWaveDescends`: in each wave every pending
cell is resolved or goes to an earlier chunk, which is the variant that makes
phase A end; the code's error for a wave without progress is never returned.
`UnionFloor`: an answer of `Sample`, of one file or several, is the floor over
the files that were asked, compared with a reference that knows only the
messages written (bytes of messages that share their offset with one of no bytes
are left out). `RowsDecode`: at each hit of a video row the decoder has been fed,
since its last reset, the frames from the key frame to the floor, each once and
in order, also in rows that change files. `CollisionRefused`: no call succeeds on
a file whose remap makes two topics one. `MergedInOrder`: the merged stream is in
time order always, and complete, with the right bytes and without repetition, as
long as no call failed. `VideoNotInterleaved`: with `WithVideoDecodable` frames
of a topic that the call covers do not alternate between files.

### Bounds

- `writer`: `MCWriter.Callers` gives twelve callers, seven in Go and five in
  Python, each small in all but what it is about: up to two groups of up to two
  topics, up to four messages, payloads of 0 to 2 bytes,
  thresholds of 2 or 3. A chunk is cut, a second one begins, and one is left
  open at the close; two groups make ids follow each other, and with three ids
  (`IdSpace`) four topics pass the wrap and repeat one. A group of two topics with
  payloads of no bytes has offset ties in both orders. Effects that need more messages
  repeat those: nothing is kept of a chunk that was written but its index. In
  Python a failure that lasts is the last one, and fewer topics are opened than
  there are ids (the 65536th raises when the file is closed).
- `fetch`: in Go four ops on two workers: both tokens taken, ops still waiting, and
  an op that is started after the first error; in TypeScript and Python three ops
  on two workers, in Python also two ops on one. The theorems cover every size.
  Plan has every sorted sequence of up to three ranges at offsets 0 to 5 of length
  0 to 2, with gaps 0 to 2 and thresholds 0, 2 and 3: joining looks at two
  neighbours and packing at the op in progress and the next member.
- `iterator`: 31 files, each read by three SDKs: a two-topic group (two chunks,
  equal timestamps, both orders of topics), compressed or not, with a video group
  (two groups of pictures); a file with an offset tie of two topics; and videos with
  two groups of pictures in one chunk, a gap between chunks, and delta frames that
  have the time of the key frame after them, in its chunk or the one before. With 80
  queries: four sets of topics, one of them unknown, five time ranges, both orders,
  with and without decodable video. A group passes from one chunk to the next,
  which is where its buffer is reused. In one file the first group has three
  chunks, the second without a message of one topic: asked again after an error,
  a group of TypeScript finds it with no buffer at all. A failed load leaves at
  most one message in the heap (`MaxLeft`), so that two groups load twice and
  no more.
- `multi_reader`: 382 sessions of one or two calls on one or two files. In the
  first file one topic skips a chunk and comes late in the next, so that a
  timestamp falls back twice, while the other stops at each of them; both files
  have a video, apart or touching; the second has no remap, renames a topic or
  lets two collapse, and a topic that was never written. One pair has a payload
  of no bytes; single files are sound, without the magic number, or shorter than
  a footer, read with tail hints below the footer, of exactly the footer, one
  byte short of the summary, exact, and past the file. Any read may fail, and
  one `NextInto` per iterator. A second call finds every state that a first one,
  failed or not, leaves; a third would find no other, as what is cached is
  filled once.

### Fairness

`Fetcher` and its ports assume weak fairness of the steps of goroutines,
threads and promises, and that a read that was started ends; nothing is assumed
of the caller's cancellation or of whether reads succeed. The Go scheduler,
Python's threads and the event loop run what is runnable, and `Execute` promises
nothing for a read that never ends. The other models need no fairness:
`CallsEnd` and `EveryWaveDescends` state that variants decrease.

## Findings

- `writer_rejected_open`: `OpenTopics` marks the Writer open before it applies the
  options and checks a video group, so a call refused there changes it, although a
  comment and a test say it does not.
- `writer_empty_group`: a group whose buffered messages are all of no bytes is
  closed without a flush.
- `writer_empty_tie`: a message of no bytes and the next one of its group have one
  offset. If they are of two topics, the merge by offset (`sort_filter.go:128`) may
  take them in the other order; lengths are distances in that order, so the one
  that has bytes gets none and the empty one gets its bytes, and the stream goes
  back in time. FORMAT.md:76-85 gives the bytes to the first, and sort_filter.go:56-57
  says that the order is that of the Writer. All reading paths are concerned.
- `fetcher_stops`: after an error the loop may start another read, since
  `select` chooses at random among what is ready.
- `iterator_empty_payload`: on the cost-aware path, in a group that is not
  compressed, a message of no bytes is delivered with the payload of the next
  message, since both have one file offset and `LoadedBytes` keeps the last.
- `iterator_hidden_eof`: in Go, a lazy read that fails with io.EOF (no byte at that
  offset) is taken for the end of its group. The stream ends with io.EOF,
  messages are missing, and no call has returned an error. The cost-aware path
  makes a short read an error, and the other SDKs do not have one signal for both.
- `iterator_video_seek`: with `WithVideoDecodable` the start is said to snap back to
  the latest key frame at or before it. The code drops chunks that end before the
  start first, so a start between two chunks, or after the last, loses the anchor:
  the stream begins with the next key frame, after the start.
- `multi_reader_names`: a name that no topic is exposed under is taken for a name
  of the file, so the hidden name of a renamed topic still matches in
  `ReadMessages`, although unknown names are said to match nothing. Under such a
  name the ranges of videos are not compared either (`readScopeTopics` looks for the
  requested name, which no video of the file has): files whose videos overlap are
  then merged frame by frame. This is why `VideoNotInterleaved` speaks of the names
  the call covers.

Differences to the documents that no run is about, since a property would only
restate a guard or a bound:

- a group cannot start with a negative timestamp, since the first one is compared
  with 0 (`writer.go:245`); FORMAT.md:25-27 has signed timestamps and asks only that
  they do not decrease. A caller of the `writer` run is refused at -1;
- a range longer than `SplitThreshold` is read whole (`planner.go:61-63`, which says
  so); DESIGN.md:124-125 has "any single range larger than `SplitThreshold`" split
  "into parallel sub-reads". `OversizeIsAtomic` states what the code does;
- the 65537th topic of a file gets the id of an earlier one (`writer.go:180`), takes
  its index entries and counts, and is read as it; src/README.md:12 has a file hold
  "any number of *topics*". `TopicIdsUnique` and `CloseMeansComplete` hold up to there.

Worth knowing, though no document promises otherwise: after an error of
`NextInto` the popped message and its group are lost, and a failed `initLoad`
that is tried again serves unknown bytes (see the hazards); in TypeScript such a
load gives a group two items in the heap, hence duplicates, and another error
then makes it serve bytes of an earlier chunk, go back in time, or throw a
TypeError; in Python an error ends the generator, and a caller that goes on gets
an end that hides messages; the Fetcher treats `maxConcurrency <= 0` as 1; a tail hint of 1 to 12
bytes panics; when a failed load of a multi-file iterator is tried again, a file
has two heap entries and one buffer, and the first is delivered with the bytes of
the second; in Python, a caller that goes on after a write that raised may get a
`close()` that returns although messages are lost: a `close_topic` that failed
keeps its chunks from the list, and those of later groups move to the group
before, a compressed chunk that failed is followed by one its index does not
describe, a part taken of an index chunk, the summary or the footer is not
noticed, and a `close` that is tried again describes the chunks twice; `Sample`
over several files refuses a topic without messages, which
`Sample` of one file answers.

## Proofs

tlapm checks every proof; there is no axiom. The assumptions are those named in
the modules, which TLC evaluates in the runs or which a theorem states:

- `WriterAssumption`: types of the constants, thresholds are natural, timestamps
  lie between the infinities;
- `FetcherInput`, `FetchPoolInput`, `PyFetcherInput`, which the theorems state: in the
  ports there is an op, and the Python pool has a worker (`execute` makes it at least
  one);
- `PlannerAssumption`: ranges are sorted by offset;
- `IteratorAssumption`: files as the Writer makes them (`InOrder`: in a chunk the
  entries of a topic ascend in offset and time, and so do those of two topics;
  chunks of a group follow each other in time; chunks and index chunks follow each
  other in the file; `Truthful`: a chunk has a message, its messages lie next to
  each other in its bytes and are all indexed, with the key frames among them; a
  video group has one topic and its chunks begin with a key frame; a topic is in one
  group). On the Writer's
  side these are `ChunksAreInTimeOrder`, `IndexIsTrue`, `VideoIsDecodable` and
  `IdsAreUnique`; that a chunk has a
  message is the guard of `CloseTopic` and the place of the other calls of
  `writeChunk`. TLC evaluates it on every file of the `iterator` run;
- `SessionsAssumption`: a session has a file, its calls name Readers it has, and
  the files are as the Writer makes them (`Sampleable`: chunks, and entries in a
  chunk, ascend, none before the start of its chunk; a video chunk begins with a
  key frame and is not compressed. `Chronological`: chunks, and messages in a
  chunk, follow each other in time, each in the range of its chunk and of a topic of
  its group; a topic is in one group, since `OpenTopics` refuses a name it has seen;
  a summary has bytes). Nothing is assumed of the queries: what the engine needs
  of them, `Askable`, is what `validateSampleQueries` lets through, and is proved.

**Writer** (`WriterProofs`). `TypeCorrect` has one step per action and lemmas
for the operators the calls share. `BufferIsIndexed` and `IndexIsTrue`: the open
chunk and its entries are one set of messages whatever fails, and what an index
chunk says of the data chunk it points to is true. The invariant `IndexInv` adds
that segments of the buffer are adjacent, that entries ascend, and that a
recorded index chunk is backed by a record unless the output has failed.

The other theorems start from `HealthyStep`, the shapes a step can have while no
write fails: a message is kept, kept after a cut or before one (`Keeping`,
`Cutting`, `Filling`), the group is closed, opened, or opened again, or nothing
that matters changes. Each invariant is then shown for those shapes and not for
every action anew.

- `ChunksAreInTimeOrder`: `OrderInv` puts the entries of the open chunk after
  every chunk of the group, and `lastTimestamp` after both. It needs `Filed`: a
  group is counted before its chunks are filed, so that only a reopened group
  finds chunks of its own filed already.
- `RangesCover`: `RangeInv` follows `Close` record by record. Each info made so
  far lies on the stream and covers the index record it points to; records follow
  one another, so there is only one. It needs no `NotReopened`: with a group filed
  twice `Close` runs out of groups and panics before it returns.
- `VideoIsDecodable`: `FrameInv` is about the buffer: it begins with no delta
  frame as long as the output works, and after that nothing reaches the stream.
  `KeyInv` is about the index: the key positions collected for the open chunk are
  the places of the key frames in the buffer.
- `CutsAreExact`: `CutInv` equates the counters of `chunkStatus` with what the
  buffer measures, and says that the buffer has not reached the threshold at any
  point where it could have been cut, except, for video, at its end.
- `IdsAreUnique`: the counter is `lastId + 1` modulo 2^16 without a check that an
  id is free. `IdsInv` ranks the ids by when they were given (0, which comes
  last, as 2^16); ranks follow each other as long as there have been no more
  topics than ids. That is the hypothesis `FewTopics` of the theorem, about the
  state and not the constants; after it the ids repeat.

**Batches of reads**. `FetcherProofs!TypeCorrect`, `Quiet`, `Refinement`: for
any number of ops and workers. The inductive invariant counts: tokens in the
channel are the goroutines that have not given theirs back, the WaitGroup counts
those that have not left, and an error is recorded before the context is
cancelled by a read. The count is a cardinality, since neither counter alone
tells which goroutine holds what. `Quiet` follows, since the loop waits for the
WaitGroup. The refinement needs in addition that a buffer is filled only by a
read that ended, and that a recorded error belongs to a read that failed or to a
cancelled context.

`FetchPoolProofs!Refinement`: no two of the promises await one op and every op
before `nextIdx` was taken by one of them, so the reads in progress are at most as
many as promises, and when all have returned without an error every buffer is
full. `Stops`: a read starts only when `nextIdx` moves, which the same turn of the
event loop allows only while `firstErr` is unset; Go has no such order
(`fetcher_stops`). `PyFetcherProofs!Refinement`: futures run in the order they
were submitted on at most `Workers` threads; what `wait` returned as not done is
cancelled or runs to its end before `shutdown` lets the call return, and the
exception raised is that of a future that failed.

**Planner** (`PlannerProofs`). `RangesFound`, `OversizeIsOneRange`: the groups
cut the ranges into consecutive intervals, and the members of a group do not
overlap, since a range with a negative gap starts a group of its own. The ranges
up to a boundary are located, rightly, and no other; a flush moves the boundary
over its members. That the op being packed is one range or no longer than the
threshold is what makes `OversizeIsOneRange` inductive. `PlansAreGreedy` adds
`GreedyInv`: the gaps in a group are all allowed and those between groups are
not; neighbours below the boundary share an op exactly if they may; and the op
that ends at the boundary could not have held the next range. `GetsCover`
follows from `RangesFound`, since `Registered` finds the last of the ranges of an
offset. That the input is sorted is used by none of them: on any input Plan
finds every range, and sorting only decides how many ops it takes.

**Iterators** (`IteratorProofs`). For every file and query, both paths, both
orders and all three SDKs. It begins with the operators, and with what recursion
and folds seem to forbid: `AllNumbers` and `StepByStep` (in `OrderLemmas`) are
induction over a set of numbers and over a function of them, which tlapm can do,
unlike induction over an operator. `FirstHeapFacts` and `TurnMerges` follow the
merge of `sortAndFilter` turn by turn: its heap always has the next entry of each
topic that has one left, so what is put out ascends and every entry is put out
once (`MergedFacts`, `KeptFacts`). `Arranged` lists a set in order, which gives
the chunks and groups `Prepare` makes (`ChunksFacts`, `GroupsFacts`).

Then `StepMoves`: every step of the Go iterator and of each port is one of a dozen
moves (`ToMessage`: a message goes into the heap; `ToChunk`: an index chunk has been
read; `ToPop`, `ToEof`, `ToError`; `ToCut`: a read that failed with io.EOF ends
its group; ...). The invariants are shown for the moves and
not for every action of every SDK anew:

- `TypeInv`, `HeapInv`: the state has its type, and the heap is one (no item is
  less than its parent, so the first is least);
- `PhaseInv`: the messages kept are those of the chunk the iterator stands at, and
  the cursor and queue move the way the query goes. In TypeScript it is lost with the
  first error (`LooseEnd`), after which a group has the messages of one chunk and
  the cursor of another;
- `TimeInv` (with `HeldInv`): what a group still has to give (`Passes`) comes after
  its item in the heap, what is in the heap after what was popped, and that after
  what was delivered;
- `ItemInv`: while no read has failed a group has one item in the heap at most, and
  a group without one has nothing left in the chunk it stands at.

`SdkInTimeOrder` follows from `TimeInv`. Its hypothesis `TiesInFile`, which is in
the property, says that messages of two topics that share an offset share a time:
the merge goes by offset, and its answer to a tie is an accident of the heap (the
finding `writer_empty_tie`). `SdkOneItemPerGroup` is `ItemInv`,
and what makes it safe that a heap item is a slice of a buffer that is used again.
`SdkPlanPrecondition`: `FlattenApart` shows that ranges in order of lists in order
are in order, `WithinOrder` that the ranges of one group lie within its chunks and so
before those of the next. `SdkTypeOK` collects what these say of cursors, buffers
and items.

`SdkEofMeansAll` is what the iterators are for: all that was asked, nothing else,
in order, with its own bytes, until a read fails (a read that fails with io.EOF is
a failed one here, and what the caller then gets is `iterator_hidden_eof`). The property compares what was returned with a
concatenation over chunks, which nothing can be said of by induction over data, so
the proof goes by order instead. A message that is not empty has a rank, its number
(negated in a reverse query), which can be told from its bytes. Both lists rise
in rank, so it is enough to compare their members: of two rising lists, one that
has members of the other only, and with each all that come before it, is where the
other begins (`SameStart`, `RankedStart`). The members are followed from the
file to the caller:

- `KeptAsked`: what the merge and the filter keep of a chunk is what is `AskedAt`
  it, snap to the last key frame of that chunk included (`KeyFrameFacts`); what `Prepare` passes by has
  nothing that was asked for (`PassedBy`, `PlannedFacts`); and the bytes at the place
  of a message are its own, in its chunk or by way of the planned ranges
  (`OwnBytes` and the lemmas after `KeyFrameFacts`);
- `CourseInv` and `HasData`: as long as no call has failed every group with messages
  has an iterator, which visits exactly the listed chunks, has not stepped
  back over where it began, and holds the data of the chunk it serves;
- `GivenInv`: what an iterator has given at its cursor (`IsGiven`) is what is
  in the heap of its group and what was popped of it; the former comes after the
  latter, and the latter was popped in the order of ranks. A message that is popped and not yet
  returned counts (`Taken`), for Go and TypeScript hand it out when the next one is
  in the heap;
- `EofInv`: the end of file comes with an empty heap, and with `ItemInv` every
  iterator is then at the end of its course (`GivenAll`).

Their conjunction with `IteratorInv` is `GiftInv`, which is inductive. It says that
the code keeps, chunk by chunk, what is `AskedAt` each; the property says what the
documents ask for, group by group. `AnchorChunk` and `ReachedIsAsked` show that the
two agree on what is `Judged`: if the chunk of the latest key frame at or before the
start is read, the chunks before it end before that frame, and in the chunks after
it no key frame is at or before the start. Otherwise they agree on the time range
(`WantedIsAsked`), and `OfBegins` compares what is left of both lists. The
hypothesis `NoEmptyMessages` is needed: a message of no bytes has the place of
the next one, whose order the merge does not know, and on the cost-aware path
its bytes (the findings `writer_empty_tie` and `iterator_empty_payload`). In a file
without empty messages nothing shares an offset (`BytesAreKept`), so that the
property compares the bytes of all messages; this is part of the theorem. TLC
reads two files that have empty messages as well.

`SdkDecodableCold` follows from the same invariant and from `FirstDecodes`: the
first message that is asked for in a chunk of video is its first, a key frame, or
has the time of the last key frame up to the start of the range; by `KeysApart` it
is that key frame.

**Sampler** (`MultiReaderProofs`). `FloorIsResolved`, `WavesDescend`: in every
session, for whatever a call hands to the engine. `PhaseAInv` says that a candidate
is a chunk of the cell's group and is cached when it is walked; without the latter
a wave could pass a cell by. For each cell it says that every chunk after its
candidate has only later messages. A fallback keeps that, because nothing in the
chunk it leaves is early enough; the first candidate has it, because a chunk that
starts after the timestamp has no message before its start.

That the engine is handed what it is made for is `CallInv`, which is inductive
together with `Inv`. `Sample` of one file asks for names it has validated. `Sample` of
several asks a file only for the queries of its cached bounds (`BoundedKnown`), so a
Reader with bounds has its summary and names found to be good, and the Readers that
a call has passed have bounds; two queries of one topic cannot meet in one file, for
two exposed names are two topics of it (`AskedOfEngine`, by `NamesAreIds`). A
query that a summary does not know is refused before. `SessionsTyped` puts this
together with `MergeInvariant`: the types of all variables.

**Reader** (`MultiReaderProofs`). `SummariesAreRead`: `FilesInv` says of the
Reader that is loading, for each place the load may stand at, what is known of
its size and footer, and of every other that its summary is absent or right; a
failed read leaves a part of that to the next call. `CollisionsAreRefused`:
`NamesInv` says that a Reader is clean once `prepareRename` said yes, and that
the Readers a call has passed are clean. Both hold for every set of files and
every script of calls, with the steps of the sampling engine and of the merge
among those of the invariant.

**Merge** (`MultiReaderProofs`). `StreamsMerge` is `MergedInOrder` and `VideosApart`
is `VideoNotInterleaved`, for any number of files, every script and every pattern of
failures. `MergeInvariant` is inductive together with `Inv`; its parts were run by
TLC as invariants of the `multi_reader` configuration first:

- `MergeTypes`, `MergePhase`: the heap is one, each entry, list and delivered message
  is of a topic of its file and within one of its chunks, and outside a stream the
  merge is empty or left as the last one ended;
- `MergeTimes`: what was delivered is not after what is popped, that not after what
  is in the heap, and an entry not after what its iterator still has. The first half
  of `MergedInOrder` follows. It says nothing of the number of entries, so it
  survives a failed `initLoad` that is started over and leaves two of them;
- `MergeRoom`: while nothing failed an iterator has one entry at most, and one
  without is at its end, about to be pulled or popped. So its one buffer
  holds the bytes of its one entry, and an empty heap means that nothing is left;
- `MergePipe`: a message that was asked for is in one of four places, with the
  caller, popped, in the heap or in its iterator's list, and these, one after
  the other, are `Expected`. Each move takes it from the front of one to the end
  of the one before, and at `io.EOF` only the first is not empty. Lists are
  compared place by place, with `Picked` in `OrderLemmas`, so no induction is needed;
- `MergeScope`: the call that opened the stream found the files clean and, for
  videos, the ranges apart. Two files with messages under one name then have ranges
  one after the other, and frames of one between two of the other
  would be out of `MergeTimes`' order.

`OrderLemmas` has facts about ordered sequences and sets of integers that these
cite.

Model-checked only:

- liveness (`Returns`, `TsReturns`, `PyReturns`) and `CallsEnd`, whose variant is
  a sum over the groups;
- `CloseMeansComplete`, that what a finished file yields when it is read is the
  log: it puts together all the facts about the Writer that are proved, the reading
  of records from a stream, and the merge;
- `PathsAgree`, which compares two runs of the iterator. `SdkEofMeansAll` says that
  both give the same messages of each topic in the same order; how messages of
  one time are interleaved depends on the moves of the heap;
- `EofMeansAll` and `DecodableCold` in files with empty messages, and all that the
  violated properties of the findings are about;
- `UnionFloor`, `RowsDecode`: rows and their reference streams are concatenations over
  files and chunks, and the floor over several files goes by way of the engine's
  proof, which is about one;
- the Python Writer (`PyRejectedOpenChangesNothing`), whose operators are those
  `WriterProofs` is about but whose steps are its own.

## Not modelled

Of the Python and TypeScript readers, the loading of the summary, the sampler,
the planner and the reader of several files: they are ports of the Go ones, and
their differences are in types and errors (a tail hint shorter than the footer
raises instead of panicking, and a summary that begins before the tail is read
anew), not in order. Calls that overlap on
one TypeScript Reader share its cached summary and nothing else; the code
forbids them on one iterator. The `return()` of a TypeScript iterator, which
only sets `exhausted`, is left out. Encoding
(MessagePack, zstd) and byte sources are I/O or libraries: a read answers with
its bytes or fails. Read strategies are constants that Planner and Fetcher take
any value of.

## Plan

1. Proofs: `UnionFloor` from `FloorIsResolved`; the Python Writer's
   `PyRejectedOpenChangesNothing` and `IndexTellsTheTruth`, with the lemmas about the
   operators it shares with Go's.
2. Ports: calls that overlap on one TypeScript Reader while its summary loads.
