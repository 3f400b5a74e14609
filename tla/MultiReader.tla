---------------------------- MODULE MultiReader ----------------------------
(***************************************************************************)
(* The calls of a program that reads several files                         *)
(* (go/turbodata/multi_reader.go, internal/iter/multi.go, and of the       *)
(* single-file readers ReadMessages, Sample and Summary):                  *)
(*                                                                         *)
(*   summary      Reader.Summary                                           *)
(*   sample       Reader.Sample                                            *)
(*   multiSample  MultiReader.Sample                                       *)
(*   read         MultiReader.ReadMessages, then NextInto until io.EOF     *)
(*                                                                         *)
(* It composes Reader, which loads summaries and translates names, with    *)
(* the engine of Sampler.  The iterators that are merged are               *)
(* MessageIterator's, used by what it promises: the messages in time order *)
(* and then io.EOF, or an error.  That is so of files without offset ties  *)
(* of two topics and of reads that do not fail with io.EOF; the others     *)
(* break the promise (EveryMessageItsBytes, EofHidesNothing) and are left  *)
(* to MessageIterator.  Payloads are the numbers of messages.              *)
(***************************************************************************)
EXTENDS Reader

CONSTANTS
  Sessions,   \* [disk, script]: files on disk, and the calls a program makes, each
              \* [op, reader, queries, topics, videoDecodable, reverse, prefetch]
  MaxFailures \* bound on the calls of NextInto that fail, per iterator

Ops == {"summary", "sample", "multiSample", "read"}
Call == [op : Ops, reader : Nat, queries : Seq([topic : Nat, ts : Seq(Int)]), topics : SUBSET Nat,
         videoDecodable : BOOLEAN, reverse : BOOLEAN, prefetch : Int]

(* A program has files to read, the Writer's, and calls the Readers it has. *)
ASSUME SessionsAssumption ==
  \A s \in Sessions :
    /\ Len(s.disk) \in Nat \ {0}
    /\ \A r \in 1 .. Len(s.disk) :
         /\ s.disk[r].size \in Nat /\ s.disk[r].summaryLen \in Nat \ {0}
         /\ Sampleable(s.disk[r].groups) /\ Chronological(s.disk[r].groups)
         /\ \A name \in DOMAIN s.disk[r].remap : s.disk[r].remap[name] \in Nat
    /\ s.script \in Seq(Call)
    /\ \A k \in DOMAIN s.script : s.script[k].reader \in 1 .. Len(s.disk)

VARIABLES
  script,        \* the calls to make
  call,          \* the one that runs or ran last
  phase,         \* "idle"; "summary", "sample", "bounds", "open": at a Reader; "check",
                 \* "dispatch", "engine"; "stream": the caller has an iterator; "pull", "pop"
  at,            \* the Reader at hand
  status,        \* of the last call: "none", "ok", "refused", "overlap", "error"
  out,           \* the answer of a sample
  subs,          \* per iterator, per group, the messages that are left
  bufs,          \* per iterator, the message whose bytes its buffer holds
  heap, loaded,
  pulling,       \* the iterator whose NextInto runs
  popped,        \* the entry that NextInto will return, and its bytes
  delivered,     \* what the iterator returned so far
  result,        \* of the last NextInto: "none", "message", "eof", "error"
  failures       \* history: how many calls of NextInto returned an error

callVars   == <<script, call, phase, at, status>>
streamVars == <<subs, bufs, heap, loaded, pulling, popped, delivered, result, failures>>
vars == <<readerVars, sampleVars, callVars, out, streamVars>>

N == Len(disk)
NoEntry == [entry |-> [key |-> 0, ts |-> 0, name |-> 0, sub |-> 0], n |-> 0]
NoCall == [op |-> "none", reader |-> 1, queries |-> <<>>, topics |-> {}, videoDecodable |-> FALSE,
           reverse |-> FALSE, prefetch |-> 0]

NoStream ==
  /\ subs' = <<>> /\ bufs' = [i \in 1 .. N |-> 0] /\ heap' = <<>> /\ loaded' = FALSE
  /\ pulling' = 0 /\ popped' = NoEntry /\ delivered' = <<>> /\ result' = "none" /\ failures' = 0

Init ==
  /\ \E s \in Sessions : disk = s.disk /\ script = s.script
  /\ readers = [r \in 1 .. N |-> NewReader]
  /\ step = "ready"
  /\ file = disk[1].groups /\ specs = <<>> /\ videoDecodable = FALSE
  /\ SampleStart
  /\ call = NoCall /\ phase = "idle" /\ at = 1 /\ status = "none" /\ out = <<>>
  /\ subs = <<>> /\ bufs = [i \in 1 .. N |-> 0] /\ heap = <<>> /\ loaded = FALSE
  /\ pulling = 0 /\ popped = NoEntry /\ delivered = <<>> /\ result = "none" /\ failures = 0
-----------------------------------------------------------------------------
(* A call goes from Reader to Reader; at each it needs the summary.        *)

GoTo(p, r) == phase' = p /\ at' = r /\ step' = StepFor(r)
Return(s) == phase' = "idle" /\ status' = s /\ UNCHANGED <<at, step>>

FirstPhase(c) ==
  CASE c.op = "multiSample" -> "bounds" [] c.op = "read" -> "open" [] OTHER -> c.op

CallStarts ==
  /\ phase = "idle" /\ script # <<>>
  /\ call' = Head(script) /\ script' = Tail(script)
  /\ status' = "none" /\ out' = <<>>
  /\ UNCHANGED <<disk, readers, sampleVars>>
  /\ GoTo(FirstPhase(call'), IF call'.op \in {"summary", "sample"} THEN call'.reader ELSE 1)
  /\ NoStream

(* The hint is the caller's, but topicBounds and Summary give none. *)
Loading ==
  /\ phase \in {"summary", "sample", "bounds", "open"}
  /\ LoadSummary(at, IF phase \in {"sample", "open"} THEN call.prefetch ELSE 0)
  /\ UNCHANGED <<sampleVars, callVars, out, streamVars>>

LoadFails ==
  /\ phase # "idle" /\ step = "failed"
  /\ phase' = "idle" /\ status' = "error" /\ step' = "ready"
  /\ UNCHANGED <<disk, readers, sampleVars, script, call, at, out, streamVars>>

Summary ==
  /\ phase = "summary" /\ step = "ready"
  /\ readers' = AfterRename(at)
  /\ Return(IF RenameRefused(at) THEN "refused" ELSE "ok")
  /\ out' = IF RenameRefused(at) THEN <<>> ELSE {Exposed(at, n) : n \in Names(at)}
  /\ UNCHANGED <<disk, sampleVars, script, call, streamVars>>
-----------------------------------------------------------------------------
(* topicBounds of every Reader, then the checks that need all of them.     *)

BoundsOf ==
  /\ phase = "bounds" /\ step = "ready"
  /\ LET fails == ~readers[at].bounded /\ RenameFails(at)
     IN  /\ readers' = IF readers[at].bounded THEN readers
                       ELSE [Renamed(at) EXCEPT ![at].bounded = ~RenameFails(at)]
         /\ IF fails THEN Return("refused")
            ELSE IF at < N THEN GoTo("bounds", at + 1) /\ UNCHANGED status
            ELSE phase' = "check" /\ UNCHANGED <<at, step, status>>
  /\ UNCHANGED <<disk, sampleVars, script, call, out, streamVars>>

AllKnown == UNION {DOMAIN Bounds(r) : r \in 1 .. N}

(* Mutant: ranges that meet in one timestamp do not overlap. *)
Meets(a, b) == a.min < b.max /\ b.min < a.max

Overlap(a, b) == a.min <= b.max /\ b.min <= a.max

(* enforceVideoDisjoint. *)
VideosOverlap(topics) ==
  \E name \in topics :
    LET holders == {r \in 1 .. N : name \in DOMAIN Bounds(r)}
    IN  /\ \E r \in holders : Bounds(r)[name].video
        /\ \E r, s \in holders : r # s /\ Overlap(Bounds(r)[name], Bounds(s)[name])

ReadScope == IF call.topics = {} THEN AllKnown ELSE call.topics
Queried == {call.queries[i].topic : i \in DOMAIN call.queries}
OutCells == UNION {{<<i, j>> : j \in DOMAIN call.queries[i].ts} : i \in DOMAIN call.queries}

CheckSample ==
  /\ phase = "check" /\ call.op = "multiSample"
  /\ IF ~ValidQueries(call.queries, AllKnown) THEN Return("refused") /\ UNCHANGED out
     ELSE IF call.videoDecodable /\ VideosOverlap(Queried) THEN Return("overlap") /\ UNCHANGED out
     ELSE /\ out' = [x \in OutCells |-> NoHit]
          /\ phase' = "dispatch" /\ at' = 1 /\ UNCHANGED <<step, status>>
  /\ UNCHANGED <<disk, readers, sampleVars, script, call, streamVars>>

CheckRead ==
  /\ phase = "check" /\ call.op = "read"
  /\ IF VideosOverlap(ReadScope) THEN Return("overlap")
     ELSE phase' = "stream" /\ UNCHANGED <<at, step, status>>
  /\ UNCHANGED <<disk, readers, sampleVars, script, call, out, streamVars>>
-----------------------------------------------------------------------------
(* Sample. *)

(* The queries a Reader is asked: of several Readers, those whose topic it *)
(* holds.                                                                  *)
Subset ==
  Arranged({i \in DOMAIN call.queries :
              call.op = "sample" \/ call.queries[i].topic \in DOMAIN Bounds(at)})

Translated ==
  [k \in DOMAIN Subset |-> [topic |-> InFile(at, call.queries[Subset[k]].topic),
                            ts |-> call.queries[Subset[k]].ts]]

Dispatch ==
  /\ phase = "dispatch"
  /\ IF at > N THEN Return("ok")
     ELSE IF Subset = <<>> THEN at' = at + 1 /\ UNCHANGED <<phase, step, status>>
     ELSE GoTo("sample", at) /\ UNCHANGED status
  /\ UNCHANGED <<disk, readers, sampleVars, script, call, out, streamVars>>

Sample ==
  /\ phase = "sample" /\ step = "ready"
  /\ readers' = AfterRename(at)
  /\ IF RenameRefused(at) \/ ~ValidQueries(Translated, Names(at))
     THEN Return("refused") /\ UNCHANGED sampleVars
     ELSE /\ file' = Groups(at)
          /\ specs' = [k \in DOMAIN Translated |-> [id |-> Translated[k].topic, ts |-> Translated[k].ts]]
          /\ videoDecodable' = call.videoDecodable
          /\ stage' = "start"
          /\ pending' = [x \in Cells' |-> 0] /\ resolved' = [x \in Cells' |-> NotFound]
          /\ cached' = {} /\ ranges' = {} /\ results' = [x \in Cells' |-> NoHit]
          /\ phase' = "engine" /\ UNCHANGED <<at, step, status>>
  /\ UNCHANGED <<disk, script, call, out, streamVars>>

Engine ==
  /\ phase = "engine" /\ SampleNext
  /\ UNCHANGED <<readerVars, callVars, out, streamVars>>

EngineFails ==
  /\ phase = "engine" /\ stage = "failed"
  /\ Return("error")
  /\ UNCHANGED <<disk, readers, sampleVars, script, call, out, streamVars>>

(* Mutant: the first Reader that has a message wins. *)
EarlierReader(hit, cand) == IF ~hit.found THEN cand ELSE hit

(* The later floor; the earlier Reader's if they are equal. *)
Later(hit, cand) == IF cand.found /\ (~hit.found \/ cand.ts > hit.ts) THEN cand ELSE hit

EngineDone ==
  /\ phase = "engine" /\ stage = "done"
  /\ IF call.op = "sample"
     THEN out' = results /\ Return("ok")
     ELSE /\ out' = [x \in OutCells |->
                       IF \E k \in DOMAIN Subset : Subset[k] = x[1]
                       THEN Later(out[x], results[<<CHOOSE k \in DOMAIN Subset : Subset[k] = x[1], x[2]>>])
                       ELSE out[x]]
          /\ phase' = "dispatch" /\ at' = at + 1 /\ UNCHANGED <<step, status>>
  /\ UNCHANGED <<disk, readers, sampleVars, script, call, streamVars>>
-----------------------------------------------------------------------------
(* ReadMessages. *)

Ordered(s) == IF call.reverse THEN Reverse(s) ELSE s
Key(ts) == IF call.reverse THEN -ts ELSE ts

(* The messages of a group in the order they are asked for in, and those   *)
(* of them that an iterator is asked for.                                  *)
Written(r, g) ==
  Ordered(FlattenSeq([i \in DOMAIN Groups(r)[g].chunks |-> Groups(r)[g].chunks[i].msgs]))

Asked(r, g) ==
  LET all == Written(r, g)
      ids == {InFile(r, name) : name \in call.topics}
      mine == Picked(all, {k \in DOMAIN all : call.topics = {} \/ all[k].id \in ids})
  IN  [k \in DOMAIN mine |-> [name |-> Exposed(r, mine[k].id), ts |-> mine[k].ts, n |-> mine[k].n]]

Open ==
  /\ phase = "open" /\ step = "ready"
  /\ readers' = AfterRename(at)
  /\ IF RenameRefused(at) THEN Return("refused") /\ UNCHANGED subs
     ELSE /\ subs' = Append(subs, [g \in DOMAIN Groups(at) |-> Asked(at, g)])
          /\ UNCHANGED status
          /\ IF at < N THEN GoTo("open", at + 1)
             ELSE IF call.videoDecodable THEN GoTo("bounds", 1)
             ELSE phase' = "stream" /\ UNCHANGED <<at, step>>
  /\ UNCHANGED <<disk, sampleVars, script, call, out, bufs, heap, loaded, pulling, popped, delivered, result, failures>>

(* Prepare of an iterator fails. *)
OpenFails ==
  /\ phase = "open" /\ step = "ready" /\ ~RenameRefused(at)
  /\ readers' = AfterRename(at)
  /\ Return("error")
  /\ UNCHANGED <<disk, sampleVars, script, call, out, streamVars>>
-----------------------------------------------------------------------------
(* MultiMessageIterator.NextInto.  Until all iterators are loaded, a call  *)
(* starts with the first one.                                              *)

streamOnly == <<readerVars, sampleVars, script, call, at, status, out>>

NextInto ==
  /\ phase = "stream"
  /\ phase' = IF loaded THEN "pop" ELSE "pull"
  /\ pulling' = IF loaded THEN 0 ELSE 1
  /\ result' = "none"
  /\ UNCHANGED <<streamOnly, subs, bufs, heap, loaded, popped, delivered, failures>>

(* Mutant: the bytes are those the buffer holds when the call returns. *)
ReturnedLate(p) == [name |-> p.entry.name, ts |-> p.entry.ts, n |-> bufs'[p.entry.sub], sub |-> p.entry.sub]

Returned(p) == [name |-> p.entry.name, ts |-> p.entry.ts, n |-> p.n, sub |-> p.entry.sub]

Answered ==
  \/ /\ ~loaded /\ pulling < N
     /\ pulling' = pulling + 1
     /\ UNCHANGED <<phase, loaded, popped, delivered, result>>
  \/ /\ ~loaded /\ pulling = N
     /\ loaded' = TRUE /\ pulling' = 0 /\ phase' = "pop"
     /\ UNCHANGED <<popped, delivered, result>>
  \/ /\ loaded
     /\ delivered' = Append(delivered, Returned(popped))
     /\ popped' = NoEntry /\ pulling' = 0 /\ phase' = "stream" /\ result' = "message"
     /\ UNCHANGED loaded

(* The groups whose message an iterator may give next. *)
NextOf(i) ==
  LET left == {g \in DOMAIN subs[i] : subs[i][g] # <<>>}
  IN  {g \in left : \A h \in left : Key(Head(subs[i][g]).ts) <= Key(Head(subs[i][h]).ts)}

Pull ==
  /\ phase = "pull"
  /\ \E g \in NextOf(pulling) :
       LET m == Head(subs[pulling][g])
       IN  /\ subs' = [subs EXCEPT ![pulling][g] = Tail(@)]
           /\ bufs' = [bufs EXCEPT ![pulling] = m.n]
           /\ heap' = Pushed(heap, [key |-> Key(m.ts), ts |-> m.ts, name |-> m.name, sub |-> pulling])
  /\ Answered
  /\ UNCHANGED <<streamOnly, failures>>

PullEof ==
  /\ phase = "pull" /\ NextOf(pulling) = {}
  /\ Answered
  /\ UNCHANGED <<streamOnly, subs, bufs, heap, failures>>

(* The popped entry is lost; the iterator that failed may have lost the    *)
(* rest of a group.                                                        *)
PullFails ==
  /\ phase = "pull" /\ failures < MaxFailures
  /\ \/ UNCHANGED subs
     \/ \E g \in NextOf(pulling) : subs' = [subs EXCEPT ![pulling][g] = <<>>]
  /\ popped' = NoEntry /\ pulling' = 0 /\ phase' = "stream" /\ result' = "error" /\ failures' = failures + 1
  /\ UNCHANGED <<streamOnly, bufs, heap, loaded, delivered>>

Pop ==
  /\ phase = "pop" /\ heap # <<>>
  /\ popped' = [entry |-> Head(heap), n |-> bufs[Head(heap).sub]]
  /\ heap' = Popped(heap)
  /\ pulling' = Head(heap).sub /\ phase' = "pull"
  /\ UNCHANGED <<streamOnly, subs, bufs, loaded, delivered, result, failures>>

(* io.EOF, after which the caller is done with the iterator. *)
Eof ==
  /\ phase = "pop" /\ heap = <<>>
  /\ result' = "eof" /\ phase' = "idle" /\ status' = "ok"
  /\ UNCHANGED <<readerVars, sampleVars, script, call, at, out>>
  /\ UNCHANGED <<subs, bufs, heap, loaded, pulling, popped, delivered, failures>>
-----------------------------------------------------------------------------
(* No more calls, or the process is gone. *)
Over == ((phase = "idle" /\ script = <<>>) \/ step = "panic") /\ UNCHANGED vars

Next ==
  \/ CallStarts \/ Loading \/ LoadFails \/ Summary
  \/ BoundsOf \/ CheckSample \/ CheckRead
  \/ Dispatch \/ Sample \/ Engine \/ EngineFails \/ EngineDone
  \/ Open \/ OpenFails
  \/ NextInto \/ Pull \/ PullEof \/ PullFails \/ Pop \/ Eof
  \/ Over

Spec == Init /\ [][Next]_vars
-----------------------------------------------------------------------------
(* Every variable has its type, the cursors are within what they walk, and *)
(* the engine is called with files and queries it is made for.             *)
TypeOK ==
  /\ step \in {"size", "tail", "rest", "ready", "failed", "panic"}
  /\ phase \in {"idle", "summary", "sample", "bounds", "open", "check", "dispatch", "engine",
               "stream", "pull", "pop"}
  /\ status \in {"none", "ok", "refused", "overlap", "error"}
  /\ at \in 1 .. N + 1 /\ (at > N => phase \in {"dispatch", "idle"})
  /\ \A r \in 1 .. N : /\ readers[r].size \in {0, disk[r].size}
                       /\ readers[r].rename \in {"none", "ok", "clash"}
                       /\ readers[r].bounded => readers[r].summary # NoSummary /\ readers[r].rename = "ok"
  /\ phase \in {"check", "dispatch", "engine"} => \A r \in 1 .. N :
       call.op # "sample" => readers[r].bounded
  /\ stage \in {"start", "wave", "index", "walk", "data", "done", "failed"}
  /\ phase = "engine" => Sampleable(file) /\ Askable(file, specs)
  /\ \A x \in Cells : /\ pending[x] \in 0 .. Len(ChunksOf(x))
                      /\ resolved[x].chunk \in 0 .. Len(ChunksOf(x))
  /\ pulling \in 0 .. N /\ (phase = "pull" <=> pulling # 0)
  /\ phase \in {"stream", "pull", "pop"} => Len(subs) = N
  /\ \A k \in DOMAIN heap : heap[k].sub \in 1 .. N

(* The messages of a Reader under an exposed name, in the order they were  *)
(* written, each with its chunk and place; and the last one up to a time.  *)
Places(r, name) ==
  FlattenSeq([g \in DOMAIN Groups(r) |->
    FlattenSeq([i \in DOMAIN Groups(r)[g].chunks |->
      LET c == Groups(r)[g].chunks[i]
      IN  SelectSeq([k \in DOMAIN c.msgs |-> [c |-> c, k |-> k, m |-> c.msgs[k]]],
                    LAMBDA p : Exposed(r, p.m.id) = name)])])
UntilT(r, name, limit) == SelectSeq(Places(r, name), LAMBDA p : p.m.ts <= limit)
Own(m) == {<<m.n, x>> : x \in 0 .. m.len - 1}
OffsetShared(p) == \E j \in DOMAIN p.c.data : j # p.k /\ p.c.data[j].at = p.c.data[p.k].at

Sampled == phase = "idle" /\ status = "ok" /\ call.op \in {"sample", "multiSample"}
Asking == IF call.op = "sample" THEN {call.reader} ELSE 1 .. N
AllExposed == \A i \in DOMAIN call.queries : \E r \in Asking : \E n \in Names(r) :
                 Exposed(r, n) = call.queries[i].topic
Name(x) == call.queries[x[1]].topic
Limit(x) == call.queries[x[1]].ts[x[2]]

(* A sample is the floor over all Readers that were asked: it is found if  *)
(* and only if one of them has a message of the topic that is not after    *)
(* the timestamp, no such message is later, and it has its own bytes - but *)
(* for messages that share their offset with one of no bytes.  So it is    *)
(* after failed calls and whatever is cached, for every exposed name.      *)
UnionFloor ==
  Sampled /\ AllExposed => \A x \in OutCells :
    LET until(r) == UntilT(r, Name(x), Limit(x))
        holders == {r \in Asking : until(r) # <<>>}
    IN  /\ out[x].found <=> holders # {}
        /\ out[x].found =>
             /\ \A r \in holders : Last(until(r)).m.ts <= out[x].ts
             /\ \E r \in holders :
                  LET p == Last(until(r))
                  IN  /\ p.m.ts = out[x].ts
                      /\ out[x].video \/ OffsetShared(p) \/ out[x].bytes = Own(p.m)

(* What a decoder has been fed since its last reset when it is handed the  *)
(* frames of a row up to a cell.                                           *)
Fed(x) ==
  LET row == {y \in OutCells : y[1] = x[1] /\ y[2] <= x[2] /\ out[y].found}
      from == Max({0} \cup {y[2] : y \in {z \in row : out[z].reset}})
  IN  IF from = 0 THEN <<>>
      ELSE FlattenSeq([j \in 1 .. x[2] + 1 - from |-> out[<<x[1], from + j - 1>>].frames])

(* Rows of a video can be decoded: at every hit the decoder has been fed,  *)
(* since its last reset, the frames from the key frame to the floor, each  *)
(* once, in order and with its bytes.  This includes rows that move from   *)
(* one Reader to another.                                                  *)
RowsDecode ==
  Sampled /\ AllExposed => \A x \in OutCells :
    out[x].found /\ out[x].video => \E r \in Asking :
      LET until == UntilT(r, Name(x), Limit(x))
          key == Max({0} \cup {k \in DOMAIN until : until[k].m.key})
          gop == SubSeq(until, key, Len(until))
      IN  /\ until # <<>> /\ key # 0
          /\ Last(until).m.ts = out[x].ts
          /\ Fed(x) = [k \in DOMAIN gop |-> [ts |-> gop[k].m.ts, key |-> gop[k].m.key,
                                             bytes |-> Own(gop[k].m)]]

(* A remap under which two topics of a file collapse is refused by every   *)
(* call, the second one too, that needs the file.                          *)
CollisionRefused ==
  (phase = "idle" /\ status = "ok") \/ phase = "stream" =>
    \A r \in IF call.op \in {"summary", "sample"} THEN {call.reader} ELSE 1 .. N :
      \A a, b \in Names(r) : Exposed(r, a) = Exposed(r, b) => a = b

PassesThrough(r) ==
  \E name \in call.topics \cap Names(r) : \A n \in Names(r) : Exposed(r, n) # name
Expected(i, g, id) ==
  LET all == Written(i, g)
      mine == Picked(all, {k \in DOMAIN all : all[k].id = id})
      name == Exposed(i, id)
  IN  IF call.topics # {} /\ name \notin call.topics THEN <<>>
      ELSE [k \in DOMAIN mine |-> [name |-> name, ts |-> mine[k].ts, n |-> mine[k].n, sub |-> i]]
FromSub(i, name) ==
  Picked(delivered, {k \in DOMAIN delivered : delivered[k].sub = i /\ delivered[k].name = name})
Begins(s, t) == Len(s) <= Len(t) /\ \A k \in DOMAIN s : s[k] = t[k]

(* The merged stream is in time order, whatever fails.  As long as nothing *)
(* failed it has every message once, of every Reader and topic that was    *)
(* asked for by its exposed name and no other, in the order it was written *)
(* and with its own bytes, and at io.EOF none is missing - but for a name  *)
(* that passes through to a topic with another exposed name.               *)
MergedInOrder ==
  /\ \A k \in 1 .. Len(delivered) - 1 : Key(delivered[k].ts) <= Key(delivered[k + 1].ts)
  /\ failures = 0 => \A i \in 1 .. N : ~PassesThrough(i) =>
       \A g \in DOMAIN Groups(i) : \A id \in Groups(i)[g].ids :
         /\ Begins(FromSub(i, Exposed(i, id)), Expected(i, g, id))
         /\ result = "eof" => FromSub(i, Exposed(i, id)) = Expected(i, g, id)

(* The call covers the name, and a Reader has video under it. *)
VideoInScope(name) ==
  /\ name \in ReadScope
  /\ \E r \in 1 .. N : \E g \in DOMAIN Groups(r) :
       /\ Groups(r)[g].video /\ Groups(r)[g].chunks # <<>>
       /\ \E id \in Groups(r)[g].ids : Exposed(r, id) = name

(* With WithVideoDecodable the frames of a topic that the call covers do   *)
(* not come from two Readers in turn, whatever fails.                      *)
VideoNotInterleaved ==
  call.videoDecodable => \A i, j, k \in DOMAIN delivered :
    /\ i < j /\ j < k
    /\ delivered[i].name = delivered[j].name /\ delivered[j].name = delivered[k].name
    /\ delivered[i].sub = delivered[k].sub
    /\ VideoInScope(delivered[i].name)
    => delivered[j].sub = delivered[i].sub

(* Comment on ReadMessages: "Unknown names pass through and simply match   *)
(* nothing."                                                               *)
UnknownMatchesNothing ==
  call.topics # {} => \A k \in DOMAIN delivered : delivered[k].name \in call.topics
=============================================================================
