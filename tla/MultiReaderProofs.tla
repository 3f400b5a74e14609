------------------------- MODULE MultiReaderProofs -------------------------
(***************************************************************************)
(* For all sessions: the summary that a Reader keeps is the one its file   *)
(* ends with; no call succeeds on a file two topics of which have the same *)
(* exposed name; the merged stream is in time order, without loss, copies  *)
(* or foreign bytes as long as nothing fails; the files of a video are     *)
(* streamed one after the other; and whatever file and queries a call      *)
(* hands to the sampling engine, the floor it finds is the last message    *)
(* until the target, found with waves that go down.                        *)
(*                                                                         *)
(* The first is about one Reader at a time: while it loads, step tells     *)
(* what is known of its size and footer.  The second is about the order in *)
(* which a call visits the Readers: the ones it has passed are clean, and  *)
(* so is every one whose prepareRename said yes, in this call or before.   *)
(* The others follow a message through the merge: what an iterator was     *)
(* asked for is, in this order, with the caller, popped, in the heap and   *)
(* in the iterator's own lists, and time does not go back on the way.      *)
(* The last need what a call has made sure of before the engine runs: the  *)
(* names it asks for are in the summary that it read, each once.           *)
(***************************************************************************)
EXTENDS MultiReader, OrderLemmas, SequenceTheorems, TLAPS

(* The cursor stops after the values that are not above the limit. *)
LEMMA UptoStops ==
  ASSUME NEW times \in Seq(Int), Ascending(times), NEW limit \in Int
  PROVE  /\ Upto(times, limit) \in 0 .. Len(times)
         /\ \A j \in DOMAIN times : times[j] <= limit <=> j <= Upto(times, limit)
<1> DEFINE S == {n \in 0 .. Len(times) : n < Len(times) => times[n + 1] > limit}
           Stops(n) == /\ \A j \in 1 .. n : times[j] <= limit
                       /\ n < Len(times) => times[n + 1] > limit
<1>1. PICK m \in S : \A n \in S : m <= n
  <2>1. Len(times) \in S /\ S \subseteq Int /\ (\A n \in S : 0 <= n) /\ 0 \in Int OBVIOUS
  <2> HIDE DEF S
  <2>2. S # {} BY <2>1
  <2>3. \E m \in S : \A n \in S : m <= n BY <2>1, <2>2, LeastExists
  <2> QED BY <2>3
<1>2. Stops(m)
  <2>1. ASSUME NEW j \in 1 .. m PROVE times[j] <= limit
    <3>1. j - 1 \in 0 .. Len(times) /\ j - 1 \notin S BY <1>1
    <3>2. j - 1 < Len(times) /\ ~(times[j - 1 + 1] > limit) BY <3>1
    <3>3. j \in 1 .. Len(times) /\ j - 1 + 1 = j BY <1>1
    <3>4. times[j] \in Int BY <3>3
    <3> QED BY <3>2, <3>3, <3>4
  <2> QED BY <1>1, <2>1
<1>3. /\ Upto(times, limit) \in 0 .. Len(times)
      /\ Stops(Upto(times, limit))
  BY <1>1, <1>2 DEF Upto
<1> DEFINE u == Upto(times, limit)
<1>4. ASSUME NEW j \in DOMAIN times, j > u PROVE times[j] > limit
  <2>1. /\ u + 1 \in DOMAIN times /\ u + 1 <= j /\ u < Len(times)
        /\ times[u + 1] \in Int /\ times[j] \in Int
    BY <1>3, <1>4
  <2>2. times[u + 1] <= times[j] BY <2>1 DEF Ascending
  <2> QED BY <1>3, <2>1, <2>2
<1>5. ASSUME NEW j \in DOMAIN times, j <= u PROVE times[j] <= limit
  BY <1>3, <1>5
<1>6. \A j \in DOMAIN times : times[j] \in Int /\ j \in Int OBVIOUS
<1> HIDE DEF u
<1>7. u \in Int BY <1>3 DEF u
<1> QED BY <1>3, <1>4, <1>5, <1>6, <1>7 DEF u
-----------------------------------------------------------------------------
(* What the arguments of a call are, and what is then known of a cell. *)
Arguments == Sampleable(file) /\ Askable(file, specs)

LEMMA CellKnown ==
  ASSUME Arguments, NEW x \in Cells
  PROVE  /\ GroupOf(x) \in DOMAIN file /\ file[GroupOf(x)] \in Group
         /\ ChunksOf(x) \in Seq(Chunk)
         /\ T(x) \in Int /\ Id(x) \in Nat
<1>1. specs \in Seq([id : Nat, ts : Seq(Int)]) /\ file \in Seq(Group)
  BY DEF Arguments, Sampleable, Askable
<1>2. x[1] \in DOMAIN specs /\ x[2] \in DOMAIN specs[x[1]].ts
  <2>1. PICK q \in DOMAIN specs : x \in {<<q, j>> : j \in DOMAIN specs[q].ts}
    BY DEF Cells
  <2>2. PICK j \in DOMAIN specs[q].ts : x = <<q, j>> BY <2>1
  <2>3. x[1] = q /\ x[2] = j BY <2>2
  <2> QED BY <2>3
<1>3. specs[x[1]] \in [id : Nat, ts : Seq(Int)]
  <2> DEFINE Ask == [id : Nat, ts : Seq(Int)]
  <2>1. \A q \in DOMAIN specs : specs[q] \in Ask
    <3>1. specs \in Seq(Ask) BY <1>1
    <3> HIDE DEF Ask
    <3> QED BY <3>1
  <2> QED BY <1>2, <2>1
<1>4. specs[x[1]].id \in Nat /\ specs[x[1]].ts \in Seq(Int)
  BY <1>3
<1>5. T(x) \in Int /\ Id(x) \in Nat
  <2> DEFINE s == specs[x[1]].ts
  <2>1. s \in Seq(Int) /\ x[2] \in DOMAIN s BY <1>2, <1>4
  <2> HIDE DEF s
  <2>2. \A j \in DOMAIN s : s[j] \in Int BY <2>1
  <2>3. s[x[2]] \in Int BY <2>1, <2>2
  <2> QED BY <1>4, <2>3 DEF s, T, Id
<1>6. \E g \in DOMAIN file : Id(x) \in file[g].ids
  BY <1>2 DEF Arguments, Askable, Id
<1>7. GroupOf(x) \in DOMAIN file
  BY <1>6 DEF GroupOf
<1>8. file[GroupOf(x)] \in Group
  BY <1>1, <1>7
<1>9. file[GroupOf(x)].chunks \in Seq(Chunk)
  BY <1>8 DEF Group
<1> QED BY <1>5, <1>7, <1>8, <1>9 DEF ChunksOf

LEMMA StartsAscend ==
  ASSUME Arguments, NEW x \in Cells
  PROVE  /\ Starts(ChunksOf(x)) \in Seq(Int) /\ Ascending(Starts(ChunksOf(x)))
         /\ Len(Starts(ChunksOf(x))) = Len(ChunksOf(x))
         /\ \A d \in DOMAIN ChunksOf(x) : Starts(ChunksOf(x))[d] = ChunksOf(x)[d].start
<1>1. ChunksOf(x) \in Seq(Chunk) /\ GroupOf(x) \in DOMAIN file BY CellKnown
<1>2. Ascending(Starts(ChunksOf(x)))
  BY <1>1 DEF Arguments, Sampleable, ChunksOf
<1> DEFINE cs == ChunksOf(x)
<1>3. cs \in Seq(Chunk) BY <1>1
<1> HIDE DEF cs
<1>4. \A d \in 1 .. Len(cs) : cs[d].start \in Int
  <2> SUFFICES ASSUME NEW d \in 1 .. Len(cs) PROVE cs[d].start \in Int OBVIOUS
  <2>1. cs[d] \in Chunk BY <1>3
  <2> QED BY <2>1 DEF Chunk
<1>5. /\ Starts(cs) = [d \in 1 .. Len(cs) |-> cs[d].start]
      /\ Len(cs) \in Nat /\ DOMAIN cs = 1 .. Len(cs)
  BY <1>3 DEF Starts
<1>6. Starts(cs) \in Seq(Int) /\ Len(Starts(cs)) = Len(cs)
  BY <1>4, <1>5
<1> QED BY <1>2, <1>5, <1>6 DEF cs

(* The index of a topic in a chunk: its messages, in the order of their    *)
(* timestamps and not before the chunk, and its key frames.                *)
LEMMA IndexKnown ==
  ASSUME Arguments, NEW x \in Cells, NEW c \in DOMAIN ChunksOf(x)
  PROVE  /\ IndexIn(x, c) \in TopicIndex
         /\ Ascending(Stamps(Entries(x, c))) /\ Ascending(IndexIn(x, c).keys)
         /\ \A k \in DOMAIN Entries(x, c) : ChunksOf(x)[c].start <= Entries(x, c)[k].ts
         /\ file[GroupOf(x)].video /\ Entries(x, c) # <<>> =>
              IndexIn(x, c).keys # <<>> /\ IndexIn(x, c).keys[1] = 0
<1> DEFINE g == GroupOf(x)
           chunk == ChunksOf(x)[c]
           here == {t \in ToSet(chunk.topics) : t.id = Id(x)}
<1>1. g \in DOMAIN file /\ ChunksOf(x) \in Seq(Chunk) /\ Id(x) \in Nat BY CellKnown
<1>2. chunk \in Chunk BY <1>1
<1>3. chunk.topics \in Seq(TopicIndex) BY <1>2 DEF Chunk
<1>4. CASE here = {}
  <2>1. IndexIn(x, c) = [id |-> Id(x), msgs |-> <<>>, keys |-> <<>>] BY <1>4 DEF IndexIn
  <2>2. Entries(x, c) = <<>> /\ IndexIn(x, c).keys = <<>> BY <2>1 DEF Entries
  <2>3. Stamps(<<>>) = <<>> BY DEF Stamps
  <2>4. Ascending(<<>>) BY DEF Ascending
  <2>5. IndexIn(x, c) \in TopicIndex BY <1>1, <2>1 DEF TopicIndex
  <2> QED BY <2>2, <2>3, <2>4, <2>5
<1>5. CASE here # {}
  <2>1. IndexIn(x, c) \in here BY <1>5 DEF IndexIn
  <2>2. IndexIn(x, c) \in ToSet(chunk.topics) BY <2>1
  <2>3. IndexIn(x, c) \in TopicIndex BY <1>3, <2>2 DEF ToSet
  <2>4. chunk \in ToSet(file[g].chunks) BY <1>1 DEF ToSet, ChunksOf
  <2> DEFINE t == IndexIn(x, c)
  <2>5. /\ Ascending(Stamps(t.msgs)) /\ Ascending(t.keys)
        /\ \A k \in DOMAIN t.msgs : chunk.start <= t.msgs[k].ts
        /\ file[g].video => t.keys # <<>> /\ t.keys[1] = 0
    BY <1>1, <2>2, <2>4 DEF Arguments, Sampleable
  <2> QED BY <2>3, <2>5 DEF Entries
<1> QED BY <1>4, <1>5

(* Where the message of a pending cell is in its candidate; a frame that   *)
(* is found has a key frame.                                               *)
LEMMA TargetKnown ==
  ASSUME Arguments, NEW x \in Cells, pending[x] \in DOMAIN ChunksOf(x)
  PROVE  /\ Target(x) \in 0 .. Len(Entries(x, pending[x]))
         /\ \A k \in DOMAIN Entries(x, pending[x]) : Within(x, pending[x], k) <=> k <= Target(x)
         /\ DOMAIN Entries(x, pending[x]) = 1 .. Len(Entries(x, pending[x]))
         /\ Len(Entries(x, pending[x])) \in Nat
         /\ IsVideo(x) /\ Target(x) # 0 => Anchor(x) # 0
<1> DEFINE c == pending[x]
           msgs == Entries(x, c)
           keys == IndexIn(x, c).keys
           Stamped == [ts : Int, off : Nat]
<1>1. /\ IndexIn(x, c) \in TopicIndex
      /\ Ascending(Stamps(msgs)) /\ Ascending(keys)
      /\ file[GroupOf(x)].video /\ msgs # <<>> => keys # <<>> /\ keys[1] = 0
  BY IndexKnown
<1>2. T(x) \in Int BY CellKnown
<1>3. keys \in Seq(Int) /\ msgs \in Seq(Stamped)
  <2>1. keys \in Seq(Nat) /\ msgs \in Seq(Stamped) BY <1>1 DEF TopicIndex, Entries
  <2> HIDE DEF keys, Stamped
  <2> QED BY <2>1
<1>4. Target(x) = Upto(Stamps(msgs), T(x)) /\ Within(x, c, 1) = (msgs[1].ts <= T(x))
  BY DEF Target, Within
<1> HIDE DEF msgs, keys, Stamped
<1>5. /\ Stamps(msgs) \in Seq(Int) /\ Len(Stamps(msgs)) = Len(msgs)
      /\ DOMAIN msgs = 1 .. Len(msgs) /\ DOMAIN Stamps(msgs) = DOMAIN msgs /\ Len(msgs) \in Nat
      /\ \A k \in DOMAIN msgs : Stamps(msgs)[k] = msgs[k].ts
  <2>1. \A k \in 1 .. Len(msgs) : msgs[k].ts \in Int
    <3> SUFFICES ASSUME NEW k \in 1 .. Len(msgs) PROVE msgs[k].ts \in Int OBVIOUS
    <3>1. msgs[k] \in Stamped BY <1>3
    <3> QED BY <3>1 DEF Stamped
  <2>2. Stamps(msgs) = [k \in 1 .. Len(msgs) |-> msgs[k].ts] /\ Len(msgs) \in Nat
    BY <1>3 DEF Stamps
  <2> QED BY <1>3, <2>1, <2>2
<1>6. /\ Target(x) \in 0 .. Len(msgs)
      /\ \A k \in DOMAIN msgs : Stamps(msgs)[k] <= T(x) <=> k <= Target(x)
  BY <1>1, <1>2, <1>4, <1>5, UptoStops
<1>7. \A k \in DOMAIN msgs : Within(x, c, k) <=> k <= Target(x)
  BY <1>5, <1>6 DEF Within, msgs
<1>8. ASSUME IsVideo(x), Target(x) # 0 PROVE Anchor(x) # 0
  <2> DEFINE n == Upto(keys, Target(x) - 1)
  <2>1. keys # <<>> /\ keys[1] = 0
    BY <1>1, <1>5, <1>6, <1>8 DEF IsVideo
  <2>2. /\ n \in 0 .. Len(keys)
        /\ \A j \in DOMAIN keys : keys[j] <= Target(x) - 1 <=> j <= n
    <3> DEFINE limit == Target(x) - 1
    <3>1. limit \in Int /\ keys \in Seq(Int) /\ Ascending(keys) BY <1>1, <1>3, <1>5, <1>6
    <3> HIDE DEF limit
    <3>2. /\ Upto(keys, limit) \in 0 .. Len(keys)
          /\ \A j \in DOMAIN keys : keys[j] <= limit <=> j <= Upto(keys, limit)
      BY <3>1, UptoStops
    <3> QED BY <3>2 DEF limit
  <2>3. n # 0 BY <1>3, <1>6, <1>8, <2>1, <2>2
  <2>4. Anchor(x) = keys[n] + 1 BY <2>3 DEF Anchor, keys
  <2>5. keys[n] \in Nat
    <3>1. keys \in Seq(Nat) BY <1>1 DEF keys, TopicIndex
    <3> HIDE DEF n
    <3> QED BY <2>2, <2>3, <3>1
  <2> HIDE DEF n
  <2> QED BY <2>4, <2>5
<1> QED BY <1>5, <1>6, <1>7, <1>8 DEF msgs
-----------------------------------------------------------------------------
(* FloorResolved of one cell, with candidate p and result r. *)
Settled(x, p, r) ==
  LET c == IF p # 0 THEN p ELSE r.chunk
  IN  /\ \A d \in DOMAIN ChunksOf(x) : d > c => AllAfter(x, d)
      /\ r # NotFound =>
           /\ p = 0 /\ c \in DOMAIN ChunksOf(x)
           /\ r.target \in DOMAIN Entries(x, c)
           /\ \A k \in DOMAIN Entries(x, c) : Within(x, c, k) <=> k <= r.target

AllSettled == \A x \in Cells : Settled(x, pending[x], resolved[x])

(* What phase A maintains: a candidate is a chunk of the cell's group, is  *)
(* in the cache when the cells are looked up, and there is one then.       *)
PhaseAInv ==
  /\ Arguments
  /\ pending \in [Cells -> Int] /\ \A x \in Cells : pending[x] \in 0 .. Len(ChunksOf(x))
  /\ stage = "start" => \A x \in Cells : resolved[x] = NotFound
  /\ stage \in {"index", "walk"} => Pending # {}
  /\ stage = "walk" => \A x \in Pending : KeyOf(x) \in cached
  /\ stage # "start" => AllSettled

LEMMA SettledCells == ASSUME PhaseAInv PROVE FloorResolved
  BY DEF PhaseAInv, FloorResolved, AllSettled, Settled

(* A call never changes its arguments, nor what is known from them. *)
LEMMA SameCells ==
  ASSUME UNCHANGED arguments
  PROVE  /\ Arguments => Arguments'
         /\ Cells' = Cells
         /\ \A x \in Cells : /\ ChunksOf(x)' = ChunksOf(x) /\ GroupOf(x)' = GroupOf(x)
                             /\ T(x)' = T(x) /\ \A c : Entries(x, c)' = Entries(x, c)
<1>1. file' = file /\ specs' = specs BY DEF arguments
<1>2. Cells' = Cells BY <1>1 DEF Cells
<1>3. Arguments => Arguments' BY <1>1 DEF Arguments
<1>4. ASSUME NEW x \in Cells PROVE GroupOf(x)' = GroupOf(x) BY <1>1 DEF GroupOf, Id
<1>5. ASSUME NEW x \in Cells PROVE ChunksOf(x)' = ChunksOf(x) BY <1>1, <1>4 DEF ChunksOf
<1>6. ASSUME NEW x \in Cells, NEW c PROVE Entries(x, c)' = Entries(x, c)
  <2> DEFINE InChunks(chunks, id) ==
               LET here == {t \in ToSet(chunks[c].topics) : t.id = id}
               IN  IF here = {} THEN [id |-> id, msgs |-> <<>>, keys |-> <<>>] ELSE CHOOSE t \in here : TRUE
  <2>1. IndexIn(x, c) = InChunks(ChunksOf(x), Id(x)) BY DEF IndexIn
  <2>2. IndexIn(x, c)' = InChunks(ChunksOf(x)', Id(x)') BY DEF IndexIn
  <2>3. Id(x)' = Id(x) BY <1>1 DEF Id
  <2> HIDE DEF InChunks
  <2>4. IndexIn(x, c)' = IndexIn(x, c) BY <1>5, <2>1, <2>2, <2>3
  <2> QED BY <2>4 DEF Entries
<1>7. ASSUME NEW x \in Cells PROVE T(x)' = T(x) BY <1>1 DEF T
<1> QED BY <1>2, <1>3, <1>4, <1>5, <1>6, <1>7

LEMMA SettledNext ==
  ASSUME UNCHANGED arguments, \A x \in Cells : Settled(x, pending'[x], resolved'[x])
  PROVE  AllSettled'
  BY SameCells DEF AllSettled, Settled, AllAfter, Within
-----------------------------------------------------------------------------
LEMMA ChunksCounted == Arguments => \A x \in Cells : Len(ChunksOf(x)) \in Nat
BY CellKnown

LEMMA ChunksCountedNext == (Arguments => \A x \in Cells : Len(ChunksOf(x)) \in Nat)'
BY ChunksCounted, PTL

LEMMA StartInv ==
  ASSUME Arguments', stage' = "start",
         pending' = [x \in Cells' |-> 0], resolved' = [x \in Cells' |-> NotFound]
  PROVE  PhaseAInv'
<1>1. \A x \in Cells' : Len(ChunksOf(x)') \in Nat BY ChunksCountedNext
<1> QED BY <1>1 DEF PhaseAInv, NotFound

(* The first candidate starts by then, and the chunks after it do not. *)
LEMMA AssignInv == ASSUME PhaseAInv, Assign PROVE PhaseAInv'
<1>1. Arguments /\ UNCHANGED arguments /\ stage' = "wave" /\ resolved' = resolved
  BY DEF PhaseAInv, Assign
<1>2. pending' = [x \in Cells |-> Upto(Starts(ChunksOf(x)), T(x))] BY DEF Assign
<1>3. ASSUME NEW x \in Cells
      PROVE  /\ pending'[x] \in 0 .. Len(ChunksOf(x))
             /\ Settled(x, pending'[x], resolved'[x])
  <2> DEFINE p == pending'[x]
  <2>1. /\ ChunksOf(x) \in Seq(Chunk) /\ T(x) \in Int
        /\ Starts(ChunksOf(x)) \in Seq(Int) /\ Ascending(Starts(ChunksOf(x)))
        /\ Len(Starts(ChunksOf(x))) = Len(ChunksOf(x))
        /\ \A d \in DOMAIN ChunksOf(x) : Starts(ChunksOf(x))[d] = ChunksOf(x)[d].start
    BY <1>1, CellKnown, StartsAscend
  <2>2. p = Upto(Starts(ChunksOf(x)), T(x)) BY <1>2
  <2>3. /\ p \in 0 .. Len(ChunksOf(x))
        /\ \A d \in DOMAIN Starts(ChunksOf(x)) : Starts(ChunksOf(x))[d] <= T(x) <=> d <= p
    BY <2>1, <2>2, UptoStops
  <2>4. resolved'[x] = NotFound BY <1>1 DEF PhaseAInv, Assign
  <2>5. ASSUME NEW d \in DOMAIN ChunksOf(x), d > p PROVE AllAfter(x, d)
    <3>1. d \in DOMAIN Starts(ChunksOf(x)) /\ d \in Int /\ p \in Int BY <2>1, <2>3
    <3>2. ~(ChunksOf(x)[d].start <= T(x)) BY <2>1, <2>3, <2>5, <3>1
    <3> SUFFICES ASSUME NEW k \in DOMAIN Entries(x, d) PROVE ~Within(x, d, k) BY DEF AllAfter
    <3>3. ChunksOf(x)[d].start <= Entries(x, d)[k].ts BY <1>1, IndexKnown
    <3>4. ChunksOf(x)[d].start \in Int /\ Entries(x, d)[k].ts \in Int
      <4>1. ChunksOf(x)[d] \in Chunk BY <2>1
      <4> DEFINE Stamped == [ts : Int, off : Nat]
      <4>2. IndexIn(x, d) \in TopicIndex BY <1>1, IndexKnown
      <4>3. Entries(x, d) \in Seq(Stamped) BY <4>2 DEF TopicIndex, Entries
      <4> HIDE DEF Stamped
      <4>4. Entries(x, d)[k] \in Stamped BY <4>3
      <4> QED BY <4>1, <4>4 DEF Chunk, Stamped
    <3> QED BY <2>1, <3>2, <3>3, <3>4 DEF Within
  <2> HIDE DEF p
  <2>6. Settled(x, p, NotFound) BY <2>3, <2>5 DEF Settled, NotFound
  <2> QED BY <2>3, <2>4, <2>6 DEF p
<1>4. AllSettled' BY <1>1, <1>3, SettledNext
<1>5. pending' \in [Cells -> Int]
  <2>1. \A x \in Cells : pending'[x] \in Int BY <1>3
  <2> QED BY <1>2, <2>1
<1> QED BY <1>1, <1>3, <1>4, <1>5, SameCells DEF PhaseAInv

(* The actions that leave the cells alone. *)
LEMMA OtherInv ==
  ASSUME PhaseAInv, UNCHANGED <<arguments, pending, resolved>>,
         stage # "start" \/ stage' = "start",
         stage' \in {"index", "walk"} => Pending # {},
         stage' = "walk" => \A x \in Pending : KeyOf(x) \in cached',
         stage' = "start" => stage = "start"
  PROVE  PhaseAInv'
<1>1. UNCHANGED arguments /\ pending' = pending /\ resolved' = resolved OBVIOUS
<1>2. /\ Arguments' /\ Cells' = Cells
      /\ \A x \in Cells : ChunksOf(x)' = ChunksOf(x) /\ GroupOf(x)' = GroupOf(x)
  BY <1>1, SameCells DEF PhaseAInv
<1>3. Pending' = Pending BY <1>1, <1>2 DEF Pending
<1>4. \A x \in Pending : KeyOf(x)' = KeyOf(x) BY <1>1, <1>2 DEF KeyOf, Pending
<1>5. stage' # "start" => AllSettled'
  <2> SUFFICES ASSUME stage' # "start" PROVE AllSettled' OBVIOUS
  <2>1. \A x \in Cells : Settled(x, pending'[x], resolved'[x]) BY <1>1 DEF PhaseAInv, AllSettled
  <2> QED BY <1>1, <2>1, SettledNext
<1> QED BY <1>1, <1>2, <1>3, <1>4, <1>5 DEF PhaseAInv

(* Walk, for one cell: it is resolved, or its candidate is passed by. *)
LEMMA WalkCell ==
  ASSUME PhaseAInv, stage = "walk", NEW x \in Cells
  PROVE  /\ FallBack(x) \in 0 .. Len(ChunksOf(x))
         /\ Settled(x, FallBack(x), Resolve(x))
         /\ FallBack(x) < pending[x] \/ (pending[x] = 0 /\ FallBack(x) = 0)
<1>1. /\ Arguments /\ pending[x] \in 0 .. Len(ChunksOf(x))
      /\ Settled(x, pending[x], resolved[x])
  BY DEF PhaseAInv, AllSettled
<1>2. ChunksOf(x) \in Seq(Chunk) /\ T(x) \in Int BY <1>1, CellKnown
<1>3. CASE pending[x] = 0
  <2>1. ~Looked(x) BY <1>3 DEF Looked
  <2> QED BY <1>1, <1>3, <2>1 DEF FallBack, Resolve
<1>4. CASE pending[x] # 0
  <2> DEFINE p == pending[x]
  <2>1. p \in DOMAIN ChunksOf(x) /\ p \in 1 .. Len(ChunksOf(x)) BY <1>1, <1>2, <1>4
  <2>2. Looked(x) BY <1>4 DEF PhaseAInv, Looked, Pending
  <2>3. resolved[x] = NotFound /\ \A d \in DOMAIN ChunksOf(x) : d > p => AllAfter(x, d)
    BY <1>1, <1>4 DEF Settled
  <2>4. /\ Target(x) \in 0 .. Len(Entries(x, p))
        /\ \A k \in DOMAIN Entries(x, p) : Within(x, p, k) <=> k <= Target(x)
        /\ DOMAIN Entries(x, p) = 1 .. Len(Entries(x, p))
        /\ Len(Entries(x, p)) \in Nat
        /\ IsVideo(x) /\ Target(x) # 0 => Anchor(x) # 0
    BY <1>1, <2>1, TargetKnown
  <2> HIDE DEF p
  <2>5. CASE Target(x) = 0
    <3>1. FallBack(x) = p - 1 /\ Resolve(x) = NotFound
      BY <2>2, <2>3, <2>5 DEF FallBack, Resolve, p
    <3>2. AllAfter(x, p) BY <2>4, <2>5 DEF AllAfter
    <3>3. \A d \in DOMAIN ChunksOf(x) : d > p - 1 => AllAfter(x, d)
      BY <1>2, <2>1, <2>3, <3>2
    <3>4. Settled(x, p - 1, NotFound) BY <2>1, <3>3 DEF Settled, NotFound
    <3> QED BY <1>4, <2>1, <3>1, <3>4 DEF p
  <2>6. CASE Target(x) # 0
    <3> DEFINE r == Resolve(x)
    <3>1. FallBack(x) = 0 /\ r.chunk = p /\ r.target = Target(x)
      BY <2>2, <2>4, <2>6 DEF FallBack, Resolve, p
    <3> HIDE DEF r
    <3>2. Settled(x, 0, r) BY <2>1, <2>3, <2>4, <2>6, <3>1 DEF Settled
    <3> QED BY <1>4, <2>1, <3>1, <3>2 DEF p, r
  <2> QED BY <2>5, <2>6
<1> QED BY <1>1, <1>3, <1>4

LEMMA WalkInv == ASSUME PhaseAInv, Walk PROVE PhaseAInv'
<1>1. /\ Arguments /\ UNCHANGED arguments /\ stage = "walk"
      /\ pending' = [x \in Cells |-> FallBack(x)] /\ resolved' = [x \in Cells |-> Resolve(x)]
  BY DEF PhaseAInv, Walk
<1>2. stage' \in {"wave", "failed"} BY DEF Walk
<1>3. \A x \in Cells : pending'[x] \in 0 .. Len(ChunksOf(x)) /\ Settled(x, pending'[x], resolved'[x])
  BY <1>1, WalkCell
<1>4. AllSettled' BY <1>1, <1>3, SettledNext
<1>5. pending' \in [Cells -> Int]
  <2>1. \A x \in Cells : pending'[x] \in Int BY <1>3
  <2> QED BY <1>1, <2>1
<1> QED BY <1>1, <1>2, <1>3, <1>4, <1>5, SameCells DEF PhaseAInv

LEMMA SampleNextInv == ASSUME PhaseAInv, [SampleNext]_sampleVars PROVE PhaseAInv'
<1>1. CASE Assign BY <1>1, AssignInv
<1>2. CASE Gather
  <2>1. Pending # {} BY <1>2 DEF Gather
  <2>2. stage' = "walk" => \A x \in Pending : KeyOf(x) \in cached'
    BY <1>2 DEF Gather, Needs
  <2>3. stage = "wave" /\ stage' # "start" /\ UNCHANGED <<arguments, pending, resolved>>
    BY <1>2 DEF Gather
  <2> QED BY <2>1, <2>2, <2>3, OtherInv
<1>3. CASE FetchIndexes
  <2>1. Pending # {} BY <1>3 DEF FetchIndexes, PhaseAInv
  <2>2. \A x \in Pending : KeyOf(x) \in cached' BY <1>3 DEF FetchIndexes, Needs
  <2>3. stage = "index" /\ stage' = "walk" /\ UNCHANGED <<arguments, pending, resolved>>
    BY <1>3 DEF FetchIndexes
  <2> QED BY <2>1, <2>2, <2>3, OtherInv
<1>4. CASE Walk BY <1>4, WalkInv
<1>5. CASE Plan BY <1>5, OtherInv DEF Plan
<1>6. CASE Materialize BY <1>6, OtherInv DEF Materialize
<1>7. CASE SampleFails BY <1>7, OtherInv DEF SampleFails
<1>8. CASE UNCHANGED sampleVars
  <2>1. UNCHANGED <<arguments, pending, resolved>> /\ stage' = stage /\ cached' = cached
    BY <1>8 DEF sampleVars, arguments
  <2> QED BY <2>1, OtherInv DEF PhaseAInv
<1> QED BY <1>1, <1>2, <1>3, <1>4, <1>5, <1>6, <1>7, <1>8 DEF SampleNext

-----------------------------------------------------------------------------
ReaderType ==
  [size : Nat, summary : [from : Int, len : Nat], rename : {"none", "ok", "clash"}, bounded : BOOLEAN]

Loads == {"summary", "sample", "bounds", "open"}
Streams == {"stream", "pull", "pop"}

Types ==
  /\ N \in Nat \ {0}
  /\ \A r \in 1 .. N : disk[r].size \in Nat /\ disk[r].summaryLen \in Nat
  /\ script \in Seq(Call) /\ \A k \in DOMAIN script : script[k].reader \in 1 .. N
  /\ call.reader \in 1 .. N /\ call.prefetch \in Int
  /\ readers \in [1 .. N -> ReaderType]
  /\ phase \in {"idle", "check", "dispatch", "engine"} \cup Loads \cup Streams
  /\ phase \in Loads \cup {"engine"} => at \in 1 .. N
  /\ phase = "dispatch" => at \in 1 .. N + 1
  /\ phase \notin Loads => step = "ready"

(* The size is that of the file once it is known, and the summary is the   *)
(* one before the footer.                                                  *)
ReadRight(r) ==
  /\ readers[r].size \in {0, disk[r].size}
  /\ readers[r].summary # NoSummary =>
       /\ disk[r].valid
       /\ readers[r].summary.from + readers[r].summary.len + FooterLen = disk[r].size
       /\ readers[r].summary.len = disk[r].summaryLen

FilesInv ==
  /\ \A r \in 1 .. N : ReadRight(r)
  /\ phase \in Loads /\ step \in {"tail", "rest"} => readers[at].size = disk[at].size
  /\ phase \in Loads /\ step = "rest" => disk[at].valid

(* No two topics of the file have the same exposed name. *)
Clean(r) == \A a, b \in Names(r) : Exposed(r, a) = Exposed(r, b) => a = b
AllClean == \A r \in 1 .. N : Clean(r)
CleanBefore(r) == \A s \in 1 .. N : s < r => Clean(s)

(* The Readers a call has passed. *)
Passed ==
  /\ phase = "summary" => call.op = "summary" /\ at = call.reader
  /\ phase = "sample" => \/ call.op = "sample" /\ at = call.reader
                         \/ call.op = "multiSample" /\ AllClean
  /\ phase = "engine" => \/ call.op = "sample" /\ at = call.reader /\ Clean(at)
                         \/ call.op = "multiSample" /\ AllClean
  /\ phase = "bounds" => call.op \in {"multiSample", "read"} /\ CleanBefore(at)
  /\ phase = "open" => call.op = "read" /\ CleanBefore(at)
  /\ phase = "check" => call.op \in {"multiSample", "read"} /\ AllClean
  /\ phase = "dispatch" => call.op = "multiSample" /\ AllClean
  /\ phase \in Streams => call.op = "read" /\ AllClean
  /\ phase = "idle" /\ status = "ok" =>
       IF call.op \in {"summary", "sample"} THEN Clean(call.reader) ELSE AllClean

NamesInv ==
  /\ \A r \in 1 .. N : readers[r].rename = "ok" \/ readers[r].bounded => Clean(r)
  /\ Passed

Inv == Types /\ FilesInv /\ NamesInv
-----------------------------------------------------------------------------
(* Files do not change, nor do the names of their topics. *)
LEMMA SameDisk ==
  ASSUME disk' = disk
  PROVE  N' = N /\ (AllClean' <=> AllClean) /\ \A r : (Clean(r)' <=> Clean(r)) /\ (CleanBefore(r)' <=> CleanBefore(r))
<1>1. N' = N BY DEF N
<1>2. \A r : Clean(r)' <=> Clean(r) BY DEF Clean, Names, Groups, Exposed
<1> QED BY <1>1, <1>2 DEF AllClean, CleanBefore

(* A Reader that is not refused is clean. *)
LEMMA NotRefused ==
  ASSUME Types, NamesInv, NEW r \in 1 .. N
  PROVE  /\ ~RenameFails(r) => Clean(r)
         /\ ~RenameRefused(r) => Clean(r)
<1>1. readers[r].rename \in {"none", "ok", "clash"} BY DEF Types, ReaderType
<1>2. ~RenameFails(r) => Clean(r)
  <2>1. CASE readers[r].rename # "none" BY <1>1, <2>1 DEF RenameFails, NamesInv
  <2>2. CASE readers[r].rename = "none" BY <2>2 DEF RenameFails, Clean
  <2> QED BY <2>1, <2>2
<1>3. ~HasRemap(r) => Clean(r) BY DEF HasRemap, Clean, Exposed
<1> QED BY <1>2, <1>3 DEF RenameRefused

(* What prepareRename and topicBounds change of the Readers: nothing of    *)
(* the summaries, and the new answers are right.                           *)
RenamesKnown(rs) ==
  /\ rs \in [1 .. N -> ReaderType]
  /\ \A r \in 1 .. N : /\ rs[r].size = readers[r].size /\ rs[r].summary = readers[r].summary
                       /\ rs[r].rename = "ok" \/ rs[r].bounded => Clean(r)

LEMMA ReadersKept == ASSUME Inv PROVE RenamesKnown(readers)
BY DEF Inv, Types, NamesInv, RenamesKnown

LEMMA RenamedKnown ==
  ASSUME Inv, NEW r \in 1 .. N
  PROVE  RenamesKnown(Renamed(r)) /\ RenamesKnown(AfterRename(r))
<1> DEFINE answer == IF RenameFails(r) THEN "clash" ELSE "ok"
           y == [readers[r] EXCEPT !.rename = answer]
           rs == [readers EXCEPT ![r] = y]
<1>1. readers \in [1 .. N -> ReaderType] /\ readers[r] \in ReaderType BY DEF Inv, Types
<1>2. answer \in {"none", "ok", "clash"} /\ (answer = "ok" => Clean(r))
  BY NotRefused DEF Inv
<1>3. Renamed(r) = rs BY DEF Renamed
<1> HIDE DEF answer
<1>4. /\ y \in ReaderType /\ y.size = readers[r].size /\ y.summary = readers[r].summary
      /\ y.rename = answer /\ y.bounded = readers[r].bounded
  BY <1>1, <1>2 DEF ReaderType
<1> HIDE DEF y
<1>5. rs \in [1 .. N -> ReaderType] /\ \A q \in 1 .. N : rs[q] = IF q = r THEN y ELSE readers[q]
  BY <1>1, <1>4
<1> HIDE DEF rs
<1>6. \A q \in 1 .. N : readers[q].rename = "ok" \/ readers[q].bounded => Clean(q)
  BY DEF Inv, NamesInv
<1>7. RenamesKnown(rs)
  <2> SUFFICES ASSUME NEW q \in 1 .. N
               PROVE  /\ rs[q].size = readers[q].size /\ rs[q].summary = readers[q].summary
                      /\ rs[q].rename = "ok" \/ rs[q].bounded => Clean(q)
    BY <1>5 DEF RenamesKnown
  <2>1. CASE q = r BY <1>2, <1>4, <1>5, <1>6, <2>1
  <2>2. CASE q # r BY <1>5, <1>6, <2>2
  <2> QED BY <2>1, <2>2
<1> QED BY <1>3, <1>7, ReadersKept DEF AfterRename

(* Every step but those of summaryWithHint goes to a Reader, or is at none *)
(* that loads.                                                             *)
LEMMA CallStep ==
  ASSUME Inv, disk' = disk, RenamesKnown(readers'),
         script' \in Seq(Call), \A k \in DOMAIN script' : script'[k].reader \in 1 .. N,
         call'.reader \in 1 .. N, call'.prefetch \in Int,
         \/ phase' \in Loads /\ at' \in 1 .. N /\ step' = StepFor(at')
         \/ phase' \in {"idle", "check", "dispatch", "engine"} \cup Streams /\ step' = "ready",
         phase' = "engine" => at' \in 1 .. N,
         phase' = "dispatch" => at' \in 1 .. N + 1,
         Passed'
  PROVE  Inv'
<1>1. N' = N /\ \A r : Clean(r)' <=> Clean(r) BY SameDisk
<1>2. /\ readers' \in [1 .. N -> ReaderType]
      /\ \A r \in 1 .. N : /\ readers'[r].size = readers[r].size
                           /\ readers'[r].summary = readers[r].summary
                           /\ readers'[r].rename = "ok" \/ readers'[r].bounded => Clean(r)
  BY DEF RenamesKnown
<1>3. Types' BY <1>1, <1>2 DEF Inv, Types, Loads, Streams
<1>4. \A r \in 1 .. N : ReadRight(r)' BY <1>2 DEF Inv, FilesInv, ReadRight
<1>5. ASSUME phase' \in Loads, step' \in {"tail", "rest"}
      PROVE  readers'[at'].size = disk'[at'].size /\ step' # "rest"
  <2>1. at' \in 1 .. N /\ step' = StepFor(at') BY <1>5 DEF Loads, Streams
  <2>2. readers[at'].size # 0 /\ step' = "tail" BY <1>5, <2>1 DEF StepFor
  <2>3. readers[at'].size = disk[at'].size BY <2>1, <2>2 DEF Inv, FilesInv, ReadRight
  <2> QED BY <1>2, <2>1, <2>2, <2>3
<1>6. FilesInv' BY <1>1, <1>4, <1>5 DEF FilesInv
<1>7. NamesInv' BY <1>1, <1>2 DEF NamesInv
<1> QED BY <1>3, <1>6, <1>7 DEF Inv
-----------------------------------------------------------------------------
(* summaryWithHint.  Decode keeps a summary only of a file with a footer,  *)
(* and takes it from before that footer.                                   *)
LEMMA ReadTailDecodes ==
  ASSUME Types, FilesInv, NEW r \in 1 .. N, NEW hint \in Int,
         readers[r].size = disk[r].size, readers[r].size >= FooterLen,
         Window(r, hint) >= disk[r].summaryLen + FooterLen
  PROVE  LET from == readers[r].size - Window(r, hint) + SummaryStart(Window(r, hint), disk[r].summaryLen)
         IN  from \in Int /\ from + disk[r].summaryLen + FooterLen = disk[r].size
<1> DEFINE size == disk[r].size
           len == disk[r].summaryLen
           n == Window(r, hint)
<1>1. size \in Nat /\ len \in Nat /\ FooterLen \in Nat BY DEF Types, FooterLen
<1>2. n \in Int BY <1>1 DEF Window
<1>3. SummaryStart(n, len) = n - FooterLen - len BY DEF SummaryStart
<1> HIDE DEF size, len, n
<1> QED BY <1>1, <1>2, <1>3 DEF size, len, n

LEMMA DecodeInv ==
  ASSUME Inv, phase \in Loads, UNCHANGED <<disk, callVars>>, disk[at].valid,
         NEW from \in Int, from + disk[at].summaryLen + FooterLen = disk[at].size,
         Decode(at, from, disk[at].summaryLen)
  PROVE  Inv'
<1> DEFINE len == disk[at].summaryLen
           kept == [from |-> from, len |-> len]
           y == [readers[at] EXCEPT !.summary = kept]
<1>1. /\ at \in 1 .. N /\ readers \in [1 .. N -> ReaderType] /\ readers[at] \in ReaderType
      /\ len \in Nat
  BY DEF Inv, Types
<1>2. readers' = [readers EXCEPT ![at] = y] /\ step' = "ready" BY DEF Decode
<1>3. kept \in [from : Int, len : Nat] /\ kept.from = from /\ kept.len = len BY <1>1
<1> HIDE DEF kept
<1>4. /\ y \in ReaderType /\ y.summary = kept /\ y.size = readers[at].size
      /\ y.rename = readers[at].rename /\ y.bounded = readers[at].bounded
  BY <1>1, <1>3 DEF ReaderType
<1> HIDE DEF y
<1>5. /\ readers' \in [1 .. N -> ReaderType]
      /\ \A r \in 1 .. N : readers'[r] = IF r = at THEN y ELSE readers[r]
  BY <1>1, <1>2, <1>4
<1>6. /\ script' = script /\ call' = call /\ phase' = phase /\ at' = at /\ status' = status /\ disk' = disk
  BY DEF callVars
<1>7. N' = N /\ (AllClean' <=> AllClean) /\ \A r : (Clean(r)' <=> Clean(r)) /\ (CleanBefore(r)' <=> CleanBefore(r))
  BY <1>6, SameDisk
<1>8. Types' BY <1>2, <1>5, <1>6, <1>7 DEF Inv, Types
<1>9. \A r \in 1 .. N : ReadRight(r)'
  <2> SUFFICES ASSUME NEW r \in 1 .. N PROVE ReadRight(r)' OBVIOUS
  <2>1. ReadRight(r) BY DEF Inv, FilesInv
  <2>2. CASE r # at BY <1>5, <1>6, <2>1, <2>2 DEF ReadRight
  <2>3. CASE r = at
    <3>1. readers'[r].size = readers[r].size /\ readers'[r].summary = kept BY <1>4, <1>5, <2>3
    <3> QED BY <1>3, <1>6, <2>1, <2>3, <3>1 DEF ReadRight
  <2> QED BY <2>2, <2>3
<1>10. FilesInv' BY <1>2, <1>7, <1>9 DEF FilesInv
<1>11. \A r \in 1 .. N : readers'[r].rename = "ok" \/ readers'[r].bounded => Clean(r)
  <2> SUFFICES ASSUME NEW r \in 1 .. N
               PROVE  readers'[r].rename = "ok" \/ readers'[r].bounded => Clean(r)
    OBVIOUS
  <2>1. readers'[r].rename = readers[r].rename /\ readers'[r].bounded = readers[r].bounded
    BY <1>4, <1>5
  <2> QED BY <2>1 DEF Inv, NamesInv
<1>12. Passed' BY <1>6, <1>7 DEF Inv, NamesInv, Passed
<1> QED BY <1>7, <1>8, <1>10, <1>11, <1>12 DEF Inv, NamesInv

(* The steps of summaryWithHint that keep no summary. *)
LEMMA StepInv ==
  ASSUME Inv, phase \in Loads, UNCHANGED <<disk, readers, callVars>>,
         step' \in {"tail", "rest"} => readers[at].size = disk[at].size,
         step' = "rest" => disk[at].valid
  PROVE  Inv'
<1>1. /\ script' = script /\ call' = call /\ phase' = phase /\ at' = at /\ status' = status
      /\ disk' = disk /\ readers' = readers
  BY DEF callVars
<1>2. N' = N /\ (AllClean' <=> AllClean) /\ \A r : (Clean(r)' <=> Clean(r)) /\ (CleanBefore(r)' <=> CleanBefore(r))
  BY <1>1, SameDisk
<1>3. Types' BY <1>1, <1>2 DEF Inv, Types
<1>4. FilesInv' BY <1>1, <1>2 DEF Inv, FilesInv, ReadRight
<1>5. Passed' BY <1>1, <1>2 DEF Inv, NamesInv, Passed
<1> QED BY <1>1, <1>2, <1>3, <1>4, <1>5 DEF Inv, NamesInv

LEMMA SeekInv == ASSUME Inv, phase \in Loads, Seek(at), UNCHANGED <<disk, callVars>> PROVE Inv'
<1>1. CASE step' = "failed" /\ UNCHANGED readers BY <1>1, StepInv
<1>2. CASE readers' = [readers EXCEPT ![at].size = disk[at].size] /\ step' = "tail"
  <2> DEFINE size == disk[at].size
             y == [readers[at] EXCEPT !.size = size]
  <2>1. /\ at \in 1 .. N /\ readers \in [1 .. N -> ReaderType] /\ readers[at] \in ReaderType
        /\ size \in Nat
    BY DEF Inv, Types
  <2>2. readers' = [readers EXCEPT ![at] = y] BY <1>2
  <2> HIDE DEF size
  <2>3. /\ y \in ReaderType /\ y.summary = readers[at].summary /\ y.size = size
        /\ y.rename = readers[at].rename /\ y.bounded = readers[at].bounded
    BY <2>1 DEF ReaderType
  <2> HIDE DEF y
  <2>4. /\ readers' \in [1 .. N -> ReaderType]
        /\ \A r \in 1 .. N : readers'[r] = IF r = at THEN y ELSE readers[r]
    BY <2>1, <2>2, <2>3
  <2>5. /\ script' = script /\ call' = call /\ phase' = phase /\ at' = at /\ status' = status /\ disk' = disk
    BY DEF callVars
  <2>6. N' = N /\ (AllClean' <=> AllClean) /\ \A r : (Clean(r)' <=> Clean(r)) /\ (CleanBefore(r)' <=> CleanBefore(r))
    BY <2>5, SameDisk
  <2>7. Types' BY <1>2, <2>4, <2>5, <2>6 DEF Inv, Types
  <2>8. \A r \in 1 .. N : ReadRight(r)'
    <3> SUFFICES ASSUME NEW r \in 1 .. N PROVE ReadRight(r)' OBVIOUS
    <3>1. ReadRight(r) BY DEF Inv, FilesInv
    <3>2. CASE r # at BY <2>4, <2>5, <3>1, <3>2 DEF ReadRight
    <3>3. CASE r = at
      <4>1. readers'[r].size = disk[r].size /\ readers'[r].summary = readers[r].summary
        BY <2>3, <2>4, <3>3 DEF size
      <4> QED BY <2>5, <3>1, <4>1 DEF ReadRight
    <3> QED BY <3>2, <3>3
  <2>9. FilesInv'
    <3>1. readers'[at].size = size BY <2>1, <2>3, <2>4
    <3> QED BY <1>2, <2>5, <2>6, <2>8, <3>1 DEF FilesInv, size
  <2>10. \A r \in 1 .. N : readers'[r].rename = "ok" \/ readers'[r].bounded => Clean(r)
    <3> SUFFICES ASSUME NEW r \in 1 .. N
                 PROVE  readers'[r].rename = "ok" \/ readers'[r].bounded => Clean(r)
      OBVIOUS
    <3>1. readers'[r].rename = readers[r].rename /\ readers'[r].bounded = readers[r].bounded
      BY <2>3, <2>4
    <3> QED BY <3>1 DEF Inv, NamesInv
  <2>11. Passed' BY <2>5, <2>6 DEF Inv, NamesInv, Passed
  <2> QED BY <2>6, <2>7, <2>9, <2>10, <2>11 DEF Inv, NamesInv
<1> QED BY <1>1, <1>2 DEF Seek

LEMMA ReadTailInv ==
  ASSUME Inv, phase \in Loads, NEW hint \in Int, ReadTail(at, hint), UNCHANGED <<disk, callVars>>
  PROVE  Inv'
<1> DEFINE n == Window(at, hint)
           len == disk[at].summaryLen
           from == readers[at].size - n + SummaryStart(n, len)
<1>1. at \in 1 .. N /\ readers[at].size = disk[at].size BY DEF Inv, Types, FilesInv, ReadTail
<1>2. CASE step' \in {"failed", "panic"} /\ UNCHANGED readers BY <1>2, StepInv
<1>3. CASE /\ readers[at].size >= FooterLen /\ n >= FooterLen /\ disk[at].valid
           /\ n >= len + FooterLen /\ Decode(at, from, len)
  <2>1. from \in Int /\ from + len + FooterLen = disk[at].size
    BY <1>1, <1>3, ReadTailDecodes DEF Inv
  <2> HIDE DEF from, n
  <2> QED BY <1>3, <2>1, DecodeInv
<1>4. CASE disk[at].valid /\ step' = "rest" /\ UNCHANGED readers BY <1>1, <1>4, StepInv
<1> QED BY <1>2, <1>3, <1>4 DEF ReadTail

LEMMA ReadRestInv ==
  ASSUME Inv, phase \in Loads, ReadRest(at), UNCHANGED <<disk, callVars>>
  PROVE  Inv'
<1> DEFINE size == disk[at].size
           len == disk[at].summaryLen
           from == SummaryStart(size, len)
<1>1. /\ at \in 1 .. N /\ size \in Nat /\ len \in Nat
      /\ readers[at].size = size /\ disk[at].valid
  BY DEF Inv, Types, FilesInv, ReadRest
<1>2. CASE step' = "failed" /\ UNCHANGED readers BY <1>2, StepInv
<1>3. CASE Decode(at, from, len)
  <2>1. from = size - FooterLen - len BY DEF SummaryStart
  <2> HIDE DEF size
  <2>2. from \in Int /\ from + len + FooterLen = size
    <3> HIDE DEF len, from
    <3> QED BY <1>1, <2>1 DEF FooterLen
  <2>3. from + len + FooterLen = disk[at].size BY <2>2 DEF size
  <2> HIDE DEF from
  <2> QED BY <1>1, <1>3, <2>2, <2>3, DecodeInv
<1> QED BY <1>1, <1>2, <1>3 DEF ReadRest

LEMMA LoadingInv == ASSUME Inv, Loading PROVE Inv'
<1> DEFINE hint == IF phase \in {"sample", "open"} THEN call.prefetch ELSE 0
<1>1. phase \in Loads /\ LoadSummary(at, hint) /\ UNCHANGED callVars BY DEF Loading, Loads
<1>2. hint \in Int BY DEF Inv, Types
<1> HIDE DEF hint
<1>3. UNCHANGED <<disk, callVars>> BY <1>1 DEF LoadSummary
<1> QED BY <1>1, <1>2, <1>3, SeekInv, ReadTailInv, ReadRestInv DEF LoadSummary
-----------------------------------------------------------------------------
(* The other steps. *)

LEMMA GoToStep == ASSUME NEW p, NEW r, GoTo(p, r) PROVE phase' = p /\ at' = r /\ step' = StepFor(r)
BY DEF GoTo

LEMMA ReturnStep ==
  ASSUME NEW s, Return(s)
  PROVE  phase' = "idle" /\ status' = s /\ at' = at /\ step' = step
BY DEF Return

(* What Inv says of the files, the script and the call. *)
LEMMA InvFacts ==
  ASSUME Inv
  PROVE  /\ Types /\ Passed
         /\ N \in Nat \ {0}
         /\ script \in Seq(Call) /\ \A k \in DOMAIN script : script[k].reader \in 1 .. N
         /\ call.reader \in 1 .. N /\ call.prefetch \in Int
         /\ RenamesKnown(readers)
         /\ phase \in Loads \cup {"engine"} => at \in 1 .. N
BY ReadersKept DEF Inv, Types, NamesInv

LEMMA CallStartsInv == ASSUME Inv, CallStarts PROVE Inv'
<1>1. /\ phase = "idle" /\ script # <<>> /\ call' = Head(script) /\ script' = Tail(script)
      /\ status' = "none" /\ UNCHANGED <<disk, readers>>
      /\ GoTo(FirstPhase(call'), IF call'.op \in {"summary", "sample"} THEN call'.reader ELSE 1)
  BY DEF CallStarts
<1>2. /\ call' \in Call /\ call'.reader \in 1 .. N
      /\ script' \in Seq(Call) /\ \A k \in DOMAIN script' : script'[k].reader \in 1 .. N
  BY <1>1, InvFacts
<1>3. call'.op \in Ops /\ call'.prefetch \in Int BY <1>2 DEF Call
<1>4. /\ phase' = FirstPhase(call') /\ step' = StepFor(at')
      /\ at' = IF call'.op \in {"summary", "sample"} THEN call'.reader ELSE 1
  BY <1>1, GoToStep
<1>5. N \in Nat \ {0} /\ at' \in 1 .. N BY <1>2, <1>4, InvFacts
<1>6. phase' = CASE call'.op = "multiSample" -> "bounds" [] call'.op = "read" -> "open" [] OTHER -> call'.op
  BY <1>4 DEF FirstPhase
<1>7. \/ call'.op = "multiSample" /\ phase' = "bounds" /\ at' = 1
      \/ call'.op = "read" /\ phase' = "open" /\ at' = 1
      \/ call'.op \in {"summary", "sample"} /\ phase' = call'.op /\ at' = call'.reader
  BY <1>3, <1>4, <1>6 DEF Ops
<1>9. N' = N /\ (AllClean' <=> AllClean) /\ \A r : (Clean(r)' <=> Clean(r)) /\ (CleanBefore(r)' <=> CleanBefore(r))
  BY <1>1, SameDisk
<1>10. Passed'
  <2>1. at' = 1 => CleanBefore(at)' BY <1>5, <1>9 DEF CleanBefore
  <2> QED BY <1>7, <2>1 DEF Passed, Streams
<1>11. phase' \in Loads /\ phase' # "engine" /\ phase' # "dispatch" BY <1>7 DEF Loads
<1>12. RenamesKnown(readers') BY <1>1, InvFacts
<1> QED BY <1>1, <1>2, <1>3, <1>4, <1>5, <1>10, <1>11, <1>12, CallStep

LEMMA LoadFailsInv == ASSUME Inv, LoadFails PROVE Inv'
<1>1. /\ phase' = "idle" /\ status' = "error" /\ step' = "ready" /\ UNCHANGED <<disk, readers, script, call, at>>
  BY DEF LoadFails
<1>2. Passed' BY <1>1 DEF Passed, Streams
<1>3. RenamesKnown(readers') BY <1>1, InvFacts
<1> QED BY <1>1, <1>2, <1>3, InvFacts, CallStep

LEMMA SummaryInv == ASSUME Inv, Summary PROVE Inv'
<1>1. /\ phase = "summary" /\ step = "ready" /\ readers' = AfterRename(at)
      /\ Return(IF RenameRefused(at) THEN "refused" ELSE "ok")
      /\ disk' = disk /\ script' = script /\ call' = call
  BY DEF Summary
<1>2. /\ phase' = "idle" /\ step' = "ready" /\ at' = at
      /\ status' = IF RenameRefused(at) THEN "refused" ELSE "ok"
  BY <1>1, ReturnStep
<1>3. at \in 1 .. N /\ call.op = "summary" /\ at = call.reader
  BY <1>1, InvFacts DEF Passed, Loads
<1>4. RenamesKnown(readers') BY <1>1, <1>3, RenamedKnown
<1>5. status' = "ok" => Clean(call.reader)
  BY <1>2, <1>3, NotRefused DEF Inv
<1>6. Clean(call.reader)' <=> Clean(call.reader)
  <2>1. \A r : Clean(r)' <=> Clean(r) BY <1>1, SameDisk
  <2> QED BY <1>1, <2>1 DEF Clean
<1>7. Passed' BY <1>1, <1>2, <1>3, <1>5, <1>6 DEF Passed, Streams
<1> QED BY <1>1, <1>2, <1>4, <1>7, InvFacts, CallStep

LEMMA BoundsOfInv == ASSUME Inv, BoundsOf PROVE Inv'
<1> DEFINE fails == ~readers[at].bounded /\ RenameFails(at)
<1>1. /\ phase = "bounds" /\ step = "ready" /\ disk' = disk /\ script' = script /\ call' = call
      /\ readers' = IF readers[at].bounded THEN readers
                    ELSE [Renamed(at) EXCEPT ![at].bounded = ~RenameFails(at)]
      /\ IF fails THEN Return("refused")
         ELSE IF at < N THEN GoTo("bounds", at + 1) /\ UNCHANGED status
         ELSE phase' = "check" /\ UNCHANGED <<at, step, status>>
  BY DEF BoundsOf
<1>2. /\ at \in 1 .. N /\ N \in Nat /\ call.op \in {"multiSample", "read"} /\ CleanBefore(at)
  BY <1>1, InvFacts DEF Passed, Loads
<1>3. RenamesKnown(readers')
  <2>1. CASE readers[at].bounded BY <1>1, <2>1, InvFacts
  <2>2. CASE ~readers[at].bounded
    <3> DEFINE rs == Renamed(at)
               answer == ~RenameFails(at)
               y == [rs[at] EXCEPT !.bounded = answer]
    <3>1. RenamesKnown(rs) BY <1>2, RenamedKnown
    <3>2. readers' = [rs EXCEPT ![at] = y] BY <1>1, <2>2
    <3>3. answer \in BOOLEAN /\ (answer => Clean(at)) BY <1>2, NotRefused DEF Inv, RenameFails
    <3> HIDE DEF rs, answer
    <3>4. rs \in [1 .. N -> ReaderType] /\ rs[at] \in ReaderType BY <1>2, <3>1 DEF RenamesKnown
    <3>5. /\ y \in ReaderType /\ y.size = rs[at].size /\ y.summary = rs[at].summary
          /\ y.rename = rs[at].rename /\ (y.bounded <=> answer)
      BY <3>3, <3>4 DEF ReaderType
    <3> HIDE DEF y
    <3>6. /\ readers' \in [1 .. N -> ReaderType]
          /\ \A r \in 1 .. N : readers'[r] = IF r = at THEN y ELSE rs[r]
      BY <3>2, <3>4, <3>5
    <3>7. ASSUME NEW r \in 1 .. N
          PROVE  /\ readers'[r].size = readers[r].size /\ readers'[r].summary = readers[r].summary
                 /\ readers'[r].rename = "ok" \/ readers'[r].bounded => Clean(r)
      <4>1. /\ rs[r].size = readers[r].size /\ rs[r].summary = readers[r].summary
            /\ rs[r].rename = "ok" => Clean(r)
            /\ rs[r].bounded => Clean(r)
        BY <3>1 DEF RenamesKnown
      <4>2. CASE r = at BY <3>3, <3>5, <3>6, <4>1, <4>2
      <4>3. CASE r # at BY <3>6, <4>1, <4>3
      <4> QED BY <4>2, <4>3
    <3> QED BY <3>6, <3>7 DEF RenamesKnown
  <2> QED BY <2>1, <2>2
<1>4. ~fails => Clean(at)
  <2>1. readers[at].bounded => Clean(at) BY <1>2 DEF Inv, NamesInv
  <2> QED BY <1>2, <2>1, NotRefused DEF Inv
<1>5. N' = N /\ (AllClean' <=> AllClean) /\ \A r : (Clean(r)' <=> Clean(r)) /\ (CleanBefore(r)' <=> CleanBefore(r))
  BY <1>1, SameDisk
<1>6. CASE fails
  <2>1. phase' = "idle" /\ status' = "refused" /\ step' = "ready"
    BY <1>1, <1>6, ReturnStep
  <2>2. Passed' BY <2>1 DEF Passed, Streams
  <2> QED BY <1>1, <1>3, <2>1, <2>2, InvFacts, CallStep
<1>7. CASE ~fails /\ at < N
  <2>1. phase' = "bounds" /\ at' = at + 1 /\ step' = StepFor(at')
    BY <1>1, <1>7, GoToStep
  <2>2. at' \in 1 .. N /\ CleanBefore(at)' BY <1>2, <1>4, <1>5, <1>7, <2>1 DEF CleanBefore
  <2>3. Passed' BY <1>1, <1>2, <2>1, <2>2 DEF Passed, Streams
  <2>4. phase' \in Loads BY <2>1 DEF Loads
  <2> QED BY <1>1, <1>3, <2>1, <2>2, <2>3, <2>4, InvFacts, CallStep
<1>8. CASE ~fails /\ ~(at < N)
  <2>1. phase' = "check" /\ step' = "ready" BY <1>1, <1>8
  <2>2. AllClean BY <1>2, <1>4, <1>8 DEF CleanBefore, AllClean
  <2>3. Passed' BY <1>1, <1>2, <1>5, <2>1, <2>2 DEF Passed, Streams
  <2> QED BY <1>1, <1>3, <2>1, <2>3, InvFacts, CallStep
<1> QED BY <1>6, <1>7, <1>8

(* The steps of a Sample or ReadMessages that touch no Reader. *)
LEMMA NoReaderInv ==
  ASSUME Inv, UNCHANGED <<disk, readers, script, call>>,
         \/ phase' \in Loads /\ at' \in 1 .. N /\ step' = StepFor(at')
         \/ phase' \in {"idle", "check", "dispatch", "engine"} \cup Streams /\ step' = "ready",
         phase' = "engine" => at' \in 1 .. N,
         phase' = "dispatch" => at' \in 1 .. N + 1,
         Passed'
  PROVE  Inv'
BY InvFacts, CallStep

LEMMA NotLoading ==
  ASSUME Inv, phase \in {"idle", "check", "dispatch", "engine"} \cup Streams
  PROVE  step = "ready"
BY DEF Inv, Types, Loads, Streams

LEMMA CheckInv == ASSUME Inv, CheckSample \/ CheckRead PROVE Inv'
<1>1. phase = "check" /\ UNCHANGED <<disk, readers, script, call>> BY DEF CheckSample, CheckRead
<1>2. step = "ready" BY <1>1, NotLoading
<1>3. N \in Nat \ {0} /\ AllClean BY <1>1, InvFacts DEF Passed
<1>4. AllClean' BY <1>1, <1>3, SameDisk
<1>5. CASE \E s \in {"refused", "overlap"} : Return(s)
  <2>1. phase' = "idle" /\ status' # "ok" /\ step' = "ready" BY <1>2, <1>5, ReturnStep
  <2>2. Passed' BY <2>1 DEF Passed, Streams
  <2> QED BY <1>1, <2>1, <2>2, NoReaderInv
<1>6. CASE call.op = "multiSample" /\ phase' = "dispatch" /\ at' = 1 /\ step' = step
  <2>1. Passed' BY <1>1, <1>4, <1>6 DEF Passed, Streams
  <2> QED BY <1>1, <1>2, <1>3, <1>6, <2>1, NoReaderInv
<1>7. CASE call.op = "read" /\ phase' = "stream" /\ step' = step
  <2>1. Passed' BY <1>1, <1>4, <1>7 DEF Passed, Streams
  <2>2. phase' \in Streams BY <1>7 DEF Streams
  <2> QED BY <1>1, <1>2, <1>7, <2>1, <2>2, NoReaderInv DEF Streams
<1>8. CASE CheckSample BY <1>5, <1>6, <1>8 DEF CheckSample
<1>9. CASE CheckRead BY <1>5, <1>7, <1>9 DEF CheckRead
<1> QED BY <1>8, <1>9

LEMMA DispatchInv == ASSUME Inv, Dispatch PROVE Inv'
<1>1. /\ phase = "dispatch" /\ UNCHANGED <<disk, readers, script, call>>
      /\ \/ at > N /\ Return("ok")
         \/ ~(at > N) /\ at' = at + 1 /\ UNCHANGED <<phase, step, status>>
         \/ ~(at > N) /\ GoTo("sample", at)
  BY DEF Dispatch
<1>2. /\ step = "ready" /\ N \in Nat \ {0} /\ at \in 1 .. N + 1
      /\ call.op = "multiSample" /\ AllClean
  BY <1>1, InvFacts, NotLoading DEF Passed, Types
<1>3. AllClean' BY <1>1, <1>2, SameDisk
<1>4. CASE at > N /\ Return("ok")
  <2>1. phase' = "idle" /\ step' = "ready" BY <1>2, <1>4, ReturnStep
  <2>2. Passed' BY <1>1, <1>2, <1>3, <2>1 DEF Passed, Streams
  <2> QED BY <1>1, <2>1, <2>2, NoReaderInv
<1>5. CASE ~(at > N) /\ at' = at + 1 /\ UNCHANGED <<phase, step, status>>
  <2>1. Passed' BY <1>1, <1>2, <1>3, <1>5 DEF Passed, Streams
  <2> QED BY <1>1, <1>2, <1>5, <2>1, NoReaderInv
<1>6. CASE ~(at > N) /\ GoTo("sample", at)
  <2>1. phase' = "sample" /\ at' = at /\ step' = StepFor(at') BY <1>6, GoToStep
  <2>2. Passed' BY <1>1, <1>2, <1>3, <2>1 DEF Passed, Streams
  <2>3. phase' \in Loads /\ at' \in 1 .. N BY <1>2, <1>6, <2>1 DEF Loads
  <2> QED BY <1>1, <2>1, <2>2, <2>3, NoReaderInv
<1> QED BY <1>1, <1>4, <1>5, <1>6

LEMMA SampleInv == ASSUME Inv, Sample PROVE Inv'
<1>1. /\ phase = "sample" /\ step = "ready" /\ readers' = AfterRename(at)
      /\ UNCHANGED <<disk, script, call>>
      /\ \/ Return("refused")
         \/ ~RenameRefused(at) /\ phase' = "engine" /\ UNCHANGED <<at, step, status>>
  BY DEF Sample
<1>2. /\ at \in 1 .. N
      /\ \/ call.op = "sample" /\ at = call.reader
         \/ call.op = "multiSample" /\ AllClean
  BY <1>1, InvFacts DEF Passed, Loads
<1>3. RenamesKnown(readers') BY <1>1, <1>2, RenamedKnown
<1>4. (AllClean' <=> AllClean) /\ \A r : Clean(r)' <=> Clean(r) BY <1>1, SameDisk
<1>5. CASE Return("refused")
  <2>1. phase' = "idle" /\ status' = "refused" /\ step' = "ready" BY <1>1, <1>5, ReturnStep
  <2>2. Passed' BY <2>1 DEF Passed, Streams
  <2> QED BY <1>1, <1>3, <2>1, <2>2, InvFacts, CallStep
<1>6. CASE ~RenameRefused(at) /\ phase' = "engine" /\ UNCHANGED <<at, step, status>>
  <2>1. Clean(at) BY <1>2, <1>6, NotRefused DEF Inv
  <2>2. Clean(at)' BY <1>4, <1>6, <2>1 DEF Clean
  <2>3. Passed' BY <1>1, <1>2, <1>4, <1>6, <2>2 DEF Passed, Streams
  <2> QED BY <1>1, <1>2, <1>3, <1>6, <2>3, InvFacts, CallStep
<1> QED BY <1>1, <1>5, <1>6

LEMMA EngineInv == ASSUME Inv, Engine \/ EngineFails \/ EngineDone PROVE Inv'
<1>1. phase = "engine" /\ UNCHANGED <<disk, readers, script, call>>
  BY DEF Engine, EngineFails, EngineDone, readerVars, callVars
<1>2. step = "ready" BY <1>1, NotLoading
<1>3. /\ at \in 1 .. N /\ N \in Nat
      /\ \/ call.op = "sample" /\ at = call.reader /\ Clean(at)
         \/ call.op = "multiSample" /\ AllClean
  BY <1>1, InvFacts DEF Passed
<1>4. (AllClean' <=> AllClean) /\ \A r : Clean(r)' <=> Clean(r) BY <1>1, SameDisk
<1>5. Clean(call.reader)' <=> Clean(call.reader)
  BY <1>1, <1>4 DEF Clean
<1>6. CASE Engine
  <2>1. UNCHANGED <<phase, at, step, status>> BY <1>6 DEF Engine, readerVars, callVars
  <2>2. Clean(at)' <=> Clean(at) BY <1>4, <2>1 DEF Clean
  <2>3. Passed' BY <1>1, <1>3, <1>4, <2>1, <2>2 DEF Passed, Streams
  <2> QED BY <1>1, <1>2, <1>3, <2>1, <2>3, NoReaderInv
<1>7. CASE EngineFails
  <2>1. phase' = "idle" /\ status' = "error" /\ step' = "ready" BY <1>2, <1>7, ReturnStep DEF EngineFails
  <2>2. Passed' BY <2>1 DEF Passed, Streams
  <2> QED BY <1>1, <2>1, <2>2, NoReaderInv
<1>8. CASE EngineDone /\ call.op = "sample"
  <2>1. phase' = "idle" /\ status' = "ok" /\ step' = "ready" BY <1>2, <1>8, ReturnStep DEF EngineDone
  <2>2. Clean(call.reader)' BY <1>3, <1>5, <1>8
  <2>3. Passed' BY <1>1, <1>8, <2>1, <2>2 DEF Passed, Streams
  <2> QED BY <1>1, <2>1, <2>3, NoReaderInv
<1>9. CASE EngineDone /\ call.op # "sample"
  <2>1. phase' = "dispatch" /\ at' = at + 1 /\ step' = step BY <1>9 DEF EngineDone
  <2>2. Passed' BY <1>1, <1>3, <1>4, <1>9, <2>1 DEF Passed, Streams
  <2> QED BY <1>1, <1>2, <1>3, <2>1, <2>2, NoReaderInv
<1> QED BY <1>6, <1>7, <1>8, <1>9

LEMMA OpenInv == ASSUME Inv, Open \/ OpenFails PROVE Inv'
<1>1. /\ phase = "open" /\ step = "ready" /\ readers' = AfterRename(at)
      /\ UNCHANGED <<disk, script, call>>
  BY DEF Open, OpenFails
<1>2. at \in 1 .. N /\ N \in Nat \ {0} /\ call.op = "read" /\ CleanBefore(at)
  BY <1>1, InvFacts DEF Passed, Loads
<1>3. RenamesKnown(readers') BY <1>1, <1>2, RenamedKnown
<1>4. N' = N /\ (AllClean' <=> AllClean) /\ \A r : (Clean(r)' <=> Clean(r)) /\ (CleanBefore(r)' <=> CleanBefore(r))
  BY <1>1, SameDisk
<1>5. ~RenameRefused(at) => Clean(at) BY <1>2, NotRefused DEF Inv
<1>6. CASE \E s \in {"refused", "error"} : Return(s)
  <2>1. phase' = "idle" /\ status' # "ok" /\ step' = "ready" BY <1>1, <1>6, ReturnStep
  <2>2. Passed' BY <2>1 DEF Passed, Streams
  <2> QED BY <1>1, <1>3, <2>1, <2>2, InvFacts, CallStep
<1>7. CASE ~RenameRefused(at) /\ at < N /\ GoTo("open", at + 1)
  <2>1. phase' = "open" /\ at' = at + 1 /\ step' = StepFor(at') BY <1>7, GoToStep
  <2>2. at' \in 1 .. N /\ CleanBefore(at)' BY <1>2, <1>4, <1>5, <1>7, <2>1 DEF CleanBefore
  <2>3. Passed' BY <1>1, <1>2, <2>1, <2>2 DEF Passed, Streams
  <2>4. phase' \in Loads BY <2>1 DEF Loads
  <2> QED BY <1>1, <1>3, <2>1, <2>2, <2>3, <2>4, InvFacts, CallStep
<1>8. CASE ~RenameRefused(at) /\ ~(at < N) /\ GoTo("bounds", 1)
  <2>1. phase' = "bounds" /\ at' = 1 /\ step' = StepFor(at') BY <1>8, GoToStep
  <2>2. at' \in 1 .. N /\ CleanBefore(at)' BY <1>2, <1>4, <2>1 DEF CleanBefore
  <2>3. Passed' BY <1>1, <1>2, <2>1, <2>2 DEF Passed, Streams
  <2>4. phase' \in Loads BY <2>1 DEF Loads
  <2> QED BY <1>1, <1>3, <2>1, <2>2, <2>3, <2>4, InvFacts, CallStep
<1>9. CASE ~RenameRefused(at) /\ ~(at < N) /\ phase' = "stream" /\ UNCHANGED <<at, step>>
  <2>1. AllClean' BY <1>2, <1>4, <1>5, <1>9 DEF CleanBefore, AllClean
  <2>2. Passed' BY <1>1, <1>2, <1>9, <2>1 DEF Passed, Streams
  <2>3. phase' \in Streams /\ step' = "ready" BY <1>1, <1>9 DEF Streams
  <2> QED BY <1>1, <1>3, <2>2, <2>3, <1>9, InvFacts, CallStep DEF Streams
<1>10. CASE Open BY <1>6, <1>7, <1>8, <1>9, <1>10 DEF Open
<1>11. CASE OpenFails BY <1>6, <1>11 DEF OpenFails
<1> QED BY <1>10, <1>11

LEMMA StreamInv == ASSUME Inv, NextInto \/ Pull \/ PullEof \/ PullFails \/ Pop \/ Eof PROVE Inv'
<1>1. phase \in Streams /\ UNCHANGED <<disk, readers, step, script, call>>
  BY DEF NextInto, Pull, PullEof, PullFails, Pop, Eof, streamOnly, readerVars, Streams
<1>2. phase' \in Streams \/ phase' = "idle"
  BY DEF NextInto, Pull, PullEof, PullFails, Pop, Eof, Answered, Streams
<1>3. step = "ready" BY <1>1, NotLoading
<1>4. call.op = "read" /\ AllClean BY <1>1, InvFacts DEF Passed
<1>5. AllClean' BY <1>1, <1>4, SameDisk
<1>6. Passed' BY <1>1, <1>2, <1>4, <1>5 DEF Passed, Streams
<1> QED BY <1>1, <1>2, <1>3, <1>6, NoReaderInv DEF Streams

LEMMA StutterInv == ASSUME Inv, UNCHANGED vars PROVE Inv'
<1>1. /\ script' = script /\ call' = call /\ phase' = phase /\ at' = at /\ status' = status
      /\ disk' = disk /\ readers' = readers /\ step' = step
  BY DEF vars, callVars, readerVars
<1>2. N' = N /\ (AllClean' <=> AllClean) /\ \A r : (Clean(r)' <=> Clean(r)) /\ (CleanBefore(r)' <=> CleanBefore(r))
  BY <1>1, SameDisk
<1>3. Types' BY <1>1, <1>2 DEF Inv, Types
<1>4. FilesInv' BY <1>1, <1>2 DEF Inv, FilesInv, ReadRight
<1>5. Passed' BY <1>1, <1>2 DEF Inv, NamesInv, Passed
<1> QED BY <1>1, <1>2, <1>3, <1>4, <1>5 DEF Inv, NamesInv

LEMMA InitInv == ASSUME SessionsAssumption, Init PROVE Inv
<1>1. PICK s \in Sessions : disk = s.disk /\ script = s.script BY DEF Init
<1>2. /\ readers = [r \in 1 .. N |-> NewReader] /\ step = "ready" /\ call = NoCall
      /\ phase = "idle" /\ at = 1 /\ status = "none"
  BY DEF Init
<1>3. /\ N \in Nat \ {0} /\ script \in Seq(Call)
      /\ \A r \in 1 .. N : disk[r].size \in Nat /\ disk[r].summaryLen \in Nat
      /\ \A k \in DOMAIN script : script[k].reader \in 1 .. N
  BY <1>1, SessionsAssumption DEF SessionsAssumption, N
<1>4. NewReader \in ReaderType BY DEF NewReader, NoSummary, ReaderType
<1>5. call.reader = 1 /\ call.prefetch = 0 BY <1>2 DEF NoCall
<1>6. Types
  <2>1. readers \in [1 .. N -> ReaderType] BY <1>2, <1>4
  <2>2. call.reader \in 1 .. N /\ call.prefetch \in Int BY <1>3, <1>5
  <2> QED BY <1>2, <1>3, <2>1, <2>2 DEF Types, Loads, Streams
<1>7. \A r \in 1 .. N : /\ readers[r].size = 0 /\ readers[r].summary = NoSummary
                       /\ readers[r].rename = "none" /\ readers[r].bounded = FALSE
  BY <1>2 DEF NewReader
<1>8. FilesInv BY <1>2, <1>7 DEF FilesInv, ReadRight, Loads
<1>9. NamesInv BY <1>2, <1>7 DEF NamesInv, Passed, Streams
<1> QED BY <1>6, <1>8, <1>9 DEF Inv

LEMMA NextInv == ASSUME Inv, [Next]_vars PROVE Inv'
BY CallStartsInv, LoadingInv, LoadFailsInv, SummaryInv, BoundsOfInv, CheckInv, DispatchInv,
   SampleInv, EngineInv, OpenInv, StreamInv, StutterInv DEF Next, Over
-----------------------------------------------------------------------------
(* The invariant is inductive. *)
THEOREM SessionInv == Spec => []Inv
<1>1. Init => Inv BY SessionsAssumption, InitInv
<1>2. Inv /\ [Next]_vars => Inv' BY NextInv
<1> QED BY <1>1, <1>2, PTL DEF Spec

(* Whatever was prefetched, however many reads failed before, and whether  *)
(* the tail held all of it or a second read was needed: the summary that a *)
(* Reader caches is the one its file ends with.                            *)
THEOREM SummariesAreRead == Spec => []SummaryIsTheFiles
<1>1. Inv => SummaryIsTheFiles BY DEF Inv, Types, FilesInv, ReadRight, SummaryIsTheFiles
<1> QED BY <1>1, SessionInv, PTL

(* In whatever order a program calls the Readers of its files, no call     *)
(* succeeds that needs a file in which a remap makes two topics collapse.  *)
THEOREM CollisionsAreRefused == Spec => []CollisionRefused
<1>1. ASSUME Inv PROVE CollisionRefused
  <2> SUFFICES ASSUME (phase = "idle" /\ status = "ok") \/ phase = "stream",
                      NEW r \in IF call.op \in {"summary", "sample"} THEN {call.reader} ELSE 1 .. N
               PROVE  Clean(r)
    BY DEF CollisionRefused, Clean
  <2> QED BY <1>1 DEF Inv, NamesInv, Passed, AllClean, Streams
<1> QED BY <1>1, SessionInv, PTL
-----------------------------------------------------------------------------
(* What is known of the files. *)
DiskKnown ==
  \A r \in 1 .. N :
    /\ Groups(r) \in Seq(Group) /\ Chronological(Groups(r))
    /\ \A name \in DOMAIN disk[r].remap : disk[r].remap[name] \in Nat

(* Messages in an iterator, in the heap and with the caller. *)
Sent == [name : Nat, ts : Int, n : Nat]
HeapEntry == [key : Int, ts : Int, name : Nat, sub : 1 .. N]
Given == [name : Nat, ts : Int, n : Nat, sub : 1 .. N]

OfGroup(i, g, name, ts) ==
  /\ \E id \in Groups(i)[g].ids : Exposed(i, id) = name
  /\ \E c \in DOMAIN Groups(i)[g].chunks :
       Groups(i)[g].chunks[c].start <= ts /\ ts <= Groups(i)[g].chunks[c].end
OfFile(i, name, ts) == \E g \in DOMAIN Groups(i) : OfGroup(i, g, name, ts)

(* The lists of an iterator: the messages of each group, in order. *)
IsList(i, g, list) ==
  /\ list \in Seq(Sent)
  /\ \A k \in DOMAIN list : OfGroup(i, g, list[k].name, list[k].ts)
  /\ \A j, k \in DOMAIN list : j < k => Key(list[j].ts) <= Key(list[k].ts)
AreLists(i, lists) ==
  /\ lists \in Seq(Seq(Sent)) /\ DOMAIN lists = DOMAIN Groups(i)
  /\ \A g \in DOMAIN lists : IsList(i, g, lists[g])
IsEntry(e) == e \in HeapEntry /\ e.key = Key(e.ts) /\ OfFile(e.sub, e.name, e.ts)
IsPopped(p) == p = NoEntry \/ (p \in [entry : HeapEntry, n : Nat] /\ IsEntry(p.entry))

MergeTypes ==
  /\ heap \in Seq(HeapEntry) /\ IsHeap(heap) /\ \A k \in DOMAIN heap : IsEntry(heap[k])
  /\ bufs \in [1 .. N -> Nat]
  /\ delivered \in Seq(Given)
  /\ \A k \in DOMAIN delivered : OfFile(delivered[k].sub, delivered[k].name, delivered[k].ts)
  /\ IsPopped(popped) /\ failures \in Nat
  /\ subs \in Seq(Seq(Seq(Sent))) /\ Len(subs) <= N
  /\ \A i \in DOMAIN subs : AreLists(i, subs[i])

(* Where the merge stands. *)
Fresh ==
  /\ heap = <<>> /\ popped = NoEntry /\ pulling = 0 /\ loaded = FALSE
  /\ delivered = <<>> /\ result = "none" /\ failures = 0
MergePhase ==
  /\ phase \notin Streams => \/ Fresh
                             \/ /\ phase = "idle" /\ loaded /\ Len(subs) = N
                                /\ heap = <<>> /\ popped = NoEntry /\ pulling = 0
  /\ phase = "open" => Len(subs) = at - 1
  /\ phase \in {"bounds", "check"} /\ call.op = "read" => Len(subs) = N
  /\ phase \in Streams => Len(subs) = N /\ result # "eof"
  /\ phase = "pull" => pulling \in 1 .. N
  /\ phase # "pull" => pulling = 0
  /\ phase = "pop" => loaded
  /\ loaded \in BOOLEAN /\ (~loaded => delivered = <<>>)
  /\ popped # NoEntry <=> phase = "pull" /\ loaded
  /\ popped # NoEntry => popped.entry.sub = pulling

(* What was delivered comes before what is popped, that before what is in  *)
(* the heap, and that before what its iterator still has.                  *)
Ahead(key, lists) ==
  \A g \in DOMAIN lists : \A k \in DOMAIN lists[g] : key <= Key(lists[g][k].ts)
MergeTimes ==
  /\ \A j, k \in DOMAIN delivered : j < k => Key(delivered[j].ts) <= Key(delivered[k].ts)
  /\ \A j \in DOMAIN delivered : \A k \in DOMAIN heap : Key(delivered[j].ts) <= heap[k].key
  /\ \A k \in DOMAIN heap : heap[k].sub \in DOMAIN subs /\ Ahead(heap[k].key, subs[heap[k].sub])
  /\ popped # NoEntry =>
       /\ \A j \in DOMAIN delivered : Key(delivered[j].ts) <= popped.entry.key
       /\ \A k \in DOMAIN heap : popped.entry.key <= heap[k].key
       /\ Ahead(popped.entry.key, subs[pulling])

(* What a stream is opened for. *)
MergeScope ==
  phase \in Streams \/ delivered # <<>> =>
    AllClean /\ (call.videoDecodable => ~VideosOverlap(ReadScope))

(* As long as nothing failed an iterator has one entry in the heap, unless *)
(* it is at its end or yet to be asked.                                    *)
Served(i) == IF loaded THEN i # pulling ELSE i < pulling
MergeRoom ==
  failures = 0 =>
    /\ \A k, l \in DOMAIN heap : heap[k].sub = heap[l].sub => k = l
    /\ \A k \in DOMAIN heap : heap[k].sub # pulling /\ (~loaded => heap[k].sub < pulling)
    /\ \A i \in DOMAIN subs : Served(i) /\ (\A k \in DOMAIN heap : heap[k].sub # i) =>
         \A g \in DOMAIN subs[i] : subs[i][g] = <<>>

(* What an iterator was asked for: delivered, popped, in the heap, left. *)
Popping(p, i, name) == IF p.entry.sub = i /\ p.entry.name = name THEN <<Returned(p)>> ELSE <<>>
Queued(h, b, i, name) ==
  LET mine == {k \in DOMAIN h : h[k].sub = i /\ h[k].name = name}
  IN  IF mine = {} THEN <<>>
      ELSE <<[name |-> name, ts |-> h[CHOOSE k \in mine : TRUE].ts, n |-> b, sub |-> i]>>
Left(list, i, name) ==
  LET mine == Picked(list, {k \in DOMAIN list : list[k].name = name})
  IN  [k \in DOMAIN mine |-> [name |-> name, ts |-> mine[k].ts, n |-> mine[k].n, sub |-> i]]
Piped(i, g, name) ==
  FromSub(i, name) \o
    (Popping(popped, i, name) \o (Queued(heap, bufs[i], i, name) \o Left(subs[i][g], i, name)))
MergePipe ==
  failures = 0 => \A i \in DOMAIN subs : ~PassesThrough(i) =>
    \A g \in DOMAIN Groups(i) : \A id \in Groups(i)[g].ids :
      Piped(i, g, Exposed(i, id)) = Expected(i, g, id)

MergeInv == MergeTypes /\ MergePhase /\ MergeTimes /\ MergeScope /\ MergeRoom /\ MergePipe
MergeKnown == DiskKnown /\ MergeInv

-----------------------------------------------------------------------------
(* The files. *)
Message == [id : Nat, ts : Int, n : Nat, len : Nat, key : BOOLEAN]

LEMMA GroupKnown ==
  ASSUME DiskKnown, NEW i \in 1 .. N, NEW g \in DOMAIN Groups(i)
  PROVE  /\ Groups(i)[g].ids \in SUBSET Nat
         /\ Groups(i)[g].chunks \in Seq(Chunk)
         /\ \A c \in DOMAIN Groups(i)[g].chunks :
              LET chunk == Groups(i)[g].chunks[c]
              IN  /\ chunk.msgs \in Seq(Message) /\ chunk.start \in Int /\ chunk.end \in Int
                  /\ chunk.start <= chunk.end
                  /\ \A q \in DOMAIN chunk.msgs :
                       /\ chunk.start <= chunk.msgs[q].ts /\ chunk.msgs[q].ts <= chunk.end
                       /\ chunk.msgs[q].id \in Groups(i)[g].ids
                  /\ Ascending(Stamps(chunk.msgs))
         /\ \A c, d \in DOMAIN Groups(i)[g].chunks :
              c < d => Groups(i)[g].chunks[c].end <= Groups(i)[g].chunks[d].start
<1>1. Groups(i) \in Seq(Group) /\ Chronological(Groups(i)) BY DEF DiskKnown
<1> DEFINE f == Groups(i)
           cs == f[g].chunks
<1>2. f[g] \in Group BY <1>1
<1>3. f[g].ids \in SUBSET Nat /\ cs \in Seq(Chunk) BY <1>2 DEF Group
<1>4. /\ \A c \in DOMAIN cs : \A q \in DOMAIN cs[c].msgs :
            /\ cs[c].start <= cs[c].msgs[q].ts /\ cs[c].msgs[q].ts <= cs[c].end
            /\ cs[c].msgs[q].id \in f[g].ids
      /\ \A c \in DOMAIN cs : cs[c].start <= cs[c].end /\ Ascending(Stamps(cs[c].msgs))
      /\ \A c, d \in DOMAIN cs : c < d => cs[c].end <= cs[d].start
  BY <1>1 DEF Chronological
<1>5. ASSUME NEW c \in DOMAIN cs
      PROVE  cs[c].msgs \in Seq(Message) /\ cs[c].start \in Int /\ cs[c].end \in Int
  <2>1. cs[c] \in Chunk
    <3> HIDE DEF cs
    <3> QED BY <1>3
  <2> QED BY <2>1 DEF Chunk, Message
<1> QED BY <1>3, <1>4, <1>5

(* The messages of a group ascend in time, across its chunks. *)
LEMMA FlatKnown ==
  ASSUME DiskKnown, NEW i \in 1 .. N, NEW g \in DOMAIN Groups(i)
  PROVE  LET cs == Groups(i)[g].chunks
             f == FlattenSeq([c \in DOMAIN cs |-> cs[c].msgs])
         IN  /\ f \in Seq(Message)
             /\ \A k \in DOMAIN f : /\ f[k].id \in Groups(i)[g].ids
                                    /\ \E c \in DOMAIN cs : cs[c].start <= f[k].ts /\ f[k].ts <= cs[c].end
             /\ \A j, k \in DOMAIN f : j < k => f[j].ts <= f[k].ts
<1> DEFINE cs == Groups(i)[g].chunks
           s == [c \in DOMAIN cs |-> cs[c].msgs]
           f == FlattenSeq(s)
<1>1. /\ cs \in Seq(Chunk)
      /\ \A c \in DOMAIN cs :
           /\ cs[c].msgs \in Seq(Message) /\ cs[c].start \in Int /\ cs[c].end \in Int
           /\ \A q \in DOMAIN cs[c].msgs :
                /\ cs[c].start <= cs[c].msgs[q].ts /\ cs[c].msgs[q].ts <= cs[c].end
                /\ cs[c].msgs[q].id \in Groups(i)[g].ids
           /\ Ascending(Stamps(cs[c].msgs))
      /\ \A c, d \in DOMAIN cs : c < d => cs[c].end <= cs[d].start
  BY GroupKnown
<1> HIDE DEF cs
<1>2. DOMAIN cs = 1 .. Len(cs) /\ Len(cs) \in Nat BY <1>1
<1>3. /\ s \in Seq(Seq(Message)) /\ Len(s) = Len(cs)
      /\ \A c \in DOMAIN cs : s[c] = cs[c].msgs
  BY <1>1, <1>2
<1> HIDE DEF s
<1>4. f \in Seq(Message) /\ \E h, p : Flattened(f, s, Len(s), h, p) BY <1>3, FlattenFacts
<1>5. PICK h, p : Flattened(f, s, Len(s), h, p) BY <1>4
<1> HIDE DEF f
<1>6. DOMAIN f = 1 .. Len(f) /\ Len(f) \in Nat BY <1>4
<1>7. ASSUME NEW k \in DOMAIN f
      PROVE  /\ h[k] \in DOMAIN cs /\ p[k] \in DOMAIN cs[h[k]].msgs /\ f[k] = cs[h[k]].msgs[p[k]]
             /\ cs[h[k]].start <= f[k].ts /\ f[k].ts <= cs[h[k]].end
             /\ f[k].id \in Groups(i)[g].ids /\ f[k].ts \in Int
  <2>1. h[k] \in 1 .. Len(s) /\ p[k] \in 1 .. Len(s[h[k]]) /\ f[k] = s[h[k]][p[k]]
    BY <1>5, <1>6 DEF Flattened
  <2>2. h[k] \in DOMAIN cs /\ s[h[k]] = cs[h[k]].msgs BY <1>2, <1>3, <2>1
  <2>3. cs[h[k]].msgs \in Seq(Message) BY <1>1, <2>2
  <2>4. p[k] \in DOMAIN cs[h[k]].msgs /\ f[k] = cs[h[k]].msgs[p[k]] BY <2>1, <2>2, <2>3
  <2>5. f[k] \in Message BY <1>4
  <2>6. f[k].ts \in Int BY <2>5 DEF Message
  <2> QED BY <1>1, <2>2, <2>4, <2>6
<1>8. ASSUME NEW j \in DOMAIN f, NEW k \in DOMAIN f, j < k PROVE f[j].ts <= f[k].ts
  <2>1. h[j] < h[k] \/ (h[j] = h[k] /\ p[j] < p[k]) BY <1>5, <1>6, <1>8 DEF Flattened
  <2>2. CASE h[j] < h[k]
    <3>1. cs[h[j]].end <= cs[h[k]].start BY <1>1, <1>7, <2>2
    <3>2. cs[h[j]].end \in Int /\ cs[h[k]].start \in Int BY <1>1, <1>7
    <3> QED BY <1>7, <3>1, <3>2
  <2>3. CASE h[j] = h[k] /\ p[j] < p[k]
    <3> DEFINE m == cs[h[k]].msgs
    <3>1. Ascending(Stamps(m)) /\ p[j] \in DOMAIN m /\ p[k] \in DOMAIN m BY <1>1, <1>7, <2>3
    <3>2. f[j] = m[p[j]] /\ f[k] = m[p[k]] /\ m \in Seq(Message) BY <1>1, <1>7, <2>3
    <3> HIDE DEF m
    <3>3. /\ DOMAIN Stamps(m) = DOMAIN m
          /\ Stamps(m)[p[j]] = m[p[j]].ts /\ Stamps(m)[p[k]] = m[p[k]].ts
      BY <3>1 DEF Stamps
    <3>4. p[j] <= p[k] BY <2>3, <3>1, <3>2
    <3>5. Stamps(m)[p[j]] <= Stamps(m)[p[k]] BY <3>1, <3>3, <3>4 DEF Ascending
    <3> QED BY <3>2, <3>3, <3>5
  <2> QED BY <2>1, <2>2, <2>3
<1>9. \A k \in DOMAIN f : /\ f[k].id \in Groups(i)[g].ids
                         /\ \E c \in DOMAIN cs : cs[c].start <= f[k].ts /\ f[k].ts <= cs[c].end
  BY <1>7
<1> QED BY <1>4, <1>8, <1>9 DEF f, s, cs

LEMMA KeyIsInt == ASSUME NEW ts \in Int PROVE Key(ts) \in Int /\ Key(ts) = IF call.reverse THEN -ts ELSE ts
BY DEF Key

LEMMA WrittenKnown ==
  ASSUME DiskKnown, NEW i \in 1 .. N, NEW g \in DOMAIN Groups(i)
  PROVE  LET w == Written(i, g)
             cs == Groups(i)[g].chunks
         IN  /\ w \in Seq(Message)
             /\ \A k \in DOMAIN w : /\ w[k].id \in Groups(i)[g].ids
                                    /\ \E c \in DOMAIN cs : cs[c].start <= w[k].ts /\ w[k].ts <= cs[c].end
             /\ \A j, k \in DOMAIN w : j < k => Key(w[j].ts) <= Key(w[k].ts)
<1> DEFINE cs == Groups(i)[g].chunks
           s == [c \in DOMAIN cs |-> cs[c].msgs]
           f == FlattenSeq(s)
           w == Written(i, g)
           InChunk(m) == /\ m.id \in Groups(i)[g].ids
                         /\ \E c \in DOMAIN cs : cs[c].start <= m.ts /\ m.ts <= cs[c].end
<1>1. /\ f \in Seq(Message)
      /\ \A k \in DOMAIN f : InChunk(f[k])
      /\ \A j, k \in DOMAIN f : j < k => f[j].ts <= f[k].ts
  BY FlatKnown
<1>2. w = IF call.reverse THEN Reverse(f) ELSE f BY DEF Written, Ordered
<1> HIDE DEF s, w, f, InChunk
<1>3. \A k \in DOMAIN f : f[k].ts \in Int
  <2> SUFFICES ASSUME NEW k \in DOMAIN f PROVE f[k].ts \in Int OBVIOUS
  <2>1. f[k] \in Message BY <1>1
  <2> QED BY <2>1 DEF Message
<1>4. CASE ~call.reverse
  <2>1. w = f BY <1>2, <1>4
  <2>2. \A k \in DOMAIN f : Key(f[k].ts) = f[k].ts BY <1>4 DEF Key
  <2>3. /\ w \in Seq(Message) /\ \A k \in DOMAIN w : InChunk(w[k])
        /\ \A j, k \in DOMAIN w : j < k => Key(w[j].ts) <= Key(w[k].ts)
    BY <1>1, <2>1, <2>2
  <2> QED BY <2>3 DEF w, InChunk
<1>5. CASE call.reverse
  <2> DEFINE l == Len(f)
  <2>1. w = [k \in 1 .. l |-> f[(l - k) + 1]] BY <1>2, <1>5 DEF Reverse
  <2>2. l \in Nat /\ DOMAIN f = 1 .. l BY <1>1
  <2>3. \A k \in 1 .. l : (l - k) + 1 \in 1 .. l BY <2>2
  <2> HIDE DEF l
  <2>4. w \in Seq(Message) /\ DOMAIN w = 1 .. l /\ \A k \in 1 .. l : w[k] = f[(l - k) + 1]
    <3>1. \A k \in 1 .. l : f[(l - k) + 1] \in Message BY <1>1, <2>2, <2>3
    <3> QED BY <2>1, <2>2, <3>1
  <2>5. \A k \in DOMAIN w : InChunk(w[k]) BY <1>1, <2>2, <2>3, <2>4
  <2>6. ASSUME NEW j \in DOMAIN w, NEW k \in DOMAIN w, j < k PROVE Key(w[j].ts) <= Key(w[k].ts)
    <3> DEFINE a == (l - j) + 1
               b == (l - k) + 1
    <3>1. a \in 1 .. l /\ b \in 1 .. l /\ b < a BY <2>2, <2>4, <2>6
    <3>2. w[j] = f[a] /\ w[k] = f[b] BY <2>4
    <3> HIDE DEF a, b
    <3>3. f[b].ts <= f[a].ts /\ f[a].ts \in Int /\ f[b].ts \in Int BY <1>1, <1>3, <2>2, <3>1
    <3>4. Key(f[a].ts) = -f[a].ts /\ Key(f[b].ts) = -f[b].ts BY <1>5 DEF Key
    <3>5. ASSUME NEW x \in Int, NEW y \in Int, y <= x PROVE -x <= -y BY <3>5
    <3> QED BY <3>2, <3>3, <3>4, <3>5
  <2> QED BY <2>4, <2>5, <2>6 DEF w, InChunk
<1> QED BY <1>4, <1>5
-----------------------------------------------------------------------------
LEMMA NameIsNat ==
  ASSUME DiskKnown, NEW i \in 1 .. N, NEW g \in DOMAIN Groups(i), NEW id \in Groups(i)[g].ids
  PROVE  Exposed(i, id) \in Nat /\ id \in Names(i) /\ id \in Nat
<1>1. id \in Nat BY GroupKnown
<1>2. Exposed(i, id) \in Nat BY <1>1 DEF DiskKnown, Exposed
<1>3. id \in Names(i) BY DEF Names
<1> QED BY <1>1, <1>2, <1>3

InFiles(i) == {InFile(i, name) : name \in call.topics}
Wanted(i, g) == {k \in DOMAIN Written(i, g) : call.topics = {} \/ Written(i, g)[k].id \in InFiles(i)}
AskedOf(i, g, n, a) ==
  /\ ListsPlaces(Wanted(i, g), n, a)
  /\ Asked(i, g) = [k \in 1 .. n |-> [name |-> Exposed(i, Written(i, g)[a[k]].id),
                                      ts |-> Written(i, g)[a[k]].ts, n |-> Written(i, g)[a[k]].n]]

LEMMA AskedFound ==
  ASSUME DiskKnown, NEW i \in 1 .. N, NEW g \in DOMAIN Groups(i)
  PROVE  \E n, a : AskedOf(i, g, n, a)
<1> DEFINE w == Written(i, g)
           S == Wanted(i, g)
           p == Picked(w, S)
<1>1. w \in Seq(Message) BY WrittenKnown
<1>2. S \subseteq DOMAIN w BY DEF Wanted
<1>3. Asked(i, g) = [k \in DOMAIN p |-> [name |-> Exposed(i, p[k].id), ts |-> p[k].ts, n |-> p[k].n]]
  BY DEF Asked, Wanted, InFiles
<1> HIDE DEF w, S
<1>4. PICK n, a : ListsPlaces(S, n, a) /\ AtPlaces(p, w, n, a) BY <1>1, <1>2, PickedAt
<1>5. DOMAIN p = 1 .. n /\ \A k \in 1 .. n : p[k] = w[a[k]] BY <1>1, <1>2, <1>4, PickedSeq
<1> HIDE DEF p
<1>6. Asked(i, g) = [k \in 1 .. n |-> [name |-> Exposed(i, w[a[k]].id), ts |-> w[a[k]].ts, n |-> w[a[k]].n]]
  BY <1>3, <1>5
<1>7. AskedOf(i, g, n, a) BY <1>4, <1>6 DEF AskedOf, w, S
<1> QED BY <1>7

LEMMA AskedKnown ==
  ASSUME DiskKnown, NEW i \in 1 .. N, NEW g \in DOMAIN Groups(i)
  PROVE  IsList(i, g, Asked(i, g))
<1> DEFINE w == Written(i, g)
           l == Asked(i, g)
<1>1. PICK n, a : AskedOf(i, g, n, a) BY AskedFound
<1>2. /\ n \in Nat /\ Climbs(a, n) /\ \A k \in 1 .. n : a[k] \in DOMAIN w
      /\ l = [k \in 1 .. n |-> [name |-> Exposed(i, w[a[k]].id), ts |-> w[a[k]].ts, n |-> w[a[k]].n]]
  BY <1>1 DEF AskedOf, ListsPlaces, Wanted
<1>3. /\ w \in Seq(Message)
      /\ \A k \in DOMAIN w : /\ w[k].id \in Groups(i)[g].ids
                             /\ \E c \in DOMAIN Groups(i)[g].chunks : 
                                  Groups(i)[g].chunks[c].start <= w[k].ts /\ w[k].ts <= Groups(i)[g].chunks[c].end
      /\ \A j, k \in DOMAIN w : j < k => Key(w[j].ts) <= Key(w[k].ts)
  BY WrittenKnown
<1> HIDE DEF w
<1>4. \A k \in 1 .. n : /\ l[k].name = Exposed(i, w[a[k]].id) /\ l[k].ts = w[a[k]].ts
                        /\ l[k] = [name |-> Exposed(i, w[a[k]].id), ts |-> w[a[k]].ts, n |-> w[a[k]].n]
  BY <1>2
<1>5. DOMAIN l = 1 .. n /\ l = [k \in 1 .. n |-> l[k]] BY <1>2
<1> HIDE DEF l
<1>6. ASSUME NEW k \in 1 .. n PROVE l[k] \in Sent /\ OfGroup(i, g, l[k].name, l[k].ts)
  <2>1. a[k] \in DOMAIN w /\ w[a[k]] \in Message BY <1>2, <1>3
  <2>2. w[a[k]].id \in Groups(i)[g].ids /\ Exposed(i, w[a[k]].id) \in Nat BY <1>3, <2>1, NameIsNat
  <2>3. w[a[k]].ts \in Int /\ w[a[k]].n \in Nat BY <2>1 DEF Message
  <2>4. l[k] \in Sent
    <3>1. l[k] = [name |-> Exposed(i, w[a[k]].id), ts |-> w[a[k]].ts, n |-> w[a[k]].n] BY <1>4
    <3> QED BY <2>2, <2>3, <3>1 DEF Sent
  <2>5. OfGroup(i, g, Exposed(i, w[a[k]].id), w[a[k]].ts) BY <1>3, <2>1, <2>2 DEF OfGroup
  <2> QED BY <1>4, <2>4, <2>5
<1>7. l \in Seq(Sent)
  <2>1. l \in [1 .. n -> Sent] BY <1>5, <1>6
  <2> QED BY <1>2, <2>1
<1>8. ASSUME NEW j \in 1 .. n, NEW k \in 1 .. n, j < k PROVE Key(l[j].ts) <= Key(l[k].ts)
  <2>1. a[j] < a[k] /\ a[j] \in DOMAIN w /\ a[k] \in DOMAIN w BY <1>2, <1>8 DEF Climbs
  <2>2. Key(w[a[j]].ts) <= Key(w[a[k]].ts) BY <1>3, <2>1
  <2>3. l[j].ts = w[a[j]].ts /\ l[k].ts = w[a[k]].ts BY <1>4
  <2> QED BY <2>2, <2>3
<1> QED BY <1>5, <1>6, <1>7, <1>8 DEF IsList, l

(* Which of the messages of a group a topic's are. *)
Mine(i, g, id) == {k \in DOMAIN Written(i, g) : Written(i, g)[k].id = id}

LEMMA OwnWanted ==
  ASSUME DiskKnown, NEW i \in 1 .. N, Clean(i), ~PassesThrough(i), NEW g \in DOMAIN Groups(i),
         NEW id \in Groups(i)[g].ids
  PROVE  IF call.topics # {} /\ Exposed(i, id) \notin call.topics
         THEN Wanted(i, g) \cap Mine(i, g, id) = {}
         ELSE Mine(i, g, id) \subseteq Wanted(i, g)
<1> DEFINE name == Exposed(i, id)
<1>1. id \in Names(i) BY NameIsNat
<1>2. CASE call.topics # {} /\ name \notin call.topics
  <2> SUFFICES ASSUME id \in InFiles(i) PROVE FALSE BY <1>2 DEF Wanted, Mine
  <2>1. PICK other \in call.topics : id = InFile(i, other) BY DEF InFiles
  <2>2. CASE \E n \in Names(i) : Exposed(i, n) = other
    <3>1. Exposed(i, InFile(i, other)) = other BY <2>2 DEF InFile
    <3> QED BY <1>2, <2>1, <3>1
  <2>3. CASE ~\E n \in Names(i) : Exposed(i, n) = other
    <3>1. id = other BY <2>1, <2>3 DEF InFile
    <3>2. PassesThrough(i) BY <1>1, <2>3, <3>1 DEF PassesThrough
    <3> QED BY <3>2
  <2> QED BY <2>2, <2>3
<1>3. CASE call.topics = {} BY <1>3 DEF Wanted, Mine
<1>4. CASE name \in call.topics
  <2>1. \E n \in Names(i) : Exposed(i, n) = name BY <1>1
  <2>2. InFile(i, name) \in Names(i) /\ Exposed(i, InFile(i, name)) = name BY <2>1 DEF InFile
  <2>3. InFile(i, name) = id BY <1>1, <2>2 DEF Clean
  <2>4. id \in InFiles(i) BY <1>4, <2>3 DEF InFiles
  <2>5. Mine(i, g, id) \subseteq Wanted(i, g) BY <2>4 DEF Wanted, Mine
  <2>6. ~(call.topics # {} /\ name \notin call.topics) BY <1>4
  <2> QED BY <2>5, <2>6
<1> QED BY <1>2, <1>3, <1>4

LEMMA LeftAsked ==
  ASSUME DiskKnown, NEW i \in 1 .. N, Clean(i), ~PassesThrough(i), NEW g \in DOMAIN Groups(i),
         NEW id \in Groups(i)[g].ids
  PROVE  Left(Asked(i, g), i, Exposed(i, id)) = Expected(i, g, id)
<1> DEFINE w == Written(i, g)
           l == Asked(i, g)
           name == Exposed(i, id)
           V == {k \in DOMAIN l : l[k].name = name}
           U == Mine(i, g, id)
           Item(x) == [name |-> name, ts |-> w[x].ts, n |-> w[x].n, sub |-> i]
<1>1. PICK n, a : AskedOf(i, g, n, a) BY AskedFound
<1>2. /\ n \in Nat /\ Climbs(a, n)
      /\ \A k \in 1 .. n : a[k] \in Wanted(i, g)
      /\ \A x \in Wanted(i, g) : \E k \in 1 .. n : a[k] = x
  BY <1>1 DEF AskedOf, ListsPlaces
<1>3. l = [k \in 1 .. n |-> [name |-> Exposed(i, w[a[k]].id), ts |-> w[a[k]].ts, n |-> w[a[k]].n]]
  BY <1>1 DEF AskedOf
<1>4. /\ DOMAIN l = 1 .. n
      /\ \A k \in 1 .. n : l[k].name = Exposed(i, w[a[k]].id) /\ l[k].ts = w[a[k]].ts /\ l[k].n = w[a[k]].n
  BY <1>3
<1>5. w \in Seq(Message) /\ \A k \in DOMAIN w : w[k].id \in Groups(i)[g].ids BY WrittenKnown
<1>6. Wanted(i, g) \subseteq DOMAIN w /\ U = {k \in DOMAIN w : w[k].id = id} BY DEF Wanted, Mine
<1>7. l \in Seq(Sent) BY AskedKnown DEF IsList
<1>8. V \subseteq DOMAIN l OBVIOUS
<1>9. PICK m, b : ListsPlaces(V, m, b) /\ AtPlaces(Picked(l, V), l, m, b) BY <1>7, <1>8, PickedAt
<1>10. m \in Nat /\ \A j \in 1 .. m : b[j] \in V BY <1>9 DEF ListsPlaces
<1>11. Left(l, i, name) = [j \in 1 .. m |-> Item(a[b[j]])]
  <2> DEFINE p == Picked(l, V)
  <2>1. DOMAIN p = 1 .. m /\ \A j \in 1 .. m : p[j] = l[b[j]] /\ b[j] \in V
    BY <1>7, <1>8, <1>9, PickedSeq
  <2>2. Left(l, i, name) = [j \in DOMAIN p |-> [name |-> name, ts |-> p[j].ts, n |-> p[j].n, sub |-> i]]
    BY DEF Left
  <2> HIDE DEF p, l, w
  <2>3. \A j \in 1 .. m : p[j].ts = w[a[b[j]]].ts /\ p[j].n = w[a[b[j]]].n
    BY <1>4, <2>1
  <2> QED BY <2>1, <2>2, <2>3
<1>12. \A k \in V : k \in 1 .. n /\ a[k] \in U
  <2> SUFFICES ASSUME NEW k \in V PROVE k \in 1 .. n /\ a[k] \in U OBVIOUS
  <2>1. k \in 1 .. n /\ Exposed(i, w[a[k]].id) = name BY <1>4
  <2>2. a[k] \in DOMAIN w BY <1>2, <1>6, <2>1
  <2>3. w[a[k]].id \in Names(i) /\ id \in Names(i) BY <1>5, <2>2, NameIsNat
  <2>4. w[a[k]].id = id BY <2>1, <2>3 DEF Clean
  <2> QED BY <1>6, <2>1, <2>2, <2>4
<1>13. CASE call.topics # {} /\ name \notin call.topics
  <2>1. Wanted(i, g) \cap U = {} BY <1>13, OwnWanted
  <2>2. V = {} BY <1>2, <1>12, <2>1
  <2>3. m = 0
    <3> SUFFICES ASSUME m # 0 PROVE FALSE OBVIOUS
    <3>1. 1 \in 1 .. m BY <1>10
    <3> QED BY <1>10, <2>2, <3>1
  <2>4. Expected(i, g, id) = <<>> BY <1>13 DEF Expected
  <2> HIDE DEF Item, l, name
  <2>5. [j \in 1 .. m |-> Item(a[b[j]])] = <<>>
    <3>1. 1 .. m = {} BY <2>3
    <3> QED BY <3>1
  <2> QED BY <1>11, <2>4, <2>5 DEF l, name
<1>14. CASE ~(call.topics # {} /\ name \notin call.topics)
  <2>1. U \subseteq Wanted(i, g) BY <1>14, OwnWanted
  <2>2. U \subseteq {a[k] : k \in V}
    <3> SUFFICES ASSUME NEW x \in U PROVE \E k \in V : a[k] = x OBVIOUS
    <3>1. PICK k \in 1 .. n : a[k] = x BY <1>2, <2>1
    <3>2. w[a[k]].id = id BY <1>6, <3>1
    <3>3. k \in V BY <1>4, <3>2
    <3> QED BY <3>1, <3>3
  <2> DEFINE c == [j \in 1 .. m |-> a[b[j]]]
  <2>4. ListsPlaces(U, m, c)
    <3>1. ListsPlaces(Wanted(i, g), n, a) BY <1>1 DEF AskedOf
    <3>2. V \subseteq 1 .. n BY <1>12
    <3>3. ListsPlaces(V, m, b) BY <1>9
    <3>4. AreValues(U, a, V) BY <1>12, <2>2 DEF AreValues
    <3>5. AreComposed(c, a, b, m) BY DEF AreComposed
    <3> HIDE DEF V, U, c
    <3> QED BY <3>1, <3>2, <3>3, <3>4, <3>5, PlacesAgain
  <2> DEFINE q == Picked(w, U)
  <2>5. q = [j \in 1 .. m |-> w[c[j]]]
    <3>1. w \in Seq(Message) BY <1>5
    <3>2. U \subseteq DOMAIN w BY <1>6
    <3> HIDE DEF w, U, c
    <3> QED BY <2>4, <3>1, <3>2, PickedIs
  <2>6. Expected(i, g, id) = [j \in DOMAIN q |-> [name |-> name, ts |-> q[j].ts, n |-> q[j].n, sub |-> i]]
    BY <1>6, <1>14 DEF Expected
  <2>7. DOMAIN q = 1 .. m /\ \A j \in 1 .. m : q[j] = w[a[b[j]]] BY <2>5
  <2> HIDE DEF q, w, name, l
  <2>8. Expected(i, g, id) = [j \in 1 .. m |-> Item(a[b[j]])] BY <2>6, <2>7
  <2> QED BY <1>11, <2>8 DEF l, name
<1> QED BY <1>13, <1>14
-----------------------------------------------------------------------------
(* What is known of the files and what a call asks for change only with    *)
(* the call.                                                               *)
LEMMA SameFiles ==
  ASSUME disk' = disk, call' = call
  PROVE  /\ N' = N /\ HeapEntry' = HeapEntry /\ Given' = Given
         /\ \A i : Groups(i)' = Groups(i)
         /\ \A i, id : Exposed(i, id)' = Exposed(i, id)
         /\ \A ts : Key(ts)' = Key(ts)
         /\ DiskKnown' <=> DiskKnown
BY DEF N, HeapEntry, Given, Groups, Exposed, Key, DiskKnown

LEMMA SamePlaces ==
  ASSUME disk' = disk, call' = call
  PROVE  /\ \A i, g, name, ts : OfGroup(i, g, name, ts)' <=> OfGroup(i, g, name, ts)
         /\ \A i, name, ts : OfFile(i, name, ts)' <=> OfFile(i, name, ts)
<1>1. \A i : Groups(i)' = Groups(i) BY SameFiles
<1>2. \A i, id : Exposed(i, id)' = Exposed(i, id) BY SameFiles
<1>3. \A i, g, name, ts : OfGroup(i, g, name, ts)' <=> OfGroup(i, g, name, ts) BY <1>1, <1>2 DEF OfGroup
<1> QED BY <1>1, <1>3 DEF OfFile

LEMMA SameLists ==
  ASSUME disk' = disk, call' = call
  PROVE  /\ \A i, g, list : IsList(i, g, list)' <=> IsList(i, g, list)
         /\ \A i, lists : AreLists(i, lists)' <=> AreLists(i, lists)
         /\ \A key, lists : Ahead(key, lists)' <=> Ahead(key, lists)
         /\ \A e : IsEntry(e)' <=> IsEntry(e)
         /\ \A p : IsPopped(p)' <=> IsPopped(p)
<1>1. /\ N' = N /\ HeapEntry' = HeapEntry
      /\ \A i : Groups(i)' = Groups(i)
      /\ \A ts : Key(ts)' = Key(ts)
  BY SameFiles
<1>2. \A i, g, name, ts : OfGroup(i, g, name, ts)' <=> OfGroup(i, g, name, ts) BY SamePlaces
<1>3. \A i, name, ts : OfFile(i, name, ts)' <=> OfFile(i, name, ts) BY SamePlaces
<1>4. \A i, g, list : IsList(i, g, list)' <=> IsList(i, g, list) BY <1>1, <1>2 DEF IsList, Sent
<1>5. \A i, lists : AreLists(i, lists)' <=> AreLists(i, lists) BY <1>1, <1>4 DEF AreLists, Sent
<1>6. \A key, lists : Ahead(key, lists)' <=> Ahead(key, lists) BY <1>1 DEF Ahead
<1>7. \A e : IsEntry(e)' <=> IsEntry(e) BY <1>1, <1>3 DEF IsEntry
<1>8. \A p : IsPopped(p)' <=> IsPopped(p) BY <1>1, <1>7 DEF IsPopped, NoEntry
<1> QED BY <1>4, <1>5, <1>6, <1>7, <1>8

LEMMA SameAnswers ==
  ASSUME disk' = disk, call' = call
  PROVE  /\ \A i : PassesThrough(i)' <=> PassesThrough(i)
         /\ \A i, g, id : Expected(i, g, id)' = Expected(i, g, id)
<1>1. \A i : Groups(i)' = Groups(i) BY SameFiles
<1>2. \A i, id : Exposed(i, id)' = Exposed(i, id) BY SameFiles
<1>3. \A i : Names(i)' = Names(i) BY <1>1 DEF Names
<1>4. \A i : PassesThrough(i)' <=> PassesThrough(i) BY <1>2, <1>3 DEF PassesThrough
<1>5. \A i, g : Written(i, g)' = Written(i, g) BY <1>1 DEF Written, Ordered
<1>6. ASSUME NEW i, NEW g, NEW id PROVE Expected(i, g, id)' = Expected(i, g, id)
  <2> DEFINE From(all, name, topics) ==
               LET mine == Picked(all, {k \in DOMAIN all : all[k].id = id})
               IN  IF topics # {} /\ name \notin topics THEN <<>>
                   ELSE [k \in DOMAIN mine |-> [name |-> name, ts |-> mine[k].ts, n |-> mine[k].n, sub |-> i]]
  <2>1. Expected(i, g, id) = From(Written(i, g), Exposed(i, id), call.topics) BY DEF Expected
  <2>2. Expected(i, g, id)' = From(Written(i, g)', Exposed(i, id)', call'.topics) BY DEF Expected
  <2> HIDE DEF From
  <2> QED BY <1>2, <1>5, <2>1, <2>2
<1> QED BY <1>4, <1>6

LEMMA SameScope ==
  ASSUME disk' = disk, call' = call
  PROVE  (AllClean' <=> AllClean) /\ (VideosOverlap(ReadScope)' <=> VideosOverlap(ReadScope))
<1>1. N' = N BY SameFiles
<1>2. \A i : Bounds(i)' = Bounds(i) BY DEF Bounds, Groups, Exposed
<1>3. ReadScope' = ReadScope BY <1>1, <1>2 DEF ReadScope, AllKnown
<1>4. VideosOverlap(ReadScope)' <=> VideosOverlap(ReadScope) BY <1>1, <1>2, <1>3 DEF VideosOverlap, Overlap
<1> QED BY <1>4, SameDisk
-----------------------------------------------------------------------------
(* The part of the heap that is one iterator's. *)
Alone(h, i) == \A k, l \in DOMAIN h : h[k].sub = i /\ h[l].sub = i => k = l
Item(name, e, n, i) == [name |-> name, ts |-> e.ts, n |-> n, sub |-> i]

LEMMA QueuedNone ==
  ASSUME NEW h, NEW b, NEW i, NEW name, \A k \in DOMAIN h : h[k].sub # i
  PROVE  Queued(h, b, i, name) = <<>>
<1>1. {k \in DOMAIN h : h[k].sub = i /\ h[k].name = name} = {} OBVIOUS
<1> QED BY <1>1 DEF Queued

LEMMA QueuedOne ==
  ASSUME NEW h, NEW b, NEW i, NEW name, Alone(h, i), NEW k \in DOMAIN h, h[k].sub = i
  PROVE  Queued(h, b, i, name) = IF h[k].name = name THEN <<Item(name, h[k], b, i)>> ELSE <<>>
<1> DEFINE mine == {l \in DOMAIN h : h[l].sub = i /\ h[l].name = name}
<1>1. \A l \in DOMAIN h : h[l].sub = i => l = k BY DEF Alone
<1>2. mine = IF h[k].name = name THEN {k} ELSE {} BY <1>1
<1>3. Queued(h, b, i, name) = IF mine = {} THEN <<>> ELSE <<Item(name, h[CHOOSE l \in mine : TRUE], b, i)>>
  BY DEF Queued, Item
<1> HIDE DEF mine
<1>4. CASE h[k].name = name
  <2>1. mine = {k} BY <1>2, <1>4
  <2>2. (CHOOSE l \in mine : TRUE) = k BY <2>1
  <2> QED BY <1>3, <1>4, <2>1, <2>2
<1>5. CASE h[k].name # name BY <1>2, <1>3, <1>5
<1> QED BY <1>4, <1>5

(* Two heaps with the same entries of an iterator. *)
Same(h, f, i) ==
  /\ \A k \in DOMAIN h : h[k].sub = i => \E l \in DOMAIN f : f[l] = h[k]
  /\ \A l \in DOMAIN f : f[l].sub = i => \E k \in DOMAIN h : f[l] = h[k]

LEMMA QueuedSame ==
  ASSUME NEW h, NEW f, NEW b, NEW i, NEW name, Alone(h, i), Alone(f, i), Same(h, f, i)
  PROVE  Queued(h, b, i, name) = Queued(f, b, i, name)
<1>1. CASE \A k \in DOMAIN h : h[k].sub # i
  <2>1. \A l \in DOMAIN f : f[l].sub # i BY <1>1 DEF Same
  <2> QED BY <1>1, <2>1, QueuedNone
<1>2. CASE \E k \in DOMAIN h : h[k].sub = i
  <2>1. PICK k \in DOMAIN h : h[k].sub = i BY <1>2
  <2>2. PICK l \in DOMAIN f : f[l] = h[k] BY <2>1 DEF Same
  <2>3. f[l].sub = i BY <2>1, <2>2
  <2>4. Queued(h, b, i, name) = IF h[k].name = name THEN <<Item(name, h[k], b, i)>> ELSE <<>>
    BY <2>1, QueuedOne
  <2>5. Queued(f, b, i, name) = IF f[l].name = name THEN <<Item(name, f[l], b, i)>> ELSE <<>>
    BY <2>3, QueuedOne
  <2> QED BY <2>2, <2>4, <2>5
<1> QED BY <1>1, <1>2

(* What an iterator has left. *)
LEMMA LeftEmpty == ASSUME NEW i, NEW name PROVE Left(<<>>, i, name) = <<>>
<1> DEFINE e == <<>>
           S == {k \in DOMAIN e : e[k].name = name}
           p == Picked(e, S)
<1>1. DOMAIN e = {} /\ e \in Seq(Sent) OBVIOUS
<1>2. S = {} /\ S \subseteq DOMAIN e BY <1>1
<1>3. Left(e, i, name) = [k \in DOMAIN p |-> [name |-> name, ts |-> p[k].ts, n |-> p[k].n, sub |-> i]]
  BY DEF Left
<1> HIDE DEF e, S
<1>4. p \in Seq(Sent) /\ \A k \in DOMAIN p : Arranged(S)[k] \in S BY <1>1, <1>2, PickedFacts
<1>5. DOMAIN p = {} BY <1>2, <1>4
<1> HIDE DEF p
<1>6. Left(e, i, name) = <<>> BY <1>3, <1>5
<1> QED BY <1>6 DEF e

LEMMA LeftKnown ==
  ASSUME NEW i \in 1 .. N, NEW name \in Nat, NEW list \in Seq(Sent)
  PROVE  Left(list, i, name) \in Seq(Given)
<1> DEFINE S == {k \in DOMAIN list : list[k].name = name}
           p == Picked(list, S)
<1>1. p \in Seq(Sent)
  <2>1. S \subseteq DOMAIN list OBVIOUS
  <2> HIDE DEF S
  <2> QED BY <2>1, PickedFacts
<1>2. Left(list, i, name) = [k \in DOMAIN p |-> [name |-> name, ts |-> p[k].ts, n |-> p[k].n, sub |-> i]]
  BY DEF Left
<1> HIDE DEF p
<1>3. DOMAIN p = 1 .. Len(p) /\ Len(p) \in Nat BY <1>1
<1>4. \A k \in 1 .. Len(p) : [name |-> name, ts |-> p[k].ts, n |-> p[k].n, sub |-> i] \in Given
  <2> SUFFICES ASSUME NEW k \in 1 .. Len(p)
               PROVE  [name |-> name, ts |-> p[k].ts, n |-> p[k].n, sub |-> i] \in Given
    OBVIOUS
  <2>1. p[k] \in Sent BY <1>1
  <2>2. p[k].ts \in Int /\ p[k].n \in Nat BY <2>1 DEF Sent
  <2> QED BY <2>2 DEF Given
<1> QED BY <1>2, <1>3, <1>4

LEMMA LeftTail ==
  ASSUME NEW i, NEW name, NEW list \in Seq(Sent), list # <<>>
  PROVE  Left(list, i, name) =
           IF Head(list).name = name
           THEN <<Item(name, Head(list), Head(list).n, i)>> \o Left(Tail(list), i, name)
           ELSE Left(Tail(list), i, name)
<1> DEFINE S == {k \in DOMAIN list : list[k].name = name}
           t == Tail(list)
           U == {k \in DOMAIN t : k + 1 \in S}
           V == {k \in DOMAIN t : t[k].name = name}
           Out(p) == [k \in DOMAIN p |-> [name |-> name, ts |-> p[k].ts, n |-> p[k].n, sub |-> i]]
<1>1. /\ t \in Seq(Sent) /\ Len(t) \in Nat /\ DOMAIN t = 1 .. Len(t) /\ DOMAIN list = 1 .. Len(t) + 1
      /\ \A k \in DOMAIN t : t[k] = list[k + 1]
      /\ Head(list) = list[1]
  OBVIOUS
<1>2. U = V BY <1>1
<1>3. 1 \in S <=> Head(list).name = name BY <1>1
<1>4. /\ 1 \notin S => Picked(list, S) = Picked(t, U)
      /\ 1 \in S => Picked(list, S) = <<Head(list)>> \o Picked(t, U)
  <2>1. S \subseteq DOMAIN list OBVIOUS
  <2> HIDE DEF S
  <2> QED BY <2>1, PickedTail
<1>5. Left(list, i, name) = Out(Picked(list, S)) /\ Left(t, i, name) = Out(Picked(t, V)) BY DEF Left
<1>6. Picked(t, V) \in Seq(Sent)
  <2>1. V \subseteq DOMAIN t OBVIOUS
  <2> HIDE DEF V, t
  <2> QED BY <1>1, <2>1, PickedFacts
<1>7. \A p \in Seq(Sent) : Out(<<Head(list)>> \o p) = <<Item(name, Head(list), Head(list).n, i)>> \o Out(p)
  <2> SUFFICES ASSUME NEW p \in Seq(Sent)
               PROVE  Out(<<Head(list)>> \o p) = <<Item(name, Head(list), Head(list).n, i)>> \o Out(p)
    OBVIOUS
  <2> DEFINE x == Head(list)
             y == Item(name, x, x.n, i)
             q == <<x>> \o p
             G(e) == [name |-> name, ts |-> e.ts, n |-> e.n, sub |-> i]
  <2>1. x \in Sent BY <1>1
  <2>2. y = G(x) BY DEF Item
  <2> HIDE DEF x, y
  <2>3. /\ DOMAIN q = 1 .. Len(p) + 1 /\ q[1] = x /\ Len(p) \in Nat /\ DOMAIN p = 1 .. Len(p)
        /\ \A k \in 2 .. Len(p) + 1 : q[k] = p[k - 1]
    BY <2>1
  <2>4. Out(q) = [k \in 1 .. Len(p) + 1 |-> G(q[k])] /\ Out(p) = [k \in 1 .. Len(p) |-> G(p[k])]
    BY <2>3
  <2> HIDE DEF q, Out, G
  <2>5. Out(p) \in Seq({G(p[k]) : k \in 1 .. Len(p)}) /\ Len(Out(p)) = Len(p) BY <2>3, <2>4
  <2>6. <<y>> \o Out(p) = [k \in 1 .. Len(p) + 1 |-> IF k = 1 THEN y ELSE Out(p)[k - 1]]
    BY <2>3, <2>5
  <2>7. \A k \in 1 .. Len(p) + 1 : G(q[k]) = IF k = 1 THEN y ELSE Out(p)[k - 1]
    BY <2>2, <2>3, <2>4
  <2> QED BY <2>4, <2>6, <2>7 DEF q, x, y
<1> HIDE DEF S, U, V, Out, t
<1> QED BY <1>2, <1>3, <1>4, <1>5, <1>6, <1>7 DEF t

(* What the caller has of an iterator, with the next message. *)
LEMMA FromSubAppend ==
  ASSUME delivered \in Seq(Given), NEW x \in Given, delivered' = Append(delivered, x), NEW i, NEW name
  PROVE  FromSub(i, name)' = FromSub(i, name) \o (IF x.sub = i /\ x.name = name THEN <<x>> ELSE <<>>)
<1> DEFINE d == delivered
           e == Append(d, x)
           S == {k \in DOMAIN d : d[k].sub = i /\ d[k].name = name}
           U == {k \in DOMAIN e : e[k].sub = i /\ e[k].name = name}
           l == Len(d) + 1
<1>1. /\ DOMAIN d = 1 .. Len(d) /\ Len(d) \in Nat /\ DOMAIN e = 1 .. l /\ e[l] = x
      /\ \A k \in DOMAIN d : e[k] = d[k]
  OBVIOUS
<1>2. FromSub(i, name) = Picked(d, S) /\ FromSub(i, name)' = Picked(e, U) BY DEF FromSub
<1>3. U = IF x.sub = i /\ x.name = name THEN S \cup {l} ELSE S BY <1>1
<1>4. d \in Seq(Given) /\ S \subseteq DOMAIN d OBVIOUS
<1> HIDE DEF S, U, d
<1>5. Picked(e, S) = Picked(d, S) /\ Picked(e, S \cup {l}) = Append(Picked(d, S), x) BY <1>4, PickedAppend
<1>6. Picked(d, S) \in Seq(Given) BY <1>4, PickedFacts
<1> HIDE DEF e, l
<1>7. CASE x.sub = i /\ x.name = name
  <2>1. Append(Picked(d, S), x) = Picked(d, S) \o <<x>> BY <1>6
  <2> QED BY <1>2, <1>3, <1>5, <1>7, <2>1
<1>8. CASE ~(x.sub = i /\ x.name = name)
  <2>1. Picked(d, S) \o <<>> = Picked(d, S) BY <1>6
  <2> QED BY <1>2, <1>3, <1>5, <1>8, <2>1
<1> QED BY <1>7, <1>8
-----------------------------------------------------------------------------
LEMMA Nothing == ASSUME NEW s, NEW S, S = {} PROVE Picked(s, S) = <<>>
<1>1. Arranged(S) \in Seq(S)
  <2>1. IsFiniteSet(S) /\ S \subseteq Int BY FS_EmptySet
  <2> QED BY <2>1, ArrangedFacts
<1>2. DOMAIN Arranged(S) = {} BY <1>1
<1> DEFINE place == Arranged(S)
<1>3. Picked(s, S) = [k \in DOMAIN place |-> s[place[k]]] BY DEF Picked
<1> HIDE DEF place
<1> QED BY <1>2, <1>3 DEF place

(* Before the first message. *)
AllAsked ==
  \A i \in DOMAIN subs : ~PassesThrough(i) =>
    \A g \in DOMAIN Groups(i) : \A id \in Groups(i)[g].ids :
      Left(subs[i][g], i, Exposed(i, id)) = Expected(i, g, id)
Unread ==
  /\ DiskKnown /\ N \in Nat /\ Fresh /\ bufs \in [1 .. N -> Nat]
  /\ subs \in Seq(Seq(Seq(Sent))) /\ Len(subs) <= N
  /\ \A i \in DOMAIN subs : AreLists(i, subs[i])

LEMMA UnreadTypes == Unread => MergeTypes /\ MergeTimes /\ MergeRoom
<1> SUFFICES ASSUME Unread PROVE MergeTypes /\ MergeTimes /\ MergeRoom OBVIOUS
<1>1. /\ heap = <<>> /\ popped = NoEntry /\ pulling = 0 /\ loaded = FALSE
      /\ delivered = <<>> /\ failures = 0 /\ N \in Nat /\ bufs \in [1 .. N -> Nat]
  BY DEF Unread, Fresh
<1>2. DOMAIN heap = {} /\ DOMAIN delivered = {} /\ Len(heap) = 0 BY <1>1
<1>3. heap \in Seq(HeapEntry) /\ IsHeap(heap) /\ delivered \in Seq(Given)
  BY <1>1, <1>2 DEF IsHeap
<1>4. MergeTypes BY <1>1, <1>2, <1>3 DEF MergeTypes, Unread, IsPopped
<1>5. MergeTimes BY <1>1, <1>2 DEF MergeTimes
<1>6. \A i \in DOMAIN subs : ~Served(i)
  <2> SUFFICES ASSUME NEW i \in DOMAIN subs PROVE ~(i < 0) BY <1>1 DEF Served
  <2>1. subs \in Seq(Seq(Seq(Sent))) BY DEF Unread
  <2> DEFINE Listing == Seq(Seq(Sent))
  <2>2. subs \in Seq(Listing) BY <2>1
  <2> HIDE DEF Listing
  <2> QED BY <2>2
<1>7. MergeRoom BY <1>2, <1>6 DEF MergeRoom
<1> QED BY <1>4, <1>5, <1>7

LEMMA UnreadPiped ==
  ASSUME Unread, NEW i \in DOMAIN subs, NEW g \in DOMAIN Groups(i), NEW name \in Nat
  PROVE  Piped(i, g, name) = Left(subs[i][g], i, name)
<1>1. heap = <<>> /\ popped = NoEntry /\ delivered = <<>> /\ N \in Nat BY DEF Unread, Fresh
<1>2. i \in 1 .. N
  <2> DEFINE Listing == Seq(Seq(Sent))
  <2>1. subs \in Seq(Listing) /\ Len(subs) <= N BY DEF Unread
  <2> HIDE DEF Listing
  <2> QED BY <1>1, <2>1
<1>3. DOMAIN heap = {} /\ DOMAIN delivered = {} BY <1>1
<1>4. FromSub(i, name) = <<>> 
  <2>1. {k \in DOMAIN delivered : delivered[k].sub = i /\ delivered[k].name = name} = {} BY <1>3
  <2> QED BY <2>1, Nothing DEF FromSub
<1>5. Queued(heap, bufs[i], i, name) = <<>> BY <1>3, QueuedNone
<1>6. Popping(popped, i, name) = <<>>
  <2>1. popped.entry.sub = 0 BY <1>1 DEF NoEntry
  <2>2. i # 0 BY <1>1, <1>2
  <2> QED BY <2>1, <2>2 DEF Popping
<1>7. subs[i][g] \in Seq(Sent) BY DEF Unread, AreLists, IsList
<1>8. Left(subs[i][g], i, name) \in Seq(Given) BY <1>2, <1>7, LeftKnown
<1> DEFINE l == Left(subs[i][g], i, name)
<1> HIDE DEF l
<1>9. <<>> \o (<<>> \o (<<>> \o l)) = l BY <1>8 DEF l
<1> QED BY <1>4, <1>5, <1>6, <1>9 DEF Piped, l

LEMMA UnreadPipe == Unread => (MergePipe <=> AllAsked)
<1> SUFFICES ASSUME Unread PROVE MergePipe <=> AllAsked OBVIOUS
<1>1. failures = 0 BY DEF Unread, Fresh
<1>2. ASSUME NEW i \in DOMAIN subs, NEW g \in DOMAIN Groups(i), NEW id \in Groups(i)[g].ids
      PROVE  Piped(i, g, Exposed(i, id)) = Left(subs[i][g], i, Exposed(i, id))
  <2>1. i \in 1 .. N /\ DiskKnown
    <3> DEFINE Listing == Seq(Seq(Sent))
    <3>1. subs \in Seq(Listing) /\ Len(subs) <= N /\ N \in Nat /\ DiskKnown BY DEF Unread
    <3> HIDE DEF Listing
    <3> QED BY <3>1
  <2>2. Exposed(i, id) \in Nat BY <2>1, NameIsNat
  <2> QED BY <2>2, UnreadPiped
<1> QED BY <1>1, <1>2 DEF MergePipe, AllAsked
-----------------------------------------------------------------------------
(* A step that leaves the parts of the merge as they are. *)
LEMMA QuietParts ==
  ASSUME MergeKnown, disk' = disk, call' = call,
         UNCHANGED <<subs, bufs, heap, loaded, popped, delivered, failures>>,
         pulling' = pulling \/ popped = NoEntry
  PROVE  /\ DiskKnown' /\ MergeTypes' /\ MergeTimes' /\ MergePipe'
         /\ pulling' = pulling => MergeRoom'
<1>1. /\ subs' = subs /\ bufs' = bufs /\ heap' = heap /\ loaded' = loaded
      /\ popped' = popped /\ delivered' = delivered /\ failures' = failures
  OBVIOUS
<1>2. /\ N' = N /\ HeapEntry' = HeapEntry /\ Given' = Given
      /\ \A i : Groups(i)' = Groups(i)
      /\ \A i, id : Exposed(i, id)' = Exposed(i, id)
      /\ \A ts : Key(ts)' = Key(ts)
      /\ DiskKnown' <=> DiskKnown
  BY SameFiles
<1>3. /\ \A i, lists : AreLists(i, lists)' <=> AreLists(i, lists)
      /\ \A key, lists : Ahead(key, lists)' <=> Ahead(key, lists)
      /\ \A e : IsEntry(e)' <=> IsEntry(e)
      /\ \A p : IsPopped(p)' <=> IsPopped(p)
  BY SameLists
<1>4. \A i, name, ts : OfFile(i, name, ts)' <=> OfFile(i, name, ts) BY SamePlaces
<1>5. MergeTypes'
  <2>1. IsPopped(popped)' BY <1>1, <1>3 DEF MergeKnown, MergeInv, MergeTypes, IsPopped, NoEntry
  <2>2. \A k \in DOMAIN heap' : IsEntry(heap[k])' 
    BY <1>1, <1>3 DEF MergeKnown, MergeInv, MergeTypes, IsEntry
  <2>3. \A i \in DOMAIN subs' : AreLists(i, subs[i])'
    BY <1>1, <1>3 DEF MergeKnown, MergeInv, MergeTypes
  <2>4. \A k \in DOMAIN delivered' : OfFile(delivered[k].sub, delivered[k].name, delivered[k].ts)'
    BY <1>1, <1>4 DEF MergeKnown, MergeInv, MergeTypes
  <2>5. IsHeap(heap)' BY <1>1 DEF MergeKnown, MergeInv, MergeTypes, IsHeap
  <2> QED BY <1>1, <1>2, <2>1, <2>2, <2>3, <2>4, <2>5 DEF MergeKnown, MergeInv, MergeTypes, Sent
<1>6. MergeTimes'
  <2>1. CASE pulling' = pulling BY <1>1, <1>2, <2>1 DEF MergeKnown, MergeInv, MergeTimes, Ahead, NoEntry
  <2>2. CASE popped = NoEntry
    <3>1. popped' = NoEntry' BY <1>1, <2>2 DEF NoEntry
    <3> QED BY <1>1, <1>2, <3>1 DEF MergeKnown, MergeInv, MergeTimes, Ahead
  <2> QED BY <2>1, <2>2
<1>7. pulling' = pulling => MergeRoom' BY <1>1 DEF MergeKnown, MergeInv, MergeRoom, Served
<1>8. MergePipe'
  <2>1. /\ \A i : PassesThrough(i)' <=> PassesThrough(i)
        /\ \A i, g, id : Expected(i, g, id)' = Expected(i, g, id)
    BY SameAnswers
  <2>2. \A i, name : FromSub(i, name)' = FromSub(i, name) BY <1>1 DEF FromSub
  <2>3. ASSUME NEW i, NEW g, NEW name PROVE Piped(i, g, name)' = Piped(i, g, name)
    <3>1. Popping(popped, i, name)' = Popping(popped, i, name) BY <1>1 DEF Popping, Returned
    <3>2. Queued(heap, bufs[i], i, name)' = Queued(heap, bufs[i], i, name) BY <1>1 DEF Queued
    <3>3. Left(subs[i][g], i, name)' = Left(subs[i][g], i, name) BY <1>1 DEF Left
    <3> QED BY <2>2, <3>1, <3>2, <3>3 DEF Piped
  <2> QED BY <1>1, <1>2, <2>1, <2>3 DEF MergeKnown, MergeInv, MergePipe
<1> QED BY <1>2, <1>5, <1>6, <1>7, <1>8 DEF MergeKnown

(* A stream is not yet, or no longer, there. *)
LEMMA NotYet ==
  ASSUME MergeInv, phase \notin Streams, phase # "idle"
  PROVE  Fresh
BY DEF MergeInv, MergePhase

(* The steps that leave the stream alone. *)
LEMMA QuietInv ==
  ASSUME MergeKnown, Fresh, disk' = disk, call' = call, UNCHANGED streamVars,
         phase' \notin {"open", "pull", "pop"},
         phase' \in {"bounds", "check"} /\ call.op = "read" => Len(subs) = N,
         phase' = "stream" => Len(subs) = N /\ AllClean /\ (call.videoDecodable => ~VideosOverlap(ReadScope))
  PROVE  MergeKnown'
<1>1. /\ subs' = subs /\ bufs' = bufs /\ heap' = heap /\ loaded' = loaded /\ pulling' = pulling
      /\ popped' = popped /\ delivered' = delivered /\ failures' = failures /\ result' = result
  BY DEF streamVars
<1>2. N' = N /\ (AllClean' <=> AllClean) /\ (VideosOverlap(ReadScope)' <=> VideosOverlap(ReadScope))
  BY SameFiles, SameScope
<1>3. /\ heap = <<>> /\ popped = NoEntry /\ pulling = 0 /\ loaded = FALSE
      /\ delivered = <<>> /\ result = "none" /\ failures = 0
  BY DEF Fresh
<1>4. Fresh' BY <1>1, <1>3 DEF Fresh, NoEntry
<1>5. popped' = NoEntry BY <1>1, <1>3
<1>6. MergePhase'
  <2>1. phase' \in Streams => phase' = "stream" BY DEF Streams
  <2>2. (popped # NoEntry)' <=> FALSE BY <1>5 DEF NoEntry
  <2> QED BY <1>1, <1>2, <1>3, <1>4, <2>1, <2>2 DEF MergePhase
<1>7. MergeScope'
  <2>1. delivered' = <<>> /\ (phase' \in Streams => phase' = "stream") BY <1>1, <1>3 DEF Streams
  <2> QED BY <1>2, <2>1 DEF MergeScope
<1> QED BY <1>1, <1>6, <1>7, QuietParts DEF MergeKnown, MergeInv

LEMMA LoadingMerge == ASSUME Inv, MergeKnown, Loading PROVE MergeKnown'
<1>1. disk' = disk /\ UNCHANGED <<callVars, streamVars>> /\ phase \in {"summary", "sample", "bounds", "open"}
  BY DEF Loading, LoadSummary
<1>2. call' = call /\ phase' = phase /\ at' = at BY <1>1 DEF callVars
<1>3. Fresh BY <1>1, NotYet DEF MergeKnown, Streams
<1>4. CASE phase # "open"
  <2>1. phase \in {"bounds", "check"} /\ call.op = "read" => Len(subs) = N
    BY DEF MergeKnown, MergeInv, MergePhase
  <2> QED BY <1>1, <1>2, <1>3, <1>4, <2>1, QuietInv
<1>5. CASE phase = "open"
  <2>1. /\ subs' = subs /\ heap' = heap /\ loaded' = loaded /\ pulling' = pulling
        /\ popped' = popped /\ delivered' = delivered /\ failures' = failures /\ result' = result
    BY <1>1 DEF streamVars
  <2>2. Fresh' BY <1>3, <2>1 DEF Fresh, NoEntry
  <2>3. popped' = NoEntry /\ pulling' = 0 /\ delivered' = <<>> /\ loaded' = FALSE
    BY <1>3, <2>1 DEF Fresh
  <2>4. Len(subs) = at - 1 BY <1>5 DEF MergeKnown, MergeInv, MergePhase
  <2>5. (popped # NoEntry)' <=> FALSE BY <2>3 DEF NoEntry
  <2>6. MergePhase' BY <1>2, <1>5, <2>1, <2>2, <2>3, <2>4, <2>5 DEF MergePhase, Streams
  <2>7. MergeScope' BY <1>2, <1>5, <2>3 DEF MergeScope, Streams
  <2>8. bufs' = bufs BY <1>1 DEF streamVars
  <2> QED BY <1>1, <1>2, <2>1, <2>6, <2>7, <2>8, QuietParts DEF MergeKnown, MergeInv
<1> QED BY <1>4, <1>5

(* The steps of Summary and Sample, and those that give a call up. *)
LEMMA OtherMerge ==
  ASSUME Inv, MergeKnown,
         LoadFails \/ Summary \/ BoundsOf \/ CheckSample \/ Dispatch \/ Sample \/ Engine \/ EngineFails
         \/ EngineDone \/ OpenFails
  PROVE  MergeKnown'
<1>1. disk' = disk /\ call' = call /\ UNCHANGED streamVars
  BY DEF LoadFails, Summary, BoundsOf, CheckSample, Dispatch, Sample, Engine, EngineFails,
         EngineDone, OpenFails, callVars, readerVars
<1>2. phase \notin Streams /\ phase # "idle"
  <2>1. step = "failed" => phase \in Loads BY DEF Inv, Types
  <2> QED BY <2>1 DEF LoadFails, Summary, BoundsOf, CheckSample, Dispatch, Sample, Engine, EngineFails,
         EngineDone, OpenFails, Streams, Loads
<1>3. Fresh BY <1>2, NotYet DEF MergeKnown
<1>4. \/ phase' \in {"idle", "dispatch", "sample", "engine"}
      \/ phase = "bounds" /\ phase' \in {"bounds", "check"}
  BY DEF LoadFails, Summary, BoundsOf, CheckSample, Dispatch, Sample, Engine, EngineFails,
         EngineDone, OpenFails, Return, GoTo, callVars
<1>5. phase = "bounds" /\ call.op = "read" => Len(subs) = N BY DEF MergeKnown, MergeInv, MergePhase
<1> QED BY <1>1, <1>3, <1>4, <1>5, QuietInv

LEMMA CheckReadMerge == ASSUME Inv, MergeKnown, CheckRead PROVE MergeKnown'
<1>1. disk' = disk /\ call' = call /\ UNCHANGED streamVars /\ phase = "check" /\ call.op = "read"
  BY DEF CheckRead
<1>2. Fresh BY <1>1, NotYet DEF MergeKnown, Streams
<1>3. Len(subs) = N /\ AllClean BY <1>1, InvFacts DEF MergeKnown, MergeInv, MergePhase, Passed
<1>4. phase' = "idle" \/ (phase' = "stream" /\ ~VideosOverlap(ReadScope)) BY DEF CheckRead, Return
<1> QED BY <1>1, <1>2, <1>3, <1>4, QuietInv
-----------------------------------------------------------------------------
(* A call begins, and at each Reader it gets an iterator. *)
LEMMA BeginsMerge == Unread /\ AllAsked /\ MergePhase /\ MergeScope => MergeKnown
BY UnreadTypes, UnreadPipe DEF MergeKnown, MergeInv, Unread

LEMMA CallStartsMerge == ASSUME Inv, MergeKnown, CallStarts PROVE MergeKnown'
<1>1. /\ disk' = disk /\ phase = "idle" /\ script # <<>> /\ call' = Head(script) /\ NoStream
      /\ GoTo(FirstPhase(call'), IF call'.op \in {"summary", "sample"} THEN call'.reader ELSE 1)
  BY DEF CallStarts
<1>2. N' = N /\ N \in Nat /\ (DiskKnown' <=> DiskKnown)
  BY <1>1, InvFacts DEF N, DiskKnown, Groups, Types, Inv
<1>3. /\ subs' = <<>> /\ bufs' = [i \in 1 .. N |-> 0] /\ heap' = <<>> /\ loaded' = FALSE
      /\ pulling' = 0 /\ popped' = NoEntry /\ delivered' = <<>> /\ result' = "none" /\ failures' = 0
  BY <1>1 DEF NoStream
<1>4. Fresh' BY <1>3 DEF Fresh, NoEntry
<1>5. DOMAIN subs' = {} /\ Len(subs') = 0 BY <1>3
<1>6. Unread' BY <1>2, <1>3, <1>4, <1>5 DEF Unread, MergeKnown, Sent
<1>7. AllAsked' BY <1>5 DEF AllAsked
<1>8. call' \in Call
  <2>1. script \in Seq(Call) BY DEF Inv, Types
  <2> HIDE DEF Call
  <2> QED BY <1>1, <2>1
<1>9. \/ phase' = "open" /\ at' = 1
      \/ phase' \in {"summary", "sample"}
      \/ phase' = "bounds" /\ call'.op # "read"
  <2>1. call'.op \in Ops BY <1>8 DEF Call
  <2> QED BY <1>1, <2>1 DEF GoTo, FirstPhase, Ops
<1>10. (popped # NoEntry)' <=> FALSE BY <1>3 DEF NoEntry
<1>11. MergePhase'
  <2>1. phase' \in {"open", "summary", "sample", "bounds"} BY <1>9
  <2>2. phase' = "open" => Len(subs') = at' - 1
    <3>1. phase' = "open" => at' = 1 BY <1>9
    <3> QED BY <1>5, <3>1
  <2>3. ~(phase' \in {"bounds", "check"} /\ call'.op = "read") BY <1>9
  <2> QED BY <1>3, <1>4, <1>10, <2>1, <2>2, <2>3 DEF MergePhase, Streams
<1>12. MergeScope' BY <1>3, <1>9 DEF MergeScope, Streams
<1> QED BY <1>6, <1>7, <1>11, <1>12, BeginsMerge, PTL

LEMMA InitMerge == ASSUME SessionsAssumption, Init, Inv PROVE MergeKnown
<1>1. PICK s \in Sessions : disk = s.disk BY DEF Init
<1>2. DiskKnown BY <1>1, SessionsAssumption DEF SessionsAssumption, DiskKnown, N, Groups, Sampleable
<1>3. /\ subs = <<>> /\ bufs = [i \in 1 .. N |-> 0] /\ heap = <<>> /\ loaded = FALSE
      /\ pulling = 0 /\ popped = NoEntry /\ delivered = <<>> /\ result = "none" /\ failures = 0
      /\ phase = "idle"
  BY DEF Init
<1>4. N \in Nat BY DEF Inv, Types
<1>5. Fresh BY <1>3 DEF Fresh
<1>6. DOMAIN subs = {} /\ Len(subs) = 0 BY <1>3
<1>7. Unread BY <1>2, <1>3, <1>4, <1>5, <1>6 DEF Unread
<1>8. AllAsked BY <1>6 DEF AllAsked
<1>9. MergePhase BY <1>3, <1>5, <1>6 DEF MergePhase, Streams
<1>10. MergeScope BY <1>3 DEF MergeScope, Streams
<1> QED BY <1>7, <1>8, <1>9, <1>10, BeginsMerge

LEMMA OpenMerge == ASSUME Inv, Inv', MergeKnown, Open PROVE MergeKnown'
<1>1. /\ disk' = disk /\ call' = call /\ phase = "open"
      /\ UNCHANGED <<bufs, heap, loaded, pulling, popped, delivered, result, failures>>
  BY DEF Open
<1>2. Fresh BY <1>1, NotYet DEF MergeKnown, Streams
<1>3. CASE RenameRefused(at)
  <2>1. UNCHANGED subs /\ phase' = "idle" BY <1>3 DEF Open, Return
  <2>2. UNCHANGED streamVars BY <1>1, <2>1 DEF streamVars
  <2> QED BY <1>1, <1>2, <2>1, <2>2, QuietInv
<1>4. CASE ~RenameRefused(at)
  <2> DEFINE lists == [g \in DOMAIN Groups(at) |-> Asked(at, g)]
             Lists == Seq(Seq(Sent))
  <2>1. /\ subs' = Append(subs, lists)
        /\ \/ at < N /\ phase' = "open" /\ at' = at + 1
           \/ ~(at < N) /\ call.videoDecodable /\ phase' = "bounds"
           \/ ~(at < N) /\ ~call.videoDecodable /\ phase' = "stream"
    BY <1>4 DEF Open, GoTo
  <2>2. at \in 1 .. N /\ N \in Nat /\ Len(subs) = at - 1
    BY <1>1 DEF Inv, Types, Loads, MergeKnown, MergeInv, MergePhase
  <2>3. DiskKnown /\ subs \in Seq(Lists) /\ \A i \in DOMAIN subs : AreLists(i, subs[i])
    BY DEF MergeKnown, MergeInv, MergeTypes
  <2>4. lists \in Lists /\ AreLists(at, lists)
    <3>1. \A g \in DOMAIN Groups(at) : IsList(at, g, Asked(at, g)) BY <2>2, <2>3, AskedKnown
    <3>2. Groups(at) \in Seq(Group) BY <2>2, <2>3 DEF DiskKnown
    <3>3. DOMAIN Groups(at) = 1 .. Len(Groups(at)) /\ Len(Groups(at)) \in Nat BY <3>2
    <3>4. \A g \in DOMAIN Groups(at) : Asked(at, g) \in Seq(Sent) BY <3>1 DEF IsList
    <3>5. lists \in Seq(Seq(Sent)) BY <3>3, <3>4
    <3> QED BY <3>1, <3>5 DEF AreLists
  <2> HIDE DEF lists, Lists
  <2>5. /\ subs' \in Seq(Lists) /\ DOMAIN subs = 1 .. at - 1 /\ DOMAIN subs' = 1 .. at /\ Len(subs') = at
        /\ subs'[at] = lists
        /\ \A i \in DOMAIN subs : subs'[i] = subs[i]
    BY <2>1, <2>2, <2>3, <2>4
  <2>6. /\ N' = N /\ (DiskKnown' <=> DiskKnown)
        /\ \A i : Groups(i)' = Groups(i)
        /\ \A i, id : Exposed(i, id)' = Exposed(i, id)
    BY <1>1, SameFiles
  <2>7. \A i, l : AreLists(i, l)' <=> AreLists(i, l) BY <1>1, SameLists
  <2>8. Fresh' BY <1>1, <1>2 DEF Fresh, NoEntry
  <2>9. \A i \in DOMAIN subs' : AreLists(i, subs'[i]) 
    <3> SUFFICES ASSUME NEW i \in DOMAIN subs' PROVE AreLists(i, subs'[i]) OBVIOUS
    <3>1. CASE i = at BY <2>4, <2>5, <3>1
    <3>2. CASE i # at
      <4>1. i \in DOMAIN subs BY <2>2, <2>5, <3>2
      <4> QED BY <2>3, <2>5, <4>1
    <3> QED BY <3>1, <3>2
  <2>10. Unread'
    <3>1. \A i \in DOMAIN subs' : AreLists(i, subs[i])' BY <2>7, <2>9
    <3>2. bufs \in [1 .. N -> Nat] BY DEF MergeKnown, MergeInv, MergeTypes
    <3> QED BY <1>1, <2>2, <2>3, <2>5, <2>6, <2>8, <3>1, <3>2 DEF Unread, Lists, Sent
  <2>11. AllAsked'
    <3>1. /\ \A i : PassesThrough(i)' <=> PassesThrough(i)
          /\ \A i, g, id : Expected(i, g, id)' = Expected(i, g, id)
      BY <1>1, SameAnswers
    <3>2. ASSUME NEW i \in 1 .. at, ~PassesThrough(i), NEW g \in DOMAIN Groups(i),
                 NEW id \in Groups(i)[g].ids
          PROVE  Left(subs'[i][g], i, Exposed(i, id)) = Expected(i, g, id)
      <4>1. CASE i = at
        <5>1. Clean(at) BY <1>4, <2>2, NotRefused DEF Inv
        <5>2. subs'[i][g] = Asked(i, g) BY <2>5, <4>1 DEF lists
        <5> QED BY <2>2, <2>3, <3>2, <4>1, <5>1, <5>2, LeftAsked
      <4>2. CASE i # at
        <5>1. i \in DOMAIN subs /\ subs'[i] = subs[i] BY <2>2, <2>5, <4>2
        <5>2. Unread
          <6>1. bufs \in [1 .. N -> Nat] /\ subs \in Seq(Seq(Seq(Sent))) /\ Len(subs) <= N
            BY DEF MergeKnown, MergeInv, MergeTypes
          <6> QED BY <1>2, <2>2, <2>3, <6>1 DEF Unread
        <5>3. AllAsked BY <5>2, UnreadPipe DEF MergeKnown, MergeInv
        <5> QED BY <3>2, <5>1, <5>3 DEF AllAsked
      <4> QED BY <4>1, <4>2
    <3>3. ASSUME NEW i, NEW g, NEW name PROVE Left(subs[i][g], i, name)' = Left(subs'[i][g], i, name)
      BY DEF Left
    <3> QED BY <2>5, <2>6, <3>1, <3>2, <3>3 DEF AllAsked
  <2>12. popped' = NoEntry /\ pulling' = 0 /\ delivered' = <<>> /\ loaded' = FALSE /\ result' = "none"
    BY <2>8 DEF Fresh, NoEntry
  <2>13. (popped # NoEntry)' <=> FALSE BY <2>12 DEF NoEntry
  <2>14. at < N \/ at = N BY <2>2
  <2>15. MergePhase'
    <3>1. CASE at < N /\ phase' = "open" /\ at' = at + 1
      <4>1. Len(subs') = at' - 1 BY <2>2, <2>5, <3>1
      <4> QED BY <2>8, <2>12, <2>13, <3>1, <4>1 DEF MergePhase, Streams
    <3>2. CASE ~(at < N) /\ phase' \in {"bounds", "stream"}
      <4>1. Len(subs') = N' BY <2>5, <2>6, <2>14, <3>2
      <4> QED BY <2>8, <2>12, <2>13, <3>2, <4>1 DEF MergePhase, Streams
    <3> QED BY <2>1, <3>1, <3>2
  <2>16. MergeScope'
    <3>1. phase' \in Streams => AllClean' /\ ~call'.videoDecodable
      <4>1. phase' \in Streams => AllClean' BY DEF Inv, NamesInv, Passed
      <4> QED BY <1>1, <2>1, <4>1 DEF Streams
    <3> QED BY <2>12, <3>1 DEF MergeScope
  <2> QED BY <2>10, <2>11, <2>15, <2>16, BeginsMerge, PTL
<1> QED BY <1>3, <1>4
-----------------------------------------------------------------------------
(* What is known while there is a stream. *)
LEMMA StreamFacts ==
  ASSUME Inv, MergeKnown, phase \in Streams
  PROVE  /\ N \in Nat \ {0} /\ Len(subs) = N /\ DOMAIN subs = 1 .. N
         /\ AllClean /\ result # "eof" /\ loaded \in BOOLEAN
         /\ phase = "pull" => pulling \in 1 .. N
         /\ phase # "pull" => pulling = 0 /\ popped = NoEntry
         /\ ~loaded => popped = NoEntry /\ delivered = <<>>
         /\ popped # NoEntry => popped.entry.sub = pulling
         /\ phase = "pop" => loaded
         /\ phase = "pull" /\ loaded => popped # NoEntry
<1>1. N \in Nat \ {0} BY DEF Inv, Types
<1>2. MergePhase /\ MergeTypes BY DEF MergeKnown, MergeInv
<1>3. DOMAIN subs = 1 .. Len(subs)
  <2> DEFINE Lists == Seq(Seq(Sent))
  <2>1. subs \in Seq(Lists) BY <1>2 DEF MergeTypes
  <2> HIDE DEF Lists
  <2> QED BY <2>1
<1>4. AllClean BY DEF Inv, NamesInv, Passed
<1> QED BY <1>1, <1>2, <1>3, <1>4 DEF MergePhase

(* An entry and what it stands for. *)
LEMMA EntryKnown ==
  ASSUME NEW e, IsEntry(e)
  PROVE  /\ e \in HeapEntry /\ e.key \in Int /\ e.ts \in Int /\ e.name \in Nat /\ e.sub \in 1 .. N
         /\ e.key = Key(e.ts) /\ OfFile(e.sub, e.name, e.ts)
BY DEF IsEntry, HeapEntry

LEMMA ReturnedKnown ==
  ASSUME IsPopped(popped), popped # NoEntry
  PROVE  /\ Returned(popped) \in Given
         /\ Returned(popped).sub = popped.entry.sub /\ Returned(popped).name = popped.entry.name
         /\ Returned(popped).ts = popped.entry.ts /\ Key(Returned(popped).ts) = popped.entry.key
         /\ OfFile(Returned(popped).sub, Returned(popped).name, Returned(popped).ts)
         /\ IsEntry(popped.entry)
<1>1. popped \in [entry : HeapEntry, n : Nat] /\ IsEntry(popped.entry) BY DEF IsPopped
<1>2. popped.n \in Nat BY <1>1
<1> DEFINE e == popped.entry
           x == Returned(popped)
<1>3. /\ e.key \in Int /\ e.ts \in Int /\ e.name \in Nat /\ e.sub \in 1 .. N
      /\ e.key = Key(e.ts) /\ OfFile(e.sub, e.name, e.ts)
  BY <1>1, EntryKnown
<1>4. x = [name |-> e.name, ts |-> e.ts, n |-> popped.n, sub |-> e.sub] BY DEF Returned
<1> HIDE DEF e
<1>5. x \in Given /\ x.sub = e.sub /\ x.name = e.name /\ x.ts = e.ts
  BY <1>2, <1>3, <1>4 DEF Given
<1> HIDE DEF x
<1> QED BY <1>1, <1>3, <1>5 DEF e, x
-----------------------------------------------------------------------------
(* What Answered does, whatever the iterator gave. *)
LEMMA AnsweredPhase ==
  ASSUME Inv, MergeKnown, phase = "pull", Answered, disk' = disk, Len(subs') = Len(subs)
  PROVE  MergePhase'
<1>1. N' = N BY DEF N
<1>2. /\ N \in Nat \ {0} /\ Len(subs) = N /\ pulling \in 1 .. N /\ result # "eof" /\ loaded \in BOOLEAN
      /\ ~loaded => popped = NoEntry /\ delivered = <<>>
  BY StreamFacts DEF Streams
<1>3. CASE /\ ~loaded /\ pulling < N /\ pulling' = pulling + 1
           /\ UNCHANGED <<phase, loaded, popped, delivered, result>>
  <2>1. popped' = NoEntry /\ pulling' \in 1 .. N BY <1>2, <1>3
  <2>2. (popped # NoEntry)' <=> FALSE BY <2>1 DEF NoEntry
  <2> QED BY <1>1, <1>2, <1>3, <2>1, <2>2 DEF MergePhase, Streams
<1>4. CASE /\ ~loaded /\ pulling = N /\ loaded' = TRUE /\ pulling' = 0 /\ phase' = "pop"
           /\ UNCHANGED <<popped, delivered, result>>
  <2>1. popped' = NoEntry BY <1>2, <1>4
  <2>2. (popped # NoEntry)' <=> FALSE BY <2>1 DEF NoEntry
  <2> QED BY <1>1, <1>2, <1>4, <2>1, <2>2 DEF MergePhase, Streams
<1>5. CASE /\ loaded /\ popped' = NoEntry /\ pulling' = 0 /\ phase' = "stream" /\ result' = "message"
           /\ UNCHANGED loaded
  <2>1. (popped # NoEntry)' <=> FALSE BY <1>5 DEF NoEntry
  <2> QED BY <1>1, <1>2, <1>5, <2>1 DEF MergePhase, Streams
<1> QED BY <1>3, <1>4, <1>5 DEF Answered

(* It gives the popped entry to the caller, or there is none. *)
LEMMA AnsweredGives ==
  ASSUME Inv, MergeKnown, phase = "pull", Answered
  PROVE  /\ popped' = NoEntry /\ phase' \in Streams
         /\ \/ /\ popped = NoEntry /\ delivered' = delivered /\ ~loaded /\ delivered = <<>>
               /\ \/ loaded' = FALSE /\ pulling < N /\ pulling' = pulling + 1
                  \/ loaded' = TRUE /\ pulling = N /\ pulling' = 0
            \/ /\ popped # NoEntry /\ delivered' = Append(delivered, Returned(popped))
               /\ popped.entry.sub = pulling /\ loaded /\ loaded' = TRUE /\ pulling' = 0
<1>1. /\ loaded \in BOOLEAN
      /\ ~loaded => popped = NoEntry /\ delivered = <<>>
      /\ popped # NoEntry => popped.entry.sub = pulling
      /\ loaded => popped # NoEntry
  BY StreamFacts DEF Streams
<1> QED BY <1>1 DEF Answered, Streams

LEMMA AnsweredTypes ==
  ASSUME Inv, MergeKnown, phase = "pull", Answered, disk' = disk, call' = call
  PROVE  /\ delivered' \in Seq(Given)'
         /\ \A k \in DOMAIN delivered' : OfFile(delivered[k].sub, delivered[k].name, delivered[k].ts)'
         /\ IsPopped(popped)'
<1>1. /\ delivered \in Seq(Given) /\ IsPopped(popped)
      /\ \A k \in DOMAIN delivered : OfFile(delivered[k].sub, delivered[k].name, delivered[k].ts)
  BY DEF MergeKnown, MergeInv, MergeTypes
<1>2. Given' = Given BY SameFiles
<1>3. \A i, name, ts : OfFile(i, name, ts)' <=> OfFile(i, name, ts) BY SamePlaces
<1>4. IsPopped(popped)' BY AnsweredGives DEF IsPopped, NoEntry
<1>5. CASE delivered' = delivered BY <1>1, <1>2, <1>3, <1>4, <1>5
<1>6. CASE popped # NoEntry /\ delivered' = Append(delivered, Returned(popped))
  <2> DEFINE x == Returned(popped)
  <2>1. x \in Given /\ OfFile(x.sub, x.name, x.ts) BY <1>1, <1>6, ReturnedKnown
  <2> HIDE DEF x
  <2>2. delivered' = Append(delivered, x) BY <1>6 DEF x
  <2>3. /\ delivered' \in Seq(Given)
        /\ \A k \in DOMAIN delivered' : delivered'[k] = x \/ (k \in DOMAIN delivered /\ delivered'[k] = delivered[k])
    BY <1>1, <2>1, <2>2
  <2>4. \A k \in DOMAIN delivered' : OfFile(delivered'[k].sub, delivered'[k].name, delivered'[k].ts)
    BY <1>1, <2>1, <2>3
  <2> QED BY <1>2, <1>3, <1>4, <2>3, <2>4
<1> QED BY <1>5, <1>6, AnsweredGives

LEMMA AnsweredScope ==
  ASSUME MergeKnown, phase \in Streams, disk' = disk, call' = call PROVE MergeScope'
<1>1. (AllClean' <=> AllClean) /\ (VideosOverlap(ReadScope)' <=> VideosOverlap(ReadScope)) BY SameScope
<1>2. AllClean /\ (call.videoDecodable => ~VideosOverlap(ReadScope)) BY DEF MergeKnown, MergeInv, MergeScope
<1> QED BY <1>1, <1>2 DEF MergeScope

(* What the caller has and what is popped are together the same. *)
LEMMA AnsweredPipe ==
  ASSUME Inv, MergeKnown, phase = "pull", Answered, NEW i \in 1 .. N, NEW name
  PROVE  /\ FromSub(i, name)' \o Popping(popped, i, name)' = FromSub(i, name) \o Popping(popped, i, name)
         /\ Popping(popped, i, name)' = <<>>
<1>1. delivered \in Seq(Given) /\ IsPopped(popped) BY DEF MergeKnown, MergeInv, MergeTypes
<1>2. i # 0 /\ NoEntry.entry.sub = 0
  <2>1. N \in Nat BY DEF Inv, Types
  <2> QED BY <2>1 DEF NoEntry
<1>3. popped' = NoEntry BY AnsweredGives
<1>4. Popping(popped, i, name)' = <<>> BY <1>2, <1>3 DEF Popping
<1>5. CASE popped = NoEntry /\ delivered' = delivered
  <2>1. FromSub(i, name)' = FromSub(i, name) BY <1>5 DEF FromSub
  <2>2. Popping(popped, i, name) = <<>> BY <1>2, <1>5 DEF Popping
  <2> QED BY <1>4, <2>1, <2>2
<1>6. CASE popped # NoEntry /\ delivered' = Append(delivered, Returned(popped))
  <2> DEFINE x == Returned(popped)
  <2>1. x \in Given /\ x.sub = popped.entry.sub /\ x.name = popped.entry.name BY <1>1, <1>6, ReturnedKnown
  <2>2. Popping(popped, i, name) = IF x.sub = i /\ x.name = name THEN <<x>> ELSE <<>>
    BY <2>1 DEF Popping
  <2>3. delivered' = Append(delivered, x) BY <1>6
  <2> HIDE DEF x
  <2>4. FromSub(i, name)' = FromSub(i, name) \o Popping(popped, i, name)
    BY <1>1, <2>1, <2>2, <2>3, FromSubAppend
  <2>5. FromSub(i, name) \in Seq(Given) /\ Popping(popped, i, name) \in Seq(Given)
    <3> DEFINE S == {k \in DOMAIN delivered : delivered[k].sub = i /\ delivered[k].name = name}
    <3>1. FromSub(i, name) = Picked(delivered, S) /\ S \subseteq DOMAIN delivered BY DEF FromSub
    <3> HIDE DEF S
    <3>2. Picked(delivered, S) \in Seq(Given) BY <1>1, <3>1, PickedFacts
    <3> QED BY <2>1, <2>2, <3>1, <3>2
  <2>6. FromSub(i, name) \o Popping(popped, i, name) \in Seq(Given) BY <2>5
  <2>7. (FromSub(i, name) \o Popping(popped, i, name)) \o <<>> = FromSub(i, name) \o Popping(popped, i, name)
    BY <2>6, ConcatEmptySeq
  <2> QED BY <1>4, <2>4, <2>7
<1> QED BY <1>4, <1>5, <1>6, AnsweredGives
-----------------------------------------------------------------------------
LEMMA ListTail ==
  ASSUME NEW i, NEW g, NEW list, IsList(i, g, list), list # <<>>
  PROVE  /\ IsList(i, g, Tail(list)) /\ Head(list) \in Sent /\ OfGroup(i, g, Head(list).name, Head(list).ts)
         /\ \A k \in DOMAIN list : Key(Head(list).ts) <= Key(list[k].ts)
         /\ \A k \in DOMAIN Tail(list) : \E j \in DOMAIN list : Tail(list)[k] = list[j]
<1> DEFINE t == Tail(list)
<1>1. /\ list \in Seq(Sent)
      /\ \A k \in DOMAIN list : OfGroup(i, g, list[k].name, list[k].ts)
      /\ \A j, k \in DOMAIN list : j < k => Key(list[j].ts) <= Key(list[k].ts)
  BY DEF IsList
<1>2. /\ t \in Seq(Sent) /\ Len(t) \in Nat /\ DOMAIN t = 1 .. Len(t) /\ DOMAIN list = 1 .. Len(t) + 1
      /\ \A k \in DOMAIN t : t[k] = list[k + 1]
      /\ Head(list) = list[1] /\ 1 \in DOMAIN list
  BY <1>1
<1> HIDE DEF t
<1>3. list[1] \in Sent BY <1>1, <1>2
<1>4. Key(list[1].ts) \in Int BY <1>3, KeyIsInt DEF Sent
<1>5. \A k \in DOMAIN list : Key(list[1].ts) <= Key(list[k].ts)
  <2> SUFFICES ASSUME NEW k \in DOMAIN list PROVE Key(list[1].ts) <= Key(list[k].ts) OBVIOUS
  <2>1. CASE k = 1 BY <1>4, <2>1
  <2>2. CASE k # 1
    <3>1. 1 < k BY <1>2, <2>2
    <3> QED BY <1>1, <1>2, <3>1
  <2> QED BY <2>1, <2>2
<1>6. \A k \in DOMAIN t : k + 1 \in DOMAIN list BY <1>2
<1>7. \A k \in DOMAIN t : OfGroup(i, g, t[k].name, t[k].ts) BY <1>1, <1>2, <1>6
<1>8. ASSUME NEW j \in DOMAIN t, NEW k \in DOMAIN t, j < k PROVE Key(t[j].ts) <= Key(t[k].ts)
  <2>1. j + 1 < k + 1 BY <1>2, <1>8
  <2> QED BY <1>1, <1>2, <1>6, <2>1
<1>9. IsList(i, g, t) BY <1>2, <1>7, <1>8 DEF IsList
<1> QED BY <1>1, <1>2, <1>3, <1>5, <1>6, <1>9 DEF t

(* An iterator with another list for a group. *)
LEMMA Relisted ==
  ASSUME MergeTypes, NEW p \in DOMAIN subs, NEW g \in DOMAIN subs[p], NEW l, IsList(p, g, l),
         subs' = [subs EXCEPT ![p][g] = l]
  PROVE  /\ subs' \in Seq(Seq(Seq(Sent))) /\ DOMAIN subs' = DOMAIN subs /\ Len(subs') = Len(subs)
         /\ \A i \in DOMAIN subs : AreLists(i, subs'[i]) /\ (i # p => subs'[i] = subs[i])
         /\ DOMAIN subs'[p] = DOMAIN subs[p]
         /\ \A h \in DOMAIN subs[p] : subs'[p][h] = IF h = g THEN l ELSE subs[p][h]
<1> DEFINE Lists == Seq(Seq(Sent))
           List == Seq(Sent)
           y == [subs[p] EXCEPT ![g] = l]
<1>1. subs \in Seq(Lists) /\ \A i \in DOMAIN subs : AreLists(i, subs[i]) BY DEF MergeTypes
<1>2. /\ subs[p] \in Seq(List) /\ DOMAIN subs[p] = DOMAIN Groups(p)
      /\ \A h \in DOMAIN subs[p] : IsList(p, h, subs[p][h])
  BY <1>1 DEF AreLists
<1>3. l \in List BY DEF IsList
<1>4. subs' = [subs EXCEPT ![p] = y] OBVIOUS
<1> HIDE DEF List
<1>5. /\ y \in Seq(List) /\ DOMAIN y = DOMAIN subs[p]
      /\ \A h \in DOMAIN subs[p] : y[h] = IF h = g THEN l ELSE subs[p][h]
  BY <1>2, <1>3
<1> HIDE DEF y
<1>6. y \in Lists BY <1>5 DEF List
<1>7. AreLists(p, y) BY <1>2, <1>5 DEF AreLists, List
<1> HIDE DEF Lists
<1>8. /\ subs' \in Seq(Lists) /\ DOMAIN subs' = DOMAIN subs /\ Len(subs') = Len(subs)
      /\ \A i \in DOMAIN subs : subs'[i] = IF i = p THEN y ELSE subs[i]
  <2>1. DOMAIN subs = 1 .. Len(subs) /\ Len(subs) \in Nat /\ \A i \in DOMAIN subs : subs[i] \in Lists BY <1>1
  <2>2. /\ DOMAIN subs' = DOMAIN subs
        /\ \A i \in DOMAIN subs : subs'[i] = IF i = p THEN y ELSE subs[i]
    BY <1>4
  <2>3. subs' = [i \in 1 .. Len(subs) |-> IF i = p THEN y ELSE subs[i]] BY <1>4, <2>1
  <2>4. subs' \in [1 .. Len(subs) -> Lists] BY <1>6, <2>1, <2>3
  <2>5. subs' \in Seq(Lists) /\ Len(subs') = Len(subs) BY <2>1, <2>4
  <2> QED BY <2>2, <2>5
<1>9. \A i \in DOMAIN subs : AreLists(i, subs'[i]) BY <1>1, <1>7, <1>8
<1> QED BY <1>5, <1>8, <1>9 DEF Lists

(* The message an iterator gives, and its entry. *)
NewEntry(m) == [key |-> Key(m.ts), ts |-> m.ts, name |-> m.name, sub |-> pulling]
Takes(g) ==
  /\ g \in NextOf(pulling)
  /\ subs' = [subs EXCEPT ![pulling][g] = Tail(subs[pulling][g])]
  /\ bufs' = [bufs EXCEPT ![pulling] = Head(subs[pulling][g]).n]
  /\ heap' = Pushed(heap, NewEntry(Head(subs[pulling][g])))

LEMMA PullTakes == ASSUME Pull PROVE \E g \in NextOf(pulling) : Takes(g)
<1>1. PICK g \in NextOf(pulling) :
        LET m == Head(subs[pulling][g])
        IN  /\ subs' = [subs EXCEPT ![pulling][g] = Tail(@)]
            /\ bufs' = [bufs EXCEPT ![pulling] = m.n]
            /\ heap' = Pushed(heap, [key |-> Key(m.ts), ts |-> m.ts, name |-> m.name, sub |-> pulling])
  BY DEF Pull
<1>2. Takes(g) BY <1>1 DEF Takes, NewEntry
<1> QED BY <1>2

LEMMA NextKnown ==
  ASSUME Inv, MergeKnown, phase = "pull", NEW g \in NextOf(pulling)
  PROVE  LET m == Head(subs[pulling][g])
         IN  /\ pulling \in DOMAIN subs /\ pulling \in 1 .. N
             /\ g \in DOMAIN subs[pulling] /\ g \in DOMAIN Groups(pulling)
             /\ subs[pulling][g] # <<>> /\ subs[pulling][g] \in Seq(Sent)
             /\ IsList(pulling, g, subs[pulling][g]) /\ IsList(pulling, g, Tail(subs[pulling][g]))
             /\ m \in Sent /\ OfGroup(pulling, g, m.name, m.ts)
             /\ Key(m.ts) \in Int /\ Ahead(Key(m.ts), subs[pulling])
             /\ \A key : Ahead(key, subs[pulling]) => key <= Key(m.ts)
             /\ NewEntry(m) \in HeapEntry /\ IsEntry(NewEntry(m))
<1> DEFINE p == pulling
           lists == subs[p]
           m == Head(lists[g])
<1>1. p \in 1 .. N /\ DOMAIN subs = 1 .. N /\ DiskKnown BY StreamFacts DEF Streams, MergeKnown
<1>2. AreLists(p, lists) BY <1>1 DEF MergeKnown, MergeInv, MergeTypes
<1>3. /\ DOMAIN lists = DOMAIN Groups(p)
      /\ \A h \in DOMAIN lists : IsList(p, h, lists[h])
  BY <1>2 DEF AreLists
<1>4. /\ g \in DOMAIN lists /\ lists[g] # <<>>
      /\ \A h \in DOMAIN lists : lists[h] # <<>> => Key(m.ts) <= Key(Head(lists[h]).ts)
  BY DEF NextOf
<1>5. /\ IsList(p, g, Tail(lists[g])) /\ m \in Sent /\ OfGroup(p, g, m.name, m.ts)
  BY <1>3, <1>4, ListTail
<1>6. lists[g] \in Seq(Sent) BY <1>3, <1>4 DEF IsList
<1> HIDE DEF m, lists, p
<1>7. m.ts \in Int /\ m.name \in Nat /\ Key(m.ts) \in Int BY <1>5, KeyIsInt DEF Sent
<1>8. ASSUME NEW h \in DOMAIN lists, NEW k \in DOMAIN lists[h] PROVE Key(m.ts) <= Key(lists[h][k].ts)
  <2>1. IsList(p, h, lists[h]) BY <1>3
  <2>2. lists[h] \in Seq(Sent) BY <2>1 DEF IsList
  <2>3. lists[h] # <<>> BY <1>8, <2>2
  <2>4. Head(lists[h]) \in Sent /\ Key(Head(lists[h]).ts) <= Key(lists[h][k].ts)
    BY <2>1, <2>3, ListTail
  <2>5. lists[h][k] \in Sent BY <2>2
  <2>6. Key(Head(lists[h]).ts) \in Int /\ Key(lists[h][k].ts) \in Int BY <2>4, <2>5, KeyIsInt DEF Sent
  <2>7. Key(m.ts) <= Key(Head(lists[h]).ts) BY <1>4, <2>3
  <2> QED BY <1>7, <2>4, <2>6, <2>7
<1>9. Ahead(Key(m.ts), lists) BY <1>8 DEF Ahead
<1>10. ASSUME NEW key, Ahead(key, lists) PROVE key <= Key(m.ts)
  <2>1. 1 \in DOMAIN lists[g] /\ m = lists[g][1] BY <1>4, <1>6 DEF m
  <2> QED BY <1>4, <1>10, <2>1 DEF Ahead
<1>11. NewEntry(m) = [key |-> Key(m.ts), ts |-> m.ts, name |-> m.name, sub |-> p] BY DEF NewEntry, p
<1>12. NewEntry(m) \in HeapEntry BY <1>1, <1>7, <1>11 DEF HeapEntry
<1>13. OfFile(p, m.name, m.ts) BY <1>3, <1>4, <1>5 DEF OfFile
<1>14. IsEntry(NewEntry(m)) BY <1>11, <1>12, <1>13 DEF IsEntry
<1> QED BY <1>1, <1>3, <1>4, <1>5, <1>6, <1>7, <1>9, <1>10, <1>12, <1>14 DEF m, lists, p

(* The heap and the lists with that message moved. *)
LEMMA TakesTypes ==
  ASSUME Inv, MergeKnown, phase = "pull", NEW g \in NextOf(pulling), Takes(g)
  PROVE  /\ heap' \in Seq(HeapEntry) /\ IsHeap(heap') /\ \A k \in DOMAIN heap' : IsEntry(heap'[k])
         /\ bufs' \in [1 .. N -> Nat]
         /\ \A i \in 1 .. N : i # pulling => bufs'[i] = bufs[i]
         /\ bufs'[pulling] = Head(subs[pulling][g]).n
         /\ subs' \in Seq(Seq(Seq(Sent))) /\ DOMAIN subs' = DOMAIN subs /\ Len(subs') = Len(subs)
         /\ \A i \in DOMAIN subs : AreLists(i, subs'[i]) /\ (i # pulling => subs'[i] = subs[i])
         /\ DOMAIN subs'[pulling] = DOMAIN subs[pulling]
         /\ \A h \in DOMAIN subs[pulling] :
              subs'[pulling][h] = IF h = g THEN Tail(subs[pulling][g]) ELSE subs[pulling][h]
<1> DEFINE e == NewEntry(Head(subs[pulling][g]))
           l == Tail(subs[pulling][g])
<1>1. /\ pulling \in DOMAIN subs /\ pulling \in 1 .. N /\ g \in DOMAIN subs[pulling]
      /\ IsList(pulling, g, l) /\ Head(subs[pulling][g]) \in Sent
      /\ e \in HeapEntry /\ IsEntry(e)
  BY NextKnown
<1>2. /\ MergeTypes /\ heap \in Seq(HeapEntry) /\ IsHeap(heap) /\ \A k \in DOMAIN heap : IsEntry(heap[k])
      /\ bufs \in [1 .. N -> Nat]
  BY DEF MergeKnown, MergeInv, MergeTypes
<1>3. /\ subs' = [subs EXCEPT ![pulling][g] = l] /\ heap' = Pushed(heap, e)
      /\ bufs' = [bufs EXCEPT ![pulling] = Head(subs[pulling][g]).n]
  BY DEF Takes
<1>4. Head(subs[pulling][g]).n \in Nat BY <1>1 DEF Sent
<1> HIDE DEF e, l
<1>5. \A x \in HeapEntry : x.key \in Int BY DEF HeapEntry
<1>6. /\ heap' \in Seq(HeapEntry) /\ IsHeap(heap')
      /\ \A k \in DOMAIN heap' : heap'[k] = e \/ \E j \in DOMAIN heap : heap'[k] = heap[j]
  BY <1>1, <1>2, <1>3, <1>5, PushedFacts
<1>7. \A k \in DOMAIN heap' : IsEntry(heap'[k]) BY <1>1, <1>2, <1>6
<1>8. /\ subs' \in Seq(Seq(Seq(Sent))) /\ DOMAIN subs' = DOMAIN subs /\ Len(subs') = Len(subs)
      /\ \A i \in DOMAIN subs : AreLists(i, subs'[i]) /\ (i # pulling => subs'[i] = subs[i])
      /\ DOMAIN subs'[pulling] = DOMAIN subs[pulling]
      /\ \A h \in DOMAIN subs[pulling] : subs'[pulling][h] = IF h = g THEN l ELSE subs[pulling][h]
  BY <1>1, <1>2, <1>3, Relisted
<1>9. /\ bufs' \in [1 .. N -> Nat] /\ bufs'[pulling] = Head(subs[pulling][g]).n
      /\ \A i \in 1 .. N : i # pulling => bufs'[i] = bufs[i]
  BY <1>1, <1>2, <1>3, <1>4
<1> QED BY <1>6, <1>7, <1>8, <1>9 DEF l
-----------------------------------------------------------------------------
(* What NextInto of an iterator does to its lists and the heap. *)
Moves ==
  /\ DOMAIN subs' = DOMAIN subs
  /\ \A i \in DOMAIN subs : \A key : Ahead(key, subs[i]) => Ahead(key, subs'[i])
  /\ \A k \in DOMAIN heap' :
       \/ \E j \in DOMAIN heap : heap'[k] = heap[j]
       \/ /\ heap'[k].sub = pulling /\ Ahead(heap'[k].key, subs'[pulling])
          /\ \A key : Ahead(key, subs[pulling]) => key <= heap'[k].key
Rooms ==
  failures = 0 =>
    /\ \A k, l \in DOMAIN heap' : heap'[k].sub = heap'[l].sub => k = l
    /\ \A k \in DOMAIN heap' : heap'[k].sub = pulling \/ \E j \in DOMAIN heap : heap'[k] = heap[j]
    /\ \A j \in DOMAIN heap : \E k \in DOMAIN heap' : heap'[k] = heap[j]
    /\ \A i \in DOMAIN subs : i # pulling => subs'[i] = subs[i]
    /\ (\A k \in DOMAIN heap' : heap'[k].sub # pulling) =>
         \A g \in DOMAIN subs'[pulling] : subs'[pulling][g] = <<>>

LEMMA TakesMoves ==
  ASSUME Inv, MergeKnown, phase = "pull", NEW g \in NextOf(pulling), Takes(g)
  PROVE  Moves
<1> DEFINE p == pulling
           list == subs[p][g]
           m == Head(list)
           e == NewEntry(m)
<1>1. /\ p \in DOMAIN subs /\ g \in DOMAIN subs[p] /\ list # <<>> /\ IsList(p, g, list)
      /\ Ahead(Key(m.ts), subs[p])
      /\ \A key : Ahead(key, subs[p]) => key <= Key(m.ts)
      /\ e \in HeapEntry
  BY NextKnown
<1>2. /\ DOMAIN subs' = DOMAIN subs
      /\ \A i \in DOMAIN subs : i # p => subs'[i] = subs[i]
      /\ DOMAIN subs'[p] = DOMAIN subs[p]
      /\ \A h \in DOMAIN subs[p] : subs'[p][h] = IF h = g THEN Tail(list) ELSE subs[p][h]
  BY TakesTypes
<1>3. heap \in Seq(HeapEntry) /\ IsHeap(heap) BY DEF MergeKnown, MergeInv, MergeTypes
<1>4. heap' = Pushed(heap, e) BY DEF Takes
<1>5. e.sub = p /\ e.key = Key(m.ts) BY DEF NewEntry
<1> HIDE DEF e, m, list, p
<1>6. \A x \in HeapEntry : x.key \in Int BY DEF HeapEntry
<1>7. \A k \in DOMAIN heap' : heap'[k] = e \/ \E j \in DOMAIN heap : heap'[k] = heap[j]
  BY <1>1, <1>3, <1>4, <1>6, PushedFacts
<1>8. \A k \in DOMAIN Tail(list) : \E j \in DOMAIN list : Tail(list)[k] = list[j] BY <1>1, ListTail
<1>9. ASSUME NEW key, Ahead(key, subs[p]) PROVE Ahead(key, subs'[p])
  <2> SUFFICES ASSUME NEW h \in DOMAIN subs[p], NEW k \in DOMAIN subs'[p][h]
               PROVE  key <= Key(subs'[p][h][k].ts)
    BY <1>2 DEF Ahead
  <2>1. CASE h = g
    <3>1. subs'[p][h] = Tail(list) /\ subs[p][h] = list BY <1>2, <2>1 DEF list
    <3>2. PICK j \in DOMAIN list : Tail(list)[k] = list[j] BY <1>8, <3>1
    <3> QED BY <1>9, <3>1, <3>2 DEF Ahead
  <2>2. CASE h # g BY <1>2, <1>9, <2>2 DEF Ahead
  <2> QED BY <2>1, <2>2
<1>10. \A i \in DOMAIN subs : \A key : Ahead(key, subs[i]) => Ahead(key, subs'[i])
  <2> SUFFICES ASSUME NEW i \in DOMAIN subs, NEW key, Ahead(key, subs[i]) PROVE Ahead(key, subs'[i])
    OBVIOUS
  <2>1. CASE i = p BY <1>9, <2>1
  <2>2. CASE i # p
    <3>1. subs'[i] = subs[i] BY <1>2, <2>2
    <3> QED BY <3>1 DEF Ahead
  <2> QED BY <2>1, <2>2
<1>11. Ahead(e.key, subs'[p]) BY <1>1, <1>5, <1>9
<1> QED BY <1>1, <1>2, <1>5, <1>7, <1>10, <1>11 DEF Moves, p

LEMMA TakesRooms ==
  ASSUME Inv, MergeKnown, phase = "pull", NEW g \in NextOf(pulling), Takes(g)
  PROVE  Rooms
<1> SUFFICES ASSUME failures = 0
             PROVE  /\ \A k, l \in DOMAIN heap' : heap'[k].sub = heap'[l].sub => k = l
                    /\ \A k \in DOMAIN heap' : heap'[k].sub = pulling \/ \E j \in DOMAIN heap : heap'[k] = heap[j]
                    /\ \A j \in DOMAIN heap : \E k \in DOMAIN heap' : heap'[k] = heap[j]
                    /\ \A i \in DOMAIN subs : i # pulling => subs'[i] = subs[i]
                    /\ \E k \in DOMAIN heap' : heap'[k].sub = pulling
  BY DEF Rooms
<1> DEFINE e == NewEntry(Head(subs[pulling][g]))
<1>1. e \in HeapEntry BY NextKnown
<1>2. e.sub = pulling BY DEF NewEntry
<1>3. heap \in Seq(HeapEntry) /\ IsHeap(heap) BY DEF MergeKnown, MergeInv, MergeTypes
<1>4. heap' = Pushed(heap, e) BY DEF Takes
<1> HIDE DEF e
<1>5. /\ \E k \in DOMAIN heap' : heap'[k] = e
      /\ \A j \in DOMAIN heap : \E k \in DOMAIN heap' : heap'[k] = heap[j]
      /\ \A k, l \in DOMAIN heap' : k # l =>
           \/ heap'[k] = e /\ \E j \in DOMAIN heap : heap'[l] = heap[j]
           \/ heap'[l] = e /\ \E j \in DOMAIN heap : heap'[k] = heap[j]
           \/ \E i, j \in DOMAIN heap : i # j /\ heap'[k] = heap[i] /\ heap'[l] = heap[j]
  BY <1>1, <1>3, <1>4, PushedPairs
<1>6. \A x \in HeapEntry : x.key \in Int BY DEF HeapEntry
<1>7. \A k \in DOMAIN heap' : heap'[k] = e \/ \E j \in DOMAIN heap : heap'[k] = heap[j]
  BY <1>1, <1>3, <1>4, <1>6, PushedFacts
<1>8. /\ \A k, l \in DOMAIN heap : heap[k].sub = heap[l].sub => k = l
      /\ \A k \in DOMAIN heap : heap[k].sub # pulling
  BY DEF MergeKnown, MergeInv, MergeRoom
<1>9. \A k, l \in DOMAIN heap' : heap'[k].sub = heap'[l].sub => k = l BY <1>2, <1>5, <1>8
<1>10. \A i \in DOMAIN subs : i # pulling => subs'[i] = subs[i] BY TakesTypes
<1> QED BY <1>2, <1>5, <1>7, <1>9, <1>10

LEMMA EofMoves ==
  ASSUME Inv, MergeKnown, phase = "pull", NextOf(pulling) = {}, UNCHANGED <<subs, heap>>
  PROVE  Moves /\ Rooms
<1>1. Moves BY DEF Moves
<1>2. ASSUME NEW g \in DOMAIN subs[pulling], subs[pulling][g] # <<>> PROVE FALSE
  <2> DEFINE lists == subs[pulling]
             left == {h \in DOMAIN lists : lists[h] # <<>>}
             f == [h \in DOMAIN lists |-> Key(Head(lists[h]).ts)]
             List == Seq(Sent)
  <2>1. pulling \in DOMAIN subs BY StreamFacts DEF Streams
  <2>2. AreLists(pulling, lists) BY <2>1 DEF MergeKnown, MergeInv, MergeTypes
  <2>3. \A h \in left : f[h] \in Int
    <3> SUFFICES ASSUME NEW h \in left PROVE Key(Head(lists[h]).ts) \in Int OBVIOUS
    <3>1. IsList(pulling, h, lists[h]) BY <2>2 DEF AreLists
    <3>2. Head(lists[h]) \in Sent BY <3>1, ListTail
    <3> QED BY <3>2, KeyIsInt DEF Sent
  <2>4. lists \in Seq(List) BY <2>2 DEF AreLists
  <2>5. NextOf(pulling) = {h \in left : \A k \in left : f[h] <= f[k]} BY DEF NextOf
  <2>6. left # {} /\ left \subseteq DOMAIN lists BY <1>2
  <2> HIDE DEF List, left, lists, f
  <2>7. left \subseteq 1 .. Len(lists) /\ Len(lists) \in Nat BY <2>4, <2>6
  <2>8. \E h \in left : \A k \in left : f[h] <= f[k] BY <2>3, <2>6, <2>7, LeastPlace
  <2> QED BY <2>5, <2>8
<1>3. Rooms
  <2> SUFFICES ASSUME failures = 0
               PROVE  /\ \A k, l \in DOMAIN heap : heap[k].sub = heap[l].sub => k = l
                      /\ \A g \in DOMAIN subs[pulling] : subs[pulling][g] = <<>>
    BY DEF Rooms
  <2> QED BY <1>2 DEF MergeKnown, MergeInv, MergeRoom
<1> QED BY <1>1, <1>3

(* In time, what was popped and what is new are between the messages of    *)
(* the caller and those of the heap.                                       *)
LEMMA MovesTimes ==
  ASSUME Inv, MergeKnown, phase = "pull", Answered, disk' = disk, call' = call, Moves,
         \A k \in DOMAIN heap' : IsEntry(heap'[k])
  PROVE  MergeTimes'
<1>1. /\ \A ts : Key(ts)' = Key(ts)
      /\ \A key, lists : Ahead(key, lists)' <=> Ahead(key, lists)
  BY SameFiles, SameLists
<1>2. /\ \A j, k \in DOMAIN delivered : j < k => Key(delivered[j].ts) <= Key(delivered[k].ts)
      /\ \A j \in DOMAIN delivered : \A k \in DOMAIN heap : Key(delivered[j].ts) <= heap[k].key
      /\ \A k \in DOMAIN heap : heap[k].sub \in DOMAIN subs /\ Ahead(heap[k].key, subs[heap[k].sub])
      /\ popped # NoEntry =>
           /\ \A j \in DOMAIN delivered : Key(delivered[j].ts) <= popped.entry.key
           /\ \A k \in DOMAIN heap : popped.entry.key <= heap[k].key
           /\ Ahead(popped.entry.key, subs[pulling])
  BY DEF MergeKnown, MergeInv, MergeTimes
<1>3. /\ pulling \in DOMAIN subs /\ delivered \in Seq(Given) /\ IsPopped(popped)
  BY StreamFacts DEF Streams, MergeKnown, MergeInv, MergeTypes
<1>4. \A j \in DOMAIN delivered : Key(delivered[j].ts) \in Int
  <2> SUFFICES ASSUME NEW j \in DOMAIN delivered PROVE Key(delivered[j].ts) \in Int OBVIOUS
  <2>1. delivered[j] \in Given BY <1>3
  <2> QED BY <2>1, KeyIsInt DEF Given
<1>5. \A k \in DOMAIN heap' : heap'[k].key \in Int BY EntryKnown
<1>6. (popped # NoEntry)' <=> FALSE BY AnsweredGives DEF NoEntry
<1>7. \A k \in DOMAIN heap' : heap'[k].sub \in DOMAIN subs' /\ Ahead(heap'[k].key, subs'[heap'[k].sub])
  BY <1>2, <1>3 DEF Moves
<1>8. CASE popped = NoEntry /\ delivered' = delivered /\ delivered = <<>>
  <2>1. DOMAIN delivered' = {} BY <1>8
  <2> QED BY <1>1, <1>6, <1>7, <2>1 DEF MergeTimes
<1>9. CASE popped # NoEntry /\ delivered' = Append(delivered, Returned(popped))
  <2> DEFINE x == Returned(popped)
             key == popped.entry.key
             l == Len(delivered) + 1
  <2>1. key \in Int /\ Key(x.ts) = key /\ x \in Given BY <1>3, <1>9, ReturnedKnown, EntryKnown
  <2>2. /\ \A j \in DOMAIN delivered : Key(delivered[j].ts) <= key
        /\ \A k \in DOMAIN heap : key <= heap[k].key
        /\ Ahead(key, subs[pulling])
    BY <1>2, <1>9
  <2>3. delivered' = Append(delivered, x) BY <1>9
  <2> HIDE DEF x, key
  <2>4. /\ DOMAIN delivered' = 1 .. l /\ DOMAIN delivered = 1 .. l - 1 /\ l \in Nat
        /\ delivered'[l] = x /\ \A j \in DOMAIN delivered : delivered'[j] = delivered[j]
    BY <1>3, <2>1, <2>3
  <2> HIDE DEF l
  <2>5. \A k \in DOMAIN heap' : key <= heap'[k].key BY <2>2 DEF Moves
  <2>6. ASSUME NEW j \in DOMAIN delivered' PROVE Key(delivered'[j].ts) <= key /\ Key(delivered'[j].ts) \in Int
    <3>1. CASE j = l BY <2>1, <2>4, <3>1
    <3>2. CASE j # l
      <4>1. j \in DOMAIN delivered BY <2>4, <3>2
      <4> QED BY <1>4, <2>2, <2>4, <4>1
    <3> QED BY <3>1, <3>2
  <2>7. ASSUME NEW j \in DOMAIN delivered', NEW k \in DOMAIN heap' PROVE Key(delivered'[j].ts) <= heap'[k].key
    <3>1. Key(delivered'[j].ts) <= key /\ Key(delivered'[j].ts) \in Int BY <2>6
    <3>2. key <= heap'[k].key /\ heap'[k].key \in Int BY <1>5, <2>5
    <3> QED BY <2>1, <3>1, <3>2
  <2>8. ASSUME NEW j \in DOMAIN delivered', NEW k \in DOMAIN delivered', j < k
        PROVE  Key(delivered'[j].ts) <= Key(delivered'[k].ts)
    <3>1. j \in DOMAIN delivered BY <2>4, <2>8
    <3>2. CASE k = l BY <2>1, <2>4, <2>6, <3>2
    <3>3. CASE k # l
      <4>1. k \in DOMAIN delivered BY <2>4, <3>3
      <4>2. delivered'[j] = delivered[j] /\ delivered'[k] = delivered[k] BY <2>4, <3>1, <4>1
      <4> QED BY <1>2, <2>8, <3>1, <4>1, <4>2
    <3> QED BY <3>2, <3>3
  <2> QED BY <1>1, <1>6, <1>7, <2>7, <2>8 DEF MergeTimes
<1> QED BY <1>8, <1>9, AnsweredGives

(* The iterator that gave a message, or has no more, is served. *)
LEMMA MovesRoom ==
  ASSUME Inv, MergeKnown, phase = "pull", Answered, failures' = failures, Rooms, Moves,
         \A k \in DOMAIN heap' : IsEntry(heap'[k])
  PROVE  MergeRoom'
<1> SUFFICES ASSUME failures = 0
             PROVE  /\ \A k, l \in DOMAIN heap' : heap'[k].sub = heap'[l].sub => k = l
                    /\ \A k \in DOMAIN heap' : heap'[k].sub # pulling' /\ (~loaded' => heap'[k].sub < pulling')
                    /\ \A i \in DOMAIN subs' : Served(i)' /\ (\A k \in DOMAIN heap' : heap'[k].sub # i) =>
                         \A g \in DOMAIN subs'[i] : subs'[i][g] = <<>>
  BY DEF MergeRoom
<1>1. /\ \A k, l \in DOMAIN heap' : heap'[k].sub = heap'[l].sub => k = l
      /\ \A k \in DOMAIN heap' : heap'[k].sub = pulling \/ \E j \in DOMAIN heap : heap'[k] = heap[j]
      /\ \A j \in DOMAIN heap : \E k \in DOMAIN heap' : heap'[k] = heap[j]
      /\ \A i \in DOMAIN subs : i # pulling => subs'[i] = subs[i]
      /\ (\A k \in DOMAIN heap' : heap'[k].sub # pulling) =>
           \A g \in DOMAIN subs'[pulling] : subs'[pulling][g] = <<>>
  BY DEF Rooms
<1>2. DOMAIN subs' = DOMAIN subs BY DEF Moves
<1>3. /\ \A k \in DOMAIN heap : heap[k].sub # pulling /\ (~loaded => heap[k].sub < pulling)
      /\ \A i \in DOMAIN subs : Served(i) /\ (\A k \in DOMAIN heap : heap[k].sub # i) =>
           \A g \in DOMAIN subs[i] : subs[i][g] = <<>>
  BY DEF MergeKnown, MergeInv, MergeRoom
<1>4. /\ pulling \in 1 .. N /\ N \in Nat /\ DOMAIN subs = 1 .. N
  BY StreamFacts DEF Streams
<1>5. \A k \in DOMAIN heap' : heap'[k].sub \in 1 .. N BY EntryKnown
<1>6. \/ ~loaded /\ loaded' = FALSE /\ pulling < N /\ pulling' = pulling + 1
      \/ ~loaded /\ loaded' = TRUE /\ pulling = N /\ pulling' = 0
      \/ loaded /\ loaded' = TRUE /\ pulling' = 0
  BY AnsweredGives
<1>7. \A k \in DOMAIN heap' : heap'[k].sub = pulling \/ (~loaded => heap'[k].sub < pulling)
  BY <1>1, <1>3
<1>8. \A k \in DOMAIN heap' : heap'[k].sub # pulling' /\ (~loaded' => heap'[k].sub < pulling')
  BY <1>4, <1>5, <1>6, <1>7
<1>9. ASSUME NEW i \in DOMAIN subs', Served(i)', \A k \in DOMAIN heap' : heap'[k].sub # i
      PROVE  \A g \in DOMAIN subs'[i] : subs'[i][g] = <<>>
  <2>1. CASE i = pulling BY <1>1, <1>9, <2>1
  <2>2. CASE i # pulling
    <3>1. i \in 1 .. N /\ subs'[i] = subs[i] BY <1>1, <1>2, <1>4, <2>2
    <3>2. IF loaded' THEN i # pulling' ELSE i < pulling' BY <1>9 DEF Served
    <3>3. Served(i) BY <1>4, <1>6, <2>2, <3>1, <3>2 DEF Served
    <3>4. \A k \in DOMAIN heap : heap[k].sub # i BY <1>1, <1>9
    <3> QED BY <1>3, <1>4, <3>1, <3>3, <3>4
  <2> QED BY <2>1, <2>2
<1> QED BY <1>1, <1>8, <1>9
-----------------------------------------------------------------------------
(* What the heap and the lists have of an iterator, under a name. *)
Waiting(i, g, name) == Queued(heap, bufs[i], i, name) \o Left(subs[i][g], i, name)

LEMMA SubOfFile ==
  ASSUME DiskKnown, NEW i \in 1 .. N, Clean(i), NEW g \in DOMAIN Groups(i), NEW id \in Groups(i)[g].ids,
         NEW h \in DOMAIN Groups(i), NEW ts, OfGroup(i, h, Exposed(i, id), ts)
  PROVE  g = h
<1>1. PICK other \in Groups(i)[h].ids : Exposed(i, other) = Exposed(i, id) BY DEF OfGroup
<1>2. id \in Names(i) /\ other \in Names(i) BY DEF Names
<1>3. other = id BY <1>1, <1>2 DEF Clean
<1>4. Chronological(Groups(i)) BY DEF DiskKnown
<1>5. g # h => Groups(i)[g].ids \cap Groups(i)[h].ids = {} BY <1>4 DEF Chronological
<1> QED BY <1>3, <1>5

(* The other iterators' messages wait as before. *)
LEMMA OthersWait ==
  ASSUME Inv, MergeKnown, phase = "pull", failures = 0, Rooms, NEW i \in DOMAIN subs, i # pulling, bufs'[i] = bufs[i],
         NEW g, NEW name
  PROVE  Waiting(i, g, name)' = Waiting(i, g, name)
<1>1. /\ \A k, l \in DOMAIN heap' : heap'[k].sub = heap'[l].sub => k = l
      /\ \A k \in DOMAIN heap' : heap'[k].sub = pulling \/ \E j \in DOMAIN heap : heap'[k] = heap[j]
      /\ \A j \in DOMAIN heap : \E k \in DOMAIN heap' : heap'[k] = heap[j]
      /\ subs'[i] = subs[i]
  BY DEF Rooms
<1>2. \A k, l \in DOMAIN heap : heap[k].sub = heap[l].sub => k = l BY DEF MergeKnown, MergeInv, MergeRoom
<1>3. Alone(heap, i) /\ Alone(heap', i) BY <1>1, <1>2 DEF Alone
<1>4. Same(heap, heap', i) BY <1>1 DEF Same
<1>5. Queued(heap, bufs[i], i, name) = Queued(heap', bufs[i], i, name) BY <1>3, <1>4, QueuedSame
<1>6. Queued(heap, bufs[i], i, name)' = Queued(heap', bufs[i], i, name) BY DEF Queued
<1>7. Left(subs[i][g], i, name)' = Left(subs[i][g], i, name) BY <1>1 DEF Left
<1> QED BY <1>5, <1>6, <1>7 DEF Waiting

(* A list with, and without, a message under the name at its head. *)
LEMMA LeftOwn ==
  ASSUME NEW i, NEW name, NEW l, l \in Seq(Sent), l # <<>>, Head(l).name = name
  PROVE  Left(l, i, name) = <<Item(name, Head(l), Head(l).n, i)>> \o Left(Tail(l), i, name)
BY LeftTail

LEMMA LeftOther ==
  ASSUME NEW i, NEW name, NEW l, l \in Seq(Sent), l # <<>>, Head(l).name # name
  PROVE  Left(l, i, name) = Left(Tail(l), i, name)
BY LeftTail

LEMMA TakesWait ==
  ASSUME Inv, MergeKnown, phase = "pull", failures = 0, NEW h \in NextOf(pulling), Takes(h),
         NEW p \in 1 .. N, p = pulling,
         NEW g \in DOMAIN Groups(p), NEW id \in Groups(p)[g].ids, NEW name, name = Exposed(p, id)
  PROVE  Waiting(p, g, name)' = Waiting(p, g, name)
<1> DEFINE now == subs[p][h]
           mess == Head(now)
           new == NewEntry(mess)
           old == Left(subs[p][g], p, name)
           left == Left(subs'[p][g], p, name)
<1>1. /\ p \in DOMAIN subs /\ h \in DOMAIN Groups(p) /\ DOMAIN subs[p] = DOMAIN Groups(p)
      /\ now # <<>> /\ now \in Seq(Sent) /\ mess \in Sent
      /\ OfGroup(p, h, mess.name, mess.ts) /\ new \in HeapEntry
  <2>1. p \in DOMAIN subs BY NextKnown
  <2>2. DOMAIN subs[p] = DOMAIN Groups(p) BY <2>1 DEF MergeKnown, MergeInv, MergeTypes, AreLists
  <2> QED BY <2>2, NextKnown
<1>2. /\ heap' = Pushed(heap, new) /\ heap \in Seq(HeapEntry)
  BY DEF Takes, MergeKnown, MergeInv, MergeTypes
<1>3. /\ subs'[p][g] = IF g = h THEN Tail(now) ELSE subs[p][g]
      /\ bufs'[p] = mess.n /\ AreLists(p, subs'[p]) /\ DOMAIN subs'[p] = DOMAIN subs[p]
  BY <1>1, TakesTypes
<1>4. Clean(p) /\ DiskKnown BY StreamFacts DEF Streams, AllClean, MergeKnown
<1>5. name \in Nat BY <1>4, NameIsNat
<1>6. left \in Seq(Given)
  <2>1. subs'[p][g] \in Seq(Sent) BY <1>1, <1>3 DEF AreLists, IsList
  <2> QED BY <1>5, <2>1, LeftKnown
<1>7. \A k \in DOMAIN heap : heap[k].sub # p BY DEF MergeKnown, MergeInv, MergeRoom
<1>8. Queued(heap, bufs[p], p, name) = <<>> BY <1>7, QueuedNone
<1>9. Rooms BY TakesRooms
<1>10. Alone(heap', p) BY <1>9 DEF Rooms, Alone
<1>11. PICK k \in DOMAIN heap' : heap'[k] = new
  <2> HIDE DEF new
  <2> QED BY <1>1, <1>2, PushedPairs
<1>12. new.sub = p /\ new.name = mess.name /\ new.ts = mess.ts BY DEF NewEntry
<1> HIDE DEF new, old, left
<1>13. Queued(heap', mess.n, p, name) = IF mess.name = name THEN <<Item(name, mess, mess.n, p)>> ELSE <<>>
  <2>1. Queued(heap', mess.n, p, name) = IF new.name = name THEN <<Item(name, new, mess.n, p)>> ELSE <<>>
    BY <1>10, <1>11, <1>12, QueuedOne
  <2>2. Item(name, new, mess.n, p) = Item(name, mess, mess.n, p) BY <1>12 DEF Item
  <2> QED BY <1>12, <2>1, <2>2
<1>14. Queued(heap, bufs[p], p, name)' = Queued(heap', mess.n, p, name) BY <1>3 DEF Queued
<1>15. Left(subs[p][g], p, name)' = left BY DEF Left, left
<1>16. Waiting(p, g, name) = <<>> \o old BY <1>8 DEF Waiting, old
<1>17. Waiting(p, g, name)' = Queued(heap', mess.n, p, name) \o left BY <1>14, <1>15 DEF Waiting
<1>18. <<>> \o left = left BY <1>6, ConcatEmptySeq
<1>19. CASE mess.name = name
  <2>1. OfGroup(p, h, Exposed(p, id), mess.ts) BY <1>1, <1>19
  <2>2. g = h BY <1>1, <1>4, <2>1, SubOfFile
  <2>3. old = <<Item(name, mess, mess.n, p)>> \o left
    <3>1. Left(now, p, name) = <<Item(name, mess, mess.n, p)>> \o Left(Tail(now), p, name)
      <4>1. now \in Seq(Sent) /\ now # <<>> /\ Head(now).name = name BY <1>1, <1>19
      <4> HIDE DEF now
      <4> QED BY <4>1, LeftOwn
    <3> QED BY <1>3, <2>2, <3>1 DEF old, left
  <2>4. Item(name, mess, mess.n, p) \in Given
    <3>1. mess.ts \in Int /\ mess.n \in Nat BY <1>1 DEF Sent
    <3> QED BY <1>5, <3>1 DEF Item, Given
  <2> HIDE DEF mess
  <2>5. old \in Seq(Given) BY <1>6, <2>3, <2>4
  <2>6. <<>> \o old = old BY <2>5, ConcatEmptySeq
  <2> QED BY <1>13, <1>16, <1>17, <1>19, <2>3, <2>6
<1>20. CASE mess.name # name
  <2>1. old = left
    <3>1. CASE g = h
      <4>1. Left(now, p, name) = Left(Tail(now), p, name)
        <5>1. now \in Seq(Sent) /\ now # <<>> /\ Head(now).name # name BY <1>1, <1>20
        <5> HIDE DEF now
        <5> QED BY <5>1, LeftOther
      <4> QED BY <1>3, <3>1, <4>1 DEF old, left, now
    <3>2. CASE g # h BY <1>3, <3>2 DEF old, left
    <3> QED BY <3>1, <3>2
  <2> QED BY <1>13, <1>16, <1>17, <1>18, <1>20, <2>1
<1> QED BY <1>19, <1>20

(* The four parts, in two. *)
LEMMA PipedParts ==
  ASSUME MergeKnown, NEW i \in DOMAIN subs, i \in 1 .. N, NEW g \in DOMAIN Groups(i), NEW id \in Groups(i)[g].ids
  PROVE  LET name == Exposed(i, id)
         IN  /\ Piped(i, g, name) = (FromSub(i, name) \o Popping(popped, i, name)) \o Waiting(i, g, name)
             /\ FromSub(i, name) \in Seq(Given) /\ Popping(popped, i, name) \in Seq(Given)
             /\ Waiting(i, g, name) \in Seq(Given)
<1> DEFINE name == Exposed(i, id)
<1>1. /\ delivered \in Seq(Given) /\ IsPopped(popped) /\ AreLists(i, subs[i]) /\ bufs[i] \in Nat
      /\ \A k \in DOMAIN heap : IsEntry(heap[k])
  BY DEF MergeKnown, MergeInv, MergeTypes
<1>2. name \in Nat BY NameIsNat DEF MergeKnown
<1> HIDE DEF name
<1>3. FromSub(i, name) \in Seq(Given)
  <2> DEFINE S == {k \in DOMAIN delivered : delivered[k].sub = i /\ delivered[k].name = name}
  <2>1. FromSub(i, name) = Picked(delivered, S) /\ S \subseteq DOMAIN delivered BY DEF FromSub
  <2> HIDE DEF S
  <2> QED BY <1>1, <2>1, PickedFacts
<1>4. Popping(popped, i, name) \in Seq(Given)
  <2>1. CASE popped.entry.sub = i /\ popped.entry.name = name
    <3>1. NoEntry.entry.sub = 0 /\ i # 0
      <4>1. i \in 1 .. N OBVIOUS
      <4>2. i \in Int /\ 1 <= i BY <4>1 DEF N
      <4> QED BY <4>2 DEF NoEntry
    <3>2. popped # NoEntry BY <2>1, <3>1
    <3>3. Returned(popped) \in Given BY <1>1, <3>2, ReturnedKnown
    <3> QED BY <2>1, <3>3 DEF Popping
  <2>2. CASE ~(popped.entry.sub = i /\ popped.entry.name = name) BY <2>2 DEF Popping
  <2> QED BY <2>1, <2>2
<1>5. Queued(heap, bufs[i], i, name) \in Seq(Given)
  <2> DEFINE mine == {k \in DOMAIN heap : heap[k].sub = i /\ heap[k].name = name}
             k == CHOOSE k \in mine : TRUE
             x == [name |-> name, ts |-> heap[k].ts, n |-> bufs[i], sub |-> i]
  <2>1. Queued(heap, bufs[i], i, name) = IF mine = {} THEN <<>> ELSE <<x>> BY DEF Queued
  <2>2. CASE mine # {}
    <3>1. k \in mine BY <2>2
    <3>2. heap[k].ts \in Int BY <1>1, <3>1, EntryKnown
    <3> HIDE DEF k, mine
    <3>3. x \in Given BY <1>1, <1>2, <3>2 DEF Given
    <3> QED BY <2>1, <2>2, <3>3
  <2> QED BY <2>1, <2>2
<1>6. Left(subs[i][g], i, name) \in Seq(Given)
  <2>1. subs[i][g] \in Seq(Sent) BY <1>1 DEF AreLists, IsList
  <2> QED BY <1>2, <2>1, LeftKnown
<1>7. Waiting(i, g, name) \in Seq(Given) BY <1>5, <1>6 DEF Waiting
<1>8. Piped(i, g, name) = FromSub(i, name) \o (Popping(popped, i, name) \o Waiting(i, g, name))
  BY DEF Piped, Waiting
<1>9. (FromSub(i, name) \o Popping(popped, i, name)) \o Waiting(i, g, name)
        = FromSub(i, name) \o (Popping(popped, i, name) \o Waiting(i, g, name))
  BY <1>3, <1>4, <1>7, ConcatAssociative
<1> QED BY <1>3, <1>4, <1>7, <1>8, <1>9 DEF name
-----------------------------------------------------------------------------
(* What waits stays, wherever it waits. *)
Waits ==
  \A i \in DOMAIN subs : \A g \in DOMAIN Groups(i) : \A id \in Groups(i)[g].ids :
    \A name : name = Exposed(i, id) => Waiting(i, g, name)' = Waiting(i, g, name)

LEMMA TakesWaits ==
  ASSUME Inv, MergeKnown, phase = "pull", failures = 0, NEW h \in NextOf(pulling), Takes(h)
  PROVE  Waits
<1> SUFFICES ASSUME NEW i \in DOMAIN subs, NEW g \in DOMAIN Groups(i), NEW id \in Groups(i)[g].ids,
                    NEW name, name = Exposed(i, id)
             PROVE  Waiting(i, g, name)' = Waiting(i, g, name)
  BY DEF Waits
<1>1. i \in 1 .. N BY StreamFacts DEF Streams
<1>2. CASE i = pulling BY <1>1, <1>2, TakesWait
<1>3. CASE i # pulling
  <2>1. bufs'[i] = bufs[i] BY <1>1, <1>3, TakesTypes
  <2>2. Rooms BY TakesRooms
  <2> QED BY <1>3, <2>1, <2>2, OthersWait
<1> QED BY <1>2, <1>3

LEMMA MovesPipe ==
  ASSUME Inv, MergeKnown, phase = "pull", Answered, disk' = disk, call' = call, failures' = failures,
         DOMAIN subs' = DOMAIN subs, failures = 0 => Waits
  PROVE  MergePipe'
<1> SUFFICES ASSUME failures = 0,
                    NEW i \in DOMAIN subs, ~PassesThrough(i), NEW g \in DOMAIN Groups(i),
                    NEW id \in Groups(i)[g].ids
             PROVE  Piped(i, g, Exposed(i, id))' = Expected(i, g, id)
  <2>1. /\ \A j : PassesThrough(j)' <=> PassesThrough(j)
        /\ \A j, k, l : Expected(j, k, l)' = Expected(j, k, l)
    BY SameAnswers
  <2>2. \A j : Groups(j)' = Groups(j) BY SameFiles
  <2> QED BY <2>1, <2>2 DEF MergePipe
<1>1. PICK name : name = Exposed(i, id) OBVIOUS
<1>2. Exposed(i, id)' = name BY <1>1, SameFiles
<1>3. Piped(i, g, Exposed(i, id))' = Piped(i, g, name)' BY <1>2 DEF Piped, FromSub, Popping, Queued, Left
<1>4. i \in 1 .. N BY StreamFacts DEF Streams
<1>5. /\ Piped(i, g, name) = (FromSub(i, name) \o Popping(popped, i, name)) \o Waiting(i, g, name)
      /\ Waiting(i, g, name) \in Seq(Given)
  BY <1>1, <1>4, PipedParts
<1>6. /\ FromSub(i, name)' \o Popping(popped, i, name)' = FromSub(i, name) \o Popping(popped, i, name)
      /\ Popping(popped, i, name)' = <<>>
  BY <1>4, AnsweredPipe
<1>7. Waiting(i, g, name)' = Waiting(i, g, name) BY <1>1 DEF Waits
<1>8. FromSub(i, name)' \in Seq(Given)
  <2> DEFINE S == {k \in DOMAIN delivered' : delivered'[k].sub = i /\ delivered'[k].name = name}
  <2>1. delivered' \in Seq(Given) BY AnsweredTypes, SameFiles
  <2>2. FromSub(i, name)' = Picked(delivered', S) /\ S \subseteq DOMAIN delivered' BY DEF FromSub
  <2> HIDE DEF S
  <2> QED BY <2>1, <2>2, PickedFacts
<1>9. Piped(i, g, name)' = FromSub(i, name)' \o (Popping(popped, i, name)' \o Waiting(i, g, name)')
  BY DEF Piped, Waiting
<1>10. Piped(i, g, name) = Expected(i, g, id)
  BY <1>1 DEF MergeKnown, MergeInv, MergePipe
<1> DEFINE f == FromSub(i, name)'
           w == Waiting(i, g, name)
<1>11. f \in Seq(Given) /\ w \in Seq(Given) BY <1>5, <1>8
<1>12. Piped(i, g, name)' = f \o (<<>> \o w) BY <1>6, <1>7, <1>9
<1>13. Piped(i, g, name) = (f \o <<>>) \o w BY <1>5, <1>6
<1> HIDE DEF f, w
<1>14. <<>> \o w = w /\ f \o <<>> = f BY <1>11, ConcatEmptySeq
<1> QED BY <1>3, <1>10, <1>12, <1>13, <1>14

LEMMA PulledMerge ==
  ASSUME Inv, MergeKnown, phase = "pull", Answered, disk' = disk, call' = call, failures' = failures,
         Moves, Rooms, failures = 0 => Waits,
         heap' \in Seq(HeapEntry), IsHeap(heap'), \A k \in DOMAIN heap' : IsEntry(heap'[k]),
         bufs' \in [1 .. N -> Nat], subs' \in Seq(Seq(Seq(Sent))), Len(subs') = Len(subs),
         \A i \in DOMAIN subs' : AreLists(i, subs'[i])
  PROVE  MergeKnown'
<1>1. N' = N /\ HeapEntry' = HeapEntry /\ DiskKnown' BY SameFiles DEF MergeKnown
<1>2. DOMAIN subs' = DOMAIN subs BY DEF Moves
<1>3. MergePhase' BY AnsweredPhase
<1>4. MergeScope' BY AnsweredScope DEF Streams
<1>5. MergeTimes' BY MovesTimes
<1>6. MergeRoom' BY MovesRoom
<1>7. MergePipe' BY <1>2, MovesPipe
<1>8. MergeTypes'
  <2>1. /\ \A i \in DOMAIN subs' : AreLists(i, subs[i])'
        /\ \A k \in DOMAIN heap' : IsEntry(heap[k])'
    <3>1. /\ \A i, lists : AreLists(i, lists)' <=> AreLists(i, lists)
          /\ \A e : IsEntry(e)' <=> IsEntry(e)
      BY SameLists
    <3>2. ASSUME NEW i \in DOMAIN subs' PROVE AreLists(i, subs[i])'
      <4>1. PICK lists : lists = subs'[i] OBVIOUS
      <4>2. AreLists(i, lists)' BY <3>1, <4>1
      <4> QED BY <4>1, <4>2 DEF AreLists, IsList
    <3>3. ASSUME NEW k \in DOMAIN heap' PROVE IsEntry(heap[k])'
      <4>1. PICK e : e = heap'[k] OBVIOUS
      <4>2. IsEntry(e)' BY <3>1, <4>1
      <4> QED BY <4>1, <4>2 DEF IsEntry
    <3> QED BY <3>2, <3>3
  <2>2. /\ delivered' \in Seq(Given)'
        /\ \A k \in DOMAIN delivered' : OfFile(delivered[k].sub, delivered[k].name, delivered[k].ts)'
        /\ IsPopped(popped)'
    BY AnsweredTypes
  <2>3. failures' \in Nat /\ Len(subs') <= N BY DEF MergeKnown, MergeInv, MergeTypes
  <2>4. IsHeap(heap)' BY DEF IsHeap
  <2> QED BY <1>1, <2>1, <2>2, <2>3, <2>4 DEF MergeTypes, Sent
<1> QED BY <1>1, <1>3, <1>4, <1>5, <1>6, <1>7, <1>8 DEF MergeKnown, MergeInv

LEMMA PullMerge == ASSUME Inv, MergeKnown, Pull PROVE MergeKnown'
<1>1. PICK g \in NextOf(pulling) : Takes(g) BY PullTakes
<1>2. phase = "pull" /\ Answered /\ disk' = disk /\ call' = call /\ failures' = failures
  BY DEF Pull, streamOnly, readerVars
<1>3. /\ heap' \in Seq(HeapEntry) /\ IsHeap(heap') /\ \A k \in DOMAIN heap' : IsEntry(heap'[k])
      /\ bufs' \in [1 .. N -> Nat]
      /\ subs' \in Seq(Seq(Seq(Sent))) /\ DOMAIN subs' = DOMAIN subs /\ Len(subs') = Len(subs)
      /\ \A i \in DOMAIN subs : AreLists(i, subs'[i])
  BY <1>1, <1>2, TakesTypes
<1>4. Moves /\ Rooms BY <1>1, <1>2, TakesMoves, TakesRooms
<1>5. failures = 0 => Waits BY <1>1, <1>2, TakesWaits
<1> QED BY <1>2, <1>3, <1>4, <1>5, PulledMerge

LEMMA PullEofMerge == ASSUME Inv, MergeKnown, PullEof PROVE MergeKnown'
<1>1. /\ phase = "pull" /\ Answered /\ disk' = disk /\ call' = call /\ failures' = failures
      /\ NextOf(pulling) = {} /\ UNCHANGED <<subs, bufs, heap>>
  BY DEF PullEof, streamOnly, readerVars
<1>2. Moves /\ Rooms BY <1>1, EofMoves
<1>3. Waits
  <2>1. \A i, g, name : Waiting(i, g, name)' = Waiting(i, g, name) BY <1>1 DEF Waiting, Queued, Left
  <2> QED BY <2>1 DEF Waits
<1>4. /\ heap' \in Seq(HeapEntry) /\ IsHeap(heap') /\ \A k \in DOMAIN heap' : IsEntry(heap'[k])
      /\ bufs' \in [1 .. N -> Nat]
      /\ subs' \in Seq(Seq(Seq(Sent))) /\ Len(subs') = Len(subs)
      /\ \A i \in DOMAIN subs' : AreLists(i, subs'[i])
  BY <1>1 DEF MergeKnown, MergeInv, MergeTypes
<1> QED BY <1>1, <1>2, <1>3, <1>4, PulledMerge
-----------------------------------------------------------------------------
(* A call that failed: what was popped is lost, and perhaps the rest of a  *)
(* group.                                                                  *)
LEMMA FailsMoves ==
  ASSUME Inv, MergeKnown, PullFails
  PROVE  /\ subs' \in Seq(Seq(Seq(Sent))) /\ DOMAIN subs' = DOMAIN subs /\ Len(subs') = Len(subs)
         /\ \A i \in DOMAIN subs : AreLists(i, subs'[i])
         /\ \A i \in DOMAIN subs : \A key : Ahead(key, subs[i]) => Ahead(key, subs'[i])
<1>1. MergeTypes /\ pulling \in DOMAIN subs
  BY StreamFacts DEF PullFails, Streams, MergeKnown, MergeInv
<1>2. CASE UNCHANGED subs BY <1>1, <1>2 DEF MergeTypes
<1>3. CASE \E g \in NextOf(pulling) : subs' = [subs EXCEPT ![pulling][g] = <<>>]
  <2>1. PICK g \in NextOf(pulling) : subs' = [subs EXCEPT ![pulling][g] = <<>>] BY <1>3
  <2> DEFINE none == <<>>
  <2>2. g \in DOMAIN subs[pulling] BY <2>1 DEF NextOf
  <2>3. DOMAIN none = {} /\ none \in Seq(Sent) OBVIOUS
  <2>4. subs' = [subs EXCEPT ![pulling][g] = none] BY <2>1
  <2> HIDE DEF none
  <2>5. IsList(pulling, g, none) BY <2>3 DEF IsList
  <2>6. /\ subs' \in Seq(Seq(Seq(Sent))) /\ DOMAIN subs' = DOMAIN subs /\ Len(subs') = Len(subs)
        /\ \A i \in DOMAIN subs : AreLists(i, subs'[i]) /\ (i # pulling => subs'[i] = subs[i])
        /\ DOMAIN subs'[pulling] = DOMAIN subs[pulling]
        /\ \A h \in DOMAIN subs[pulling] : subs'[pulling][h] = IF h = g THEN none ELSE subs[pulling][h]
    BY <1>1, <2>2, <2>4, <2>5, Relisted
  <2>7. ASSUME NEW i \in DOMAIN subs, NEW key, Ahead(key, subs[i]) PROVE Ahead(key, subs'[i])
    <3>1. CASE i = pulling BY <2>3, <2>6, <2>7, <3>1 DEF Ahead
    <3>2. CASE i # pulling
      <4>1. subs'[i] = subs[i] BY <2>6, <3>2
      <4> QED BY <2>7, <4>1 DEF Ahead
    <3> QED BY <3>1, <3>2
  <2> QED BY <2>6, <2>7
<1> QED BY <1>2, <1>3 DEF PullFails

LEMMA PullFailsMerge == ASSUME Inv, MergeKnown, PullFails PROVE MergeKnown'
<1>1. /\ phase = "pull" /\ popped' = NoEntry /\ pulling' = 0 /\ phase' = "stream" /\ result' = "error"
      /\ failures' = failures + 1 /\ disk' = disk /\ call' = call
      /\ bufs' = bufs /\ heap' = heap /\ loaded' = loaded /\ delivered' = delivered
  BY DEF PullFails, streamOnly, readerVars
<1>2. /\ subs' \in Seq(Seq(Seq(Sent))) /\ DOMAIN subs' = DOMAIN subs /\ Len(subs') = Len(subs)
      /\ \A i \in DOMAIN subs : AreLists(i, subs'[i])
      /\ \A i \in DOMAIN subs : \A key : Ahead(key, subs[i]) => Ahead(key, subs'[i])
  BY FailsMoves
<1>3. /\ N' = N /\ HeapEntry' = HeapEntry /\ Given' = Given /\ DiskKnown'
      /\ \A ts : Key(ts)' = Key(ts)
  BY <1>1, SameFiles DEF MergeKnown
<1>4. /\ \A i, lists : AreLists(i, lists)' <=> AreLists(i, lists)
      /\ \A key, lists : Ahead(key, lists)' <=> Ahead(key, lists)
      /\ \A e : IsEntry(e)' <=> IsEntry(e)
  BY <1>1, SameLists
<1>5. \A i, name, ts : OfFile(i, name, ts)' <=> OfFile(i, name, ts) BY <1>1, SamePlaces
<1>6. failures \in Nat /\ failures' # 0 /\ failures' \in Nat
  <2>1. failures \in Nat BY DEF MergeKnown, MergeInv, MergeTypes
  <2> QED BY <1>1, <2>1
<1>7. MergeTypes'
  <2>1. IsPopped(popped)' BY <1>1 DEF IsPopped, NoEntry
  <2>2. \A k \in DOMAIN heap' : IsEntry(heap[k])'
    BY <1>1, <1>4 DEF MergeKnown, MergeInv, MergeTypes, IsEntry
  <2>3. ASSUME NEW i \in DOMAIN subs' PROVE AreLists(i, subs[i])'
    <3>1. PICK lists : lists = subs'[i] OBVIOUS
    <3>2. AreLists(i, lists)' BY <1>2, <1>4, <3>1
    <3> QED BY <3>1, <3>2 DEF AreLists, IsList
  <2>4. \A k \in DOMAIN delivered' : OfFile(delivered[k].sub, delivered[k].name, delivered[k].ts)'
    BY <1>1, <1>5 DEF MergeKnown, MergeInv, MergeTypes
  <2>5. IsHeap(heap)' BY <1>1 DEF MergeKnown, MergeInv, MergeTypes, IsHeap
  <2> QED BY <1>1, <1>2, <1>3, <1>6, <2>1, <2>2, <2>3, <2>4, <2>5 DEF MergeKnown, MergeInv, MergeTypes, Sent
<1>8. (popped # NoEntry)' <=> FALSE BY <1>1 DEF NoEntry
<1>9. MergePhase'
  <2>1. Len(subs) = N /\ loaded \in BOOLEAN /\ (~loaded => delivered = <<>>)
    BY <1>1, StreamFacts DEF Streams
  <2> QED BY <1>1, <1>2, <1>3, <1>8, <2>1 DEF MergePhase, Streams
<1>10. MergeScope' BY <1>1, AnsweredScope DEF Streams
<1>11. MergeTimes'
  <2>1. /\ \A j, k \in DOMAIN delivered : j < k => Key(delivered[j].ts) <= Key(delivered[k].ts)
        /\ \A j \in DOMAIN delivered : \A k \in DOMAIN heap : Key(delivered[j].ts) <= heap[k].key
        /\ \A k \in DOMAIN heap : heap[k].sub \in DOMAIN subs /\ Ahead(heap[k].key, subs[heap[k].sub])
    BY DEF MergeKnown, MergeInv, MergeTimes
  <2>2. \A k \in DOMAIN heap' : heap'[k].sub \in DOMAIN subs' /\ Ahead(heap'[k].key, subs'[heap'[k].sub])
    BY <1>1, <1>2, <2>1
  <2> QED BY <1>1, <1>3, <1>4, <1>8, <2>1, <2>2 DEF MergeTimes
<1>12. MergeRoom' /\ MergePipe' BY <1>6 DEF MergeRoom, MergePipe
<1> QED BY <1>3, <1>7, <1>9, <1>10, <1>11, <1>12 DEF MergeKnown, MergeInv

(* The root of the heap, popped. *)
LEMMA RootKnown ==
  ASSUME MergeKnown, Pop
  PROVE  /\ 1 \in DOMAIN heap /\ IsEntry(heap[1]) /\ popped'.entry = heap[1] /\ popped'.n = bufs[heap[1].sub]
         /\ popped'.n \in Nat /\ pulling' = heap[1].sub /\ heap[1].sub \in 1 .. N
         /\ popped' = [entry |-> heap[1], n |-> bufs[heap[1].sub]]
         /\ heap' \in Seq(HeapEntry) /\ IsHeap(heap')
         /\ \A k \in DOMAIN heap : heap[1].key <= heap[k].key
         /\ \A j \in DOMAIN heap : j # 1 => \E k \in DOMAIN heap' : heap'[k] = heap[j]
         /\ \A k \in DOMAIN heap' : \E j \in DOMAIN heap : j # 1 /\ heap'[k] = heap[j]
         /\ \A k, l \in DOMAIN heap' : k # l =>
              \E i, j \in DOMAIN heap : i # j /\ heap'[k] = heap[i] /\ heap'[l] = heap[j]
<1>1. /\ heap \in Seq(HeapEntry) /\ IsHeap(heap) /\ heap # <<>> /\ bufs \in [1 .. N -> Nat]
      /\ \A k \in DOMAIN heap : IsEntry(heap[k])
  BY DEF Pop, MergeKnown, MergeInv, MergeTypes
<1>2. \A e \in HeapEntry : e.key \in Int BY DEF HeapEntry
<1>3. /\ Popped(heap) \in Seq(HeapEntry) /\ IsHeap(Popped(heap))
      /\ Head(heap) = heap[1] /\ 1 \in DOMAIN heap
      /\ \A k \in DOMAIN heap : Head(heap).key <= heap[k].key
  BY <1>1, <1>2, PoppedFacts
<1>4. /\ popped' = [entry |-> Head(heap), n |-> bufs[Head(heap).sub]]
      /\ heap' = Popped(heap) /\ pulling' = Head(heap).sub
  BY DEF Pop
<1>5. /\ \A j \in DOMAIN heap : j # 1 => \E k \in DOMAIN Popped(heap) : Popped(heap)[k] = heap[j]
      /\ \A k \in DOMAIN Popped(heap) : \E j \in DOMAIN heap : j # 1 /\ Popped(heap)[k] = heap[j]
      /\ \A k, l \in DOMAIN Popped(heap) : k # l =>
           \E i, j \in DOMAIN heap : i # j /\ Popped(heap)[k] = heap[i] /\ Popped(heap)[l] = heap[j]
  BY <1>1, PoppedPairs
<1>6. heap[1].sub \in 1 .. N /\ IsEntry(heap[1]) BY <1>1, <1>3, EntryKnown
<1>7. bufs[heap[1].sub] \in Nat BY <1>1, <1>6
<1> QED BY <1>3, <1>4, <1>5, <1>6, <1>7

(* It was in the heap, and is popped. *)
LEMMA PopPiped ==
  ASSUME Inv, MergeKnown, Pop, failures = 0, NEW i \in 1 .. N, i \in DOMAIN subs, NEW g \in DOMAIN Groups(i),
         NEW id \in Groups(i)[g].ids, NEW name, name = Exposed(i, id)
  PROVE  Piped(i, g, name)' = Piped(i, g, name)
<1> DEFINE f == FromSub(i, name)
           b == bufs[i]
           q == Queued(heap, b, i, name)
           l == Left(subs[i][g], i, name)
           root == heap[1]
<1>1. popped = NoEntry /\ UNCHANGED <<subs, bufs, delivered>>
  BY StreamFacts DEF Pop, Streams
<1>2. /\ 1 \in DOMAIN heap /\ popped'.entry = root /\ popped'.n = bufs[root.sub]
      /\ \A j \in DOMAIN heap : j # 1 => \E k \in DOMAIN heap' : heap'[k] = heap[j]
      /\ \A k \in DOMAIN heap' : \E j \in DOMAIN heap : j # 1 /\ heap'[k] = heap[j]
      /\ \A k, m \in DOMAIN heap' : k # m =>
           \E c, j \in DOMAIN heap : c # j /\ heap'[k] = heap[c] /\ heap'[m] = heap[j]
  BY RootKnown
<1>3. \A k, m \in DOMAIN heap : heap[k].sub = heap[m].sub => k = m BY DEF MergeKnown, MergeInv, MergeRoom
<1>4. Popping(popped, i, name) = <<>>
  <2>1. i # 0 /\ popped.entry.sub = 0
    <3>1. N \in Nat BY DEF Inv, Types
    <3> QED BY <1>1, <3>1 DEF NoEntry
  <2> QED BY <2>1 DEF Popping
<1>5. /\ Piped(i, g, name) = f \o (<<>> \o (q \o l))
      /\ Piped(i, g, name)' = f \o (Popping(popped, i, name)' \o (Queued(heap', b, i, name) \o l))
  <2>1. FromSub(i, name)' = f BY <1>1 DEF FromSub
  <2>2. Queued(heap, bufs[i], i, name)' = Queued(heap', b, i, name) BY <1>1 DEF Queued
  <2>3. Left(subs[i][g], i, name)' = l BY <1>1 DEF Left
  <2> QED BY <1>4, <2>1, <2>2, <2>3 DEF Piped
<1>6. q \o l \in Seq(Given) BY PipedParts DEF Waiting
<1>7. Alone(heap, i) BY <1>3 DEF Alone
<1>8. Left(subs[i][g], i, name) \in Seq(Given)
  <2>1. AreLists(i, subs[i]) /\ name \in Nat BY NameIsNat DEF MergeKnown, MergeInv, MergeTypes
  <2>2. subs[i][g] \in Seq(Sent) BY <2>1 DEF AreLists, IsList
  <2> QED BY <2>1, <2>2, LeftKnown
<1>9. CASE i = root.sub
  <2>1. q = IF root.name = name THEN <<Item(name, root, b, i)>> ELSE <<>>
    <3> HIDE DEF b
    <3> QED BY <1>2, <1>7, <1>9, QueuedOne
  <2>2. \A k \in DOMAIN heap' : heap'[k].sub # i BY <1>2, <1>3, <1>9
  <2>3. Queued(heap', b, i, name) = <<>> BY <2>2, QueuedNone
  <2>4. Popping(popped, i, name)' = q
    <3>1. Popping(popped, i, name)' = IF root.sub = i /\ root.name = name THEN <<Returned(popped)'>> ELSE <<>>
      BY <1>2 DEF Popping, Returned
    <3>2. root.name = name => Returned(popped)' = Item(name, root, b, i) BY <1>2, <1>9 DEF Returned, Item
    <3> QED BY <1>9, <2>1, <3>1, <3>2
  <2> HIDE DEF q, l, f, b, root
  <2>5. <<>> \o l = l /\ <<>> \o (q \o l) = q \o l BY <1>6, <1>8, ConcatEmptySeq DEF l
  <2> QED BY <1>5, <2>3, <2>4, <2>5
<1>10. CASE i # root.sub
  <2>1. Alone(heap', i) BY <1>2, <1>3 DEF Alone
  <2>2. Same(heap, heap', i) BY <1>2, <1>10 DEF Same
  <2>3. Queued(heap', b, i, name) = q
    <3> HIDE DEF b
    <3> QED BY <1>7, <2>1, <2>2, QueuedSame
  <2>4. Popping(popped, i, name)' = <<>> BY <1>2, <1>10 DEF Popping
  <2> HIDE DEF q, l, f, b
  <2> QED BY <1>5, <2>3, <2>4
<1> QED BY <1>9, <1>10
-----------------------------------------------------------------------------
LEMMA PopMerge == ASSUME Inv, MergeKnown, Pop PROVE MergeKnown'
<1> DEFINE root == heap[1]
<1>1. /\ phase = "pop" /\ phase' = "pull" /\ disk' = disk /\ call' = call
      /\ subs' = subs /\ bufs' = bufs /\ loaded' = loaded /\ delivered' = delivered /\ result' = result
      /\ failures' = failures
  BY DEF Pop, streamOnly, readerVars
<1>2. /\ N \in Nat /\ Len(subs) = N /\ DOMAIN subs = 1 .. N /\ result # "eof" /\ loaded
      /\ pulling = 0 /\ popped = NoEntry
  BY <1>1, StreamFacts DEF Streams
<1>3. /\ 1 \in DOMAIN heap /\ IsEntry(root) /\ popped'.entry = root /\ popped'.n \in Nat
      /\ pulling' = root.sub /\ root.sub \in 1 .. N
      /\ popped' = [entry |-> root, n |-> bufs[root.sub]] /\ bufs[root.sub] \in Nat
      /\ heap' \in Seq(HeapEntry) /\ IsHeap(heap')
      /\ \A k \in DOMAIN heap : root.key <= heap[k].key
      /\ \A j \in DOMAIN heap : j # 1 => \E k \in DOMAIN heap' : heap'[k] = heap[j]
      /\ \A k \in DOMAIN heap' : \E j \in DOMAIN heap : j # 1 /\ heap'[k] = heap[j]
      /\ \A k, l \in DOMAIN heap' : k # l =>
           \E i, j \in DOMAIN heap : i # j /\ heap'[k] = heap[i] /\ heap'[l] = heap[j]
  BY RootKnown
<1> HIDE DEF root
<1>4. /\ N' = N /\ HeapEntry' = HeapEntry /\ Given' = Given /\ DiskKnown'
      /\ \A ts : Key(ts)' = Key(ts)
      /\ \A i : Groups(i)' = Groups(i)
      /\ \A i, id : Exposed(i, id)' = Exposed(i, id)
  BY <1>1, SameFiles DEF MergeKnown
<1>5. /\ \A i, lists : AreLists(i, lists)' <=> AreLists(i, lists)
      /\ \A key, lists : Ahead(key, lists)' <=> Ahead(key, lists)
      /\ \A e : IsEntry(e)' <=> IsEntry(e)
      /\ \A p : IsPopped(p)' <=> IsPopped(p)
  BY <1>1, SameLists
<1>6. \A i, name, ts : OfFile(i, name, ts)' <=> OfFile(i, name, ts) BY <1>1, SamePlaces
<1>7. (popped # NoEntry)'
  <2>1. popped'.entry.sub # 0 /\ NoEntry.entry.sub = 0 BY <1>2, <1>3 DEF NoEntry
  <2>2. popped' # NoEntry BY <2>1
  <2> QED BY <2>2 DEF NoEntry
<1>8. MergeTypes'
  <2>1. IsPopped(popped)'
    <3>1. root \in HeapEntry BY <1>3, EntryKnown
    <3>2. PICK p : p = popped' OBVIOUS
    <3>3. p \in [entry : HeapEntry, n : Nat] /\ p.entry = root BY <1>3, <3>1, <3>2
    <3>4. IsPopped(p)' BY <1>3, <1>5, <3>3 DEF IsPopped
    <3> QED BY <3>2, <3>4 DEF IsPopped, IsEntry, NoEntry
  <2>2. ASSUME NEW k \in DOMAIN heap' PROVE IsEntry(heap[k])'
    <3>1. PICK j \in DOMAIN heap : heap'[k] = heap[j] BY <1>3
    <3>2. PICK e : e = heap[j] OBVIOUS
    <3>3. IsEntry(e)' BY <1>5, <3>2 DEF MergeKnown, MergeInv, MergeTypes
    <3> QED BY <3>1, <3>2, <3>3 DEF IsEntry
  <2>3. \A i \in DOMAIN subs' : AreLists(i, subs[i])'
    BY <1>1, <1>5 DEF MergeKnown, MergeInv, MergeTypes
  <2>4. \A k \in DOMAIN delivered' : OfFile(delivered[k].sub, delivered[k].name, delivered[k].ts)'
    BY <1>1, <1>6 DEF MergeKnown, MergeInv, MergeTypes
  <2>5. IsHeap(heap)' BY <1>3 DEF IsHeap
  <2> QED BY <1>1, <1>3, <1>4, <2>1, <2>2, <2>3, <2>4, <2>5 DEF MergeKnown, MergeInv, MergeTypes, Sent
<1>9. MergePhase' BY <1>1, <1>2, <1>3, <1>4, <1>7 DEF MergePhase, Streams
<1>10. MergeScope' BY <1>1, AnsweredScope DEF Streams
<1>11. MergeTimes'
  <2>1. /\ \A j, k \in DOMAIN delivered : j < k => Key(delivered[j].ts) <= Key(delivered[k].ts)
        /\ \A j \in DOMAIN delivered : \A k \in DOMAIN heap : Key(delivered[j].ts) <= heap[k].key
        /\ \A k \in DOMAIN heap : heap[k].sub \in DOMAIN subs /\ Ahead(heap[k].key, subs[heap[k].sub])
    BY DEF MergeKnown, MergeInv, MergeTimes
  <2>2. \A k \in DOMAIN heap' : heap'[k].sub \in DOMAIN subs' /\ Ahead(heap'[k].key, subs'[heap'[k].sub])
    BY <1>1, <1>3, <2>1
  <2>3. \A j \in DOMAIN delivered : \A k \in DOMAIN heap' : Key(delivered[j].ts) <= heap'[k].key
    BY <1>3, <2>1
  <2>4. /\ \A j \in DOMAIN delivered : Key(delivered[j].ts) <= popped'.entry.key
        /\ \A k \in DOMAIN heap' : popped'.entry.key <= heap'[k].key
        /\ Ahead(popped'.entry.key, subs'[pulling'])
    BY <1>1, <1>3, <2>1 DEF root
  <2>5. ASSUME NEW key, NEW lists, Ahead(key, lists) PROVE Ahead(key, lists)' BY <1>5, <2>5
  <2>6. \A k \in DOMAIN heap' : Ahead(heap[k].key, subs[heap[k].sub])' BY <1>4, <2>2 DEF Ahead
  <2>7. Ahead(popped.entry.key, subs[pulling])' BY <1>4, <2>4 DEF Ahead
  <2> QED BY <1>1, <1>4, <2>1, <2>2, <2>3, <2>4, <2>6, <2>7 DEF MergeTimes
<1>12. MergeRoom'
  <2> SUFFICES ASSUME failures = 0
               PROVE  /\ \A k, l \in DOMAIN heap' : heap'[k].sub = heap'[l].sub => k = l
                      /\ \A k \in DOMAIN heap' : heap'[k].sub # pulling'
                      /\ \A i \in DOMAIN subs : (i # pulling' /\ \A k \in DOMAIN heap' : heap'[k].sub # i) =>
                           \A g \in DOMAIN subs[i] : subs[i][g] = <<>>
    BY <1>1, <1>2 DEF MergeRoom, Served
  <2>1. /\ \A k, l \in DOMAIN heap : heap[k].sub = heap[l].sub => k = l
        /\ \A i \in DOMAIN subs : Served(i) /\ (\A k \in DOMAIN heap : heap[k].sub # i) =>
             \A g \in DOMAIN subs[i] : subs[i][g] = <<>>
    BY DEF MergeKnown, MergeInv, MergeRoom
  <2>2. \A k, l \in DOMAIN heap' : heap'[k].sub = heap'[l].sub => k = l BY <1>3, <2>1
  <2>3. \A k \in DOMAIN heap' : heap'[k].sub # pulling' BY <1>3, <2>1 DEF root
  <2>4. ASSUME NEW i \in DOMAIN subs, i # pulling', \A k \in DOMAIN heap' : heap'[k].sub # i
        PROVE  \A g \in DOMAIN subs[i] : subs[i][g] = <<>>
    <3>1. Served(i) BY <1>2 DEF Served
    <3>2. \A k \in DOMAIN heap : heap[k].sub # i BY <1>3, <2>4 DEF root
    <3> QED BY <2>1, <3>1, <3>2
  <2> QED BY <2>2, <2>3, <2>4
<1>13. MergePipe'
  <2>1. /\ \A j : PassesThrough(j)' <=> PassesThrough(j)
        /\ \A j, k, l : Expected(j, k, l)' = Expected(j, k, l)
    BY <1>1, SameAnswers
  <2>2. ASSUME failures = 0, NEW i \in DOMAIN subs, ~PassesThrough(i), NEW g \in DOMAIN Groups(i),
               NEW id \in Groups(i)[g].ids
        PROVE  Piped(i, g, Exposed(i, id))' = Expected(i, g, id)
    <3>1. PICK name : name = Exposed(i, id) OBVIOUS
    <3>2. Exposed(i, id)' = name BY <1>4, <3>1
    <3>3. Piped(i, g, Exposed(i, id))' = Piped(i, g, name)' BY <3>2 DEF Piped, FromSub, Popping, Queued, Left
    <3>4. Piped(i, g, name)' = Piped(i, g, name) BY <1>2, <2>2, <3>1, PopPiped
    <3>5. Piped(i, g, name) = Expected(i, g, id) BY <2>2, <3>1 DEF MergeKnown, MergeInv, MergePipe
    <3> QED BY <3>3, <3>4, <3>5
  <2> QED BY <1>1, <1>4, <2>1, <2>2 DEF MergePipe
<1> QED BY <1>4, <1>8, <1>9, <1>10, <1>11, <1>12, <1>13 DEF MergeKnown, MergeInv

LEMMA NextIntoMerge == ASSUME Inv, MergeKnown, NextInto PROVE MergeKnown'
<1>1. /\ phase = "stream" /\ phase' = (IF loaded THEN "pop" ELSE "pull") /\ pulling' = (IF loaded THEN 0 ELSE 1)
      /\ result' = "none" /\ disk' = disk /\ call' = call
      /\ UNCHANGED <<subs, bufs, heap, loaded, popped, delivered, failures>>
  BY DEF NextInto, streamOnly, readerVars
<1>2. /\ N \in Nat \ {0} /\ Len(subs) = N /\ DOMAIN subs = 1 .. N /\ pulling = 0 /\ popped = NoEntry
      /\ loaded \in BOOLEAN /\ (~loaded => delivered = <<>>)
  BY <1>1, StreamFacts DEF Streams
<1>3. DiskKnown' /\ MergeTypes' /\ MergeTimes' /\ MergePipe' /\ (pulling' = pulling => MergeRoom')
  BY <1>1, <1>2, QuietParts
<1>4. N' = N BY <1>1, SameFiles
<1>5. popped' = NoEntry BY <1>1, <1>2
<1>6. (popped # NoEntry)' <=> FALSE BY <1>5 DEF NoEntry
<1>7. MergePhase' BY <1>1, <1>2, <1>4, <1>6 DEF MergePhase, Streams
<1>8. MergeScope' BY <1>1, AnsweredScope DEF Streams
<1>9. MergeRoom'
  <2>1. CASE loaded BY <1>1, <1>2, <1>3, <2>1
  <2>2. CASE ~loaded
    <3>1. ASSUME failures = 0 PROVE DOMAIN heap = {}
      <4> SUFFICES ASSUME NEW k \in DOMAIN heap PROVE FALSE OBVIOUS
      <4>1. heap[k].sub < 0 BY <1>2, <2>2, <3>1 DEF MergeKnown, MergeInv, MergeRoom
      <4>2. heap[k].sub \in 1 .. N BY EntryKnown DEF MergeKnown, MergeInv, MergeTypes
      <4> QED BY <4>1, <4>2, <1>2
    <3>2. \A i \in DOMAIN subs : ~(i < 1) BY <1>2
    <3> QED BY <1>1, <2>2, <3>1, <3>2 DEF MergeRoom, Served
  <2> QED BY <1>2, <2>1, <2>2
<1> QED BY <1>3, <1>7, <1>8, <1>9 DEF MergeKnown, MergeInv

LEMMA EofMerge == ASSUME Inv, MergeKnown, Eof PROVE MergeKnown'
<1>1. /\ phase = "pop" /\ heap = <<>> /\ phase' = "idle" /\ result' = "eof" /\ disk' = disk /\ call' = call
      /\ UNCHANGED <<subs, bufs, heap, loaded, pulling, popped, delivered, failures>>
  BY DEF Eof, readerVars
<1>2. Len(subs) = N /\ pulling = 0 /\ popped = NoEntry /\ loaded
  BY <1>1, StreamFacts DEF Streams
<1>3. DiskKnown' /\ MergeTypes' /\ MergeTimes' /\ MergePipe' /\ MergeRoom' BY <1>1, QuietParts
<1>4. N' = N BY <1>1, SameFiles
<1>5. popped' = NoEntry BY <1>1, <1>2
<1>6. (popped # NoEntry)' <=> FALSE BY <1>5 DEF NoEntry
<1>7. MergePhase'
  <2>1. loaded' = TRUE
    <3>1. loaded \in BOOLEAN BY DEF MergeKnown, MergeInv, MergePhase
    <3> QED BY <1>1, <1>2, <3>1
  <2> QED BY <1>1, <1>2, <1>4, <1>6, <2>1 DEF MergePhase, Streams, NoEntry
<1>8. MergeScope' BY <1>1, AnsweredScope DEF Streams
<1> QED BY <1>3, <1>7, <1>8 DEF MergeKnown, MergeInv

LEMMA SameMerge == ASSUME MergeKnown, UNCHANGED vars PROVE MergeKnown'
<1>1. /\ disk' = disk /\ call' = call /\ phase' = phase /\ at' = at /\ result' = result
      /\ UNCHANGED <<subs, bufs, heap, loaded, pulling, popped, delivered, failures>>
  BY DEF vars, readerVars, callVars, streamVars
<1>2. DiskKnown' /\ MergeTypes' /\ MergeTimes' /\ MergePipe' /\ MergeRoom' BY <1>1, QuietParts
<1>3. N' = N BY <1>1, SameFiles
<1>4. MergePhase' BY <1>1, <1>3 DEF MergeKnown, MergeInv, MergePhase, Fresh, NoEntry
<1>5. MergeScope'
  <2>1. (AllClean' <=> AllClean) /\ (VideosOverlap(ReadScope)' <=> VideosOverlap(ReadScope)) BY <1>1, SameScope
  <2> QED BY <1>1, <2>1 DEF MergeKnown, MergeInv, MergeScope
<1> QED BY <1>2, <1>4, <1>5 DEF MergeKnown, MergeInv

LEMMA MergeNext == ASSUME Inv, Inv', MergeKnown, [Next]_vars PROVE MergeKnown'
<1>1. CASE CallStarts BY <1>1, CallStartsMerge
<1>2. CASE Loading BY <1>2, LoadingMerge
<1>3. CASE \/ LoadFails \/ Summary \/ BoundsOf \/ CheckSample \/ Dispatch \/ Sample \/ Engine
           \/ EngineFails \/ EngineDone \/ OpenFails
  BY <1>3, OtherMerge
<1>4. CASE CheckRead BY <1>4, CheckReadMerge
<1>5. CASE Open BY <1>5, OpenMerge
<1>6. CASE NextInto BY <1>6, NextIntoMerge
<1>7. CASE Pull BY <1>7, PullMerge
<1>8. CASE PullEof BY <1>8, PullEofMerge
<1>9. CASE PullFails BY <1>9, PullFailsMerge
<1>10. CASE Pop BY <1>10, PopMerge
<1>11. CASE Eof BY <1>11, EofMerge
<1>12. CASE Over \/ UNCHANGED vars BY <1>12, SameMerge DEF Over
<1> QED BY <1>1, <1>2, <1>3, <1>4, <1>5, <1>6, <1>7, <1>8, <1>9, <1>10, <1>11, <1>12 DEF Next
-----------------------------------------------------------------------------
(* Whatever the calls before, and whatever fails: what is merged is known. *)
THEOREM MergeInvariant == Spec => [](Inv /\ MergeKnown)
<1>1. Init => Inv BY SessionsAssumption, InitInv
<1>2. Init /\ Inv => MergeKnown BY SessionsAssumption, InitMerge
<1>3. Inv /\ [Next]_vars => Inv' BY NextInv
<1>4. Inv /\ Inv' /\ MergeKnown /\ [Next]_vars => MergeKnown' BY MergeNext
<1> QED BY <1>1, <1>2, <1>3, <1>4, PTL DEF Spec
-----------------------------------------------------------------------------
LEMMA ExpectedKnown ==
  ASSUME DiskKnown, NEW i \in 1 .. N, NEW g \in DOMAIN Groups(i), NEW id \in Groups(i)[g].ids
  PROVE  Len(Expected(i, g, id)) \in Nat /\ DOMAIN Expected(i, g, id) = 1 .. Len(Expected(i, g, id))
<1> DEFINE w == Written(i, g)
           S == {k \in DOMAIN w : w[k].id = id}
           mine == Picked(w, S)
           name == Exposed(i, id)
           e == [k \in DOMAIN mine |-> [name |-> name, ts |-> mine[k].ts, n |-> mine[k].n, sub |-> i]]
<1>1. w \in Seq(Message) BY WrittenKnown
<1>2. S \subseteq DOMAIN w OBVIOUS
<1>3. Expected(i, g, id) = IF call.topics # {} /\ name \notin call.topics THEN <<>> ELSE e BY DEF Expected
<1> HIDE DEF w, S, name
<1>4. mine \in Seq(Message) BY <1>1, <1>2, PickedFacts
<1> HIDE DEF mine
<1>5. DOMAIN mine = 1 .. Len(mine) /\ Len(mine) \in Nat BY <1>4
<1>6. DOMAIN e = 1 .. Len(mine) /\ Len(e) = Len(mine) BY <1>5
<1> HIDE DEF e
<1>7. CASE Expected(i, g, id) = e BY <1>5, <1>6, <1>7
<1>8. CASE Expected(i, g, id) = <<>> BY <1>8
<1> QED BY <1>3, <1>7, <1>8

(* At io.EOF nothing is left. *)
LEMMA EofEmpty ==
  ASSUME Inv, MergeKnown, result = "eof", failures = 0
  PROVE  /\ DOMAIN heap = {} /\ popped = NoEntry /\ Len(subs) = N /\ DOMAIN subs = 1 .. N
         /\ \A i \in DOMAIN subs : \A g \in DOMAIN subs[i] : subs[i][g] = <<>>
<1>1. /\ N \in Nat /\ subs \in Seq(Seq(Seq(Sent))) BY DEF Inv, Types, MergeKnown, MergeInv, MergeTypes
<1>2. heap = <<>> /\ popped = NoEntry /\ pulling = 0 /\ loaded /\ Len(subs) = N
  BY DEF MergeKnown, MergeInv, MergePhase, Fresh
<1>3. DOMAIN heap = {} BY <1>2
<1>4. DOMAIN subs = 1 .. N
  <2> DEFINE Lists == Seq(Seq(Sent))
  <2>1. subs \in Seq(Lists) BY <1>1
  <2> HIDE DEF Lists
  <2> QED BY <1>2, <2>1
<1>5. \A i \in DOMAIN subs : Served(i) BY <1>1, <1>2, <1>4 DEF Served
<1> QED BY <1>2, <1>3, <1>4, <1>5 DEF MergeKnown, MergeInv, MergeRoom

LEMMA ConcatBegins == ASSUME NEW f \in Seq(Given), NEW rest \in Seq(Given) PROVE Begins(f, f \o rest)
<1>1. /\ Len(f) \in Nat /\ Len(rest) \in Nat /\ DOMAIN f = 1 .. Len(f)
      /\ Len(f \o rest) = Len(f) + Len(rest)
      /\ \A k \in 1 .. Len(f) : (f \o rest)[k] = f[k]
  OBVIOUS
<1>2. Len(f) <= Len(f \o rest) BY <1>1
<1> QED BY <1>1, <1>2 DEF Begins

LEMMA GivenBegins ==
  ASSUME Inv, MergeKnown, failures = 0, NEW i \in 1 .. N, ~PassesThrough(i), NEW g \in DOMAIN Groups(i),
         NEW id \in Groups(i)[g].ids
  PROVE  /\ Begins(FromSub(i, Exposed(i, id)), Expected(i, g, id))
         /\ result = "eof" => FromSub(i, Exposed(i, id)) = Expected(i, g, id)
<1> DEFINE name == Exposed(i, id)
           f == FromSub(i, name)
           x == Expected(i, g, id)
           p == Popping(popped, i, name)
           w == Waiting(i, g, name)
<1>1. CASE i \in DOMAIN subs
  <2>1. x = Piped(i, g, name) BY <1>1 DEF MergeKnown, MergeInv, MergePipe
  <2>2. x = (f \o p) \o w /\ f \in Seq(Given) /\ p \in Seq(Given) /\ w \in Seq(Given)
    BY <1>1, <2>1, PipedParts
  <2>3. Begins(f, x)
    <3> HIDE DEF f, x, p, w
    <3>1. x = f \o (p \o w) BY <2>2, ConcatAssociative
    <3>2. p \o w \in Seq(Given) BY <2>2
    <3> QED BY <2>2, <3>1, <3>2, ConcatBegins
  <2>4. ASSUME result = "eof" PROVE f = x
    <3>1. DOMAIN heap = {} /\ popped = NoEntry /\ DOMAIN subs[i] = DOMAIN Groups(i) /\ subs[i][g] = <<>>
      <4>1. DOMAIN subs[i] = DOMAIN Groups(i) BY <1>1 DEF MergeKnown, MergeInv, MergeTypes, AreLists
      <4> QED BY <1>1, <2>4, <4>1, EofEmpty
    <3>2. p = <<>>
      <4>1. i # 0 /\ popped.entry.sub = 0
        <5>1. N \in Nat BY DEF Inv, Types
        <5> QED BY <3>1, <5>1 DEF NoEntry
      <4> QED BY <4>1 DEF Popping
    <3>3. Queued(heap, bufs[i], i, name) = <<>> BY <3>1, QueuedNone
    <3>4. Left(subs[i][g], i, name) = <<>> BY <3>1, LeftEmpty
    <3>5. w = <<>> \o <<>> BY <3>3, <3>4 DEF Waiting
    <3>6. <<>> \o <<>> = <<>> OBVIOUS
    <3> HIDE DEF f, x, p, w
    <3>7. x = (f \o <<>>) \o <<>> BY <2>2, <3>2, <3>5, <3>6
    <3>8. f \o <<>> = f BY <2>2, ConcatEmptySeq
    <3> QED BY <3>7, <3>8
  <2> QED BY <2>3, <2>4
<1>2. CASE i \notin DOMAIN subs
  <2>1. Len(subs) # N
    <3> DEFINE Lists == Seq(Seq(Sent))
    <3>1. subs \in Seq(Lists) BY DEF MergeKnown, MergeInv, MergeTypes
    <3> HIDE DEF Lists
    <3> QED BY <1>2, <3>1
  <2>2. delivered = <<>> /\ result = "none" BY <2>1 DEF MergeKnown, MergeInv, MergePhase, Fresh
  <2>3. DOMAIN delivered = {} BY <2>2
  <2>4. f = <<>>
    <3>1. {k \in DOMAIN delivered : delivered[k].sub = i /\ delivered[k].name = name} = {} BY <2>3
    <3> QED BY <3>1, Nothing DEF FromSub
  <2>5. Len(x) \in Nat BY ExpectedKnown DEF MergeKnown
  <2> HIDE DEF f, x
  <2>6. Begins(f, x) BY <2>4, <2>5 DEF Begins
  <2> QED BY <2>2, <2>6 DEF f, x, name
<1> QED BY <1>1, <1>2

(* For every number of files, each with any groups, chunks and remap: the  *)
(* merged stream is in time order, and as long as nothing failed it begins *)
(* like what is asked for, and is all of it at io.EOF.                     *)
THEOREM StreamsMerge == Spec => []MergedInOrder
<1>1. ASSUME Inv, MergeKnown PROVE MergedInOrder
  <2>1. ASSUME NEW k \in 1 .. Len(delivered) - 1
        PROVE  Key(delivered[k].ts) <= Key(delivered[k + 1].ts)
    <3>1. delivered \in Seq(Given) BY <1>1 DEF MergeKnown, MergeInv, MergeTypes
    <3>2. DOMAIN delivered = 1 .. Len(delivered) /\ Len(delivered) \in Nat BY <3>1
    <3>3. k \in DOMAIN delivered /\ k + 1 \in DOMAIN delivered /\ k < k + 1 BY <2>1, <3>2
    <3> QED BY <1>1, <3>3 DEF MergeKnown, MergeInv, MergeTimes
  <2>2. failures = 0 => \A i \in 1 .. N : ~PassesThrough(i) =>
          \A g \in DOMAIN Groups(i) : \A id \in Groups(i)[g].ids :
            /\ Begins(FromSub(i, Exposed(i, id)), Expected(i, g, id))
            /\ result = "eof" => FromSub(i, Exposed(i, id)) = Expected(i, g, id)
    BY <1>1, GivenBegins
  <2> QED BY <2>1, <2>2 DEF MergedInOrder
<1> QED BY <1>1, MergeInvariant, PTL
-----------------------------------------------------------------------------
LEMMA BoundsHold ==
  ASSUME DiskKnown, NEW r \in 1 .. N, Clean(r), NEW g \in DOMAIN Groups(r), Groups(r)[g].chunks # <<>>,
         NEW id \in Groups(r)[g].ids
  PROVE  LET name == Exposed(r, id)
             b == Bounds(r)[name]
             cs == Groups(r)[g].chunks
         IN  /\ name \in DOMAIN Bounds(r) /\ b.video = Groups(r)[g].video
             /\ b.min \in Int /\ b.max \in Int
             /\ \A c \in DOMAIN cs : b.min <= cs[c].start /\ cs[c].end <= b.max
<1> DEFINE name == Exposed(r, id)
           b == Bounds(r)[name]
           cs == Groups(r)[g].chunks
           written == {h \in DOMAIN Groups(r) : Groups(r)[h].chunks # <<>>}
           Of(x) == CHOOSE h \in written : \E n \in Groups(r)[h].ids : Exposed(r, n) = x
           Starting == {c.start : c \in ToSet(cs)}
           Ending == {c.end : c \in ToSet(cs)}
<1>1. Of(name) = g
  <2>1. g \in written /\ \E n \in Groups(r)[g].ids : Exposed(r, n) = name OBVIOUS
  <2>2. ASSUME NEW h \in written, \E n \in Groups(r)[h].ids : Exposed(r, n) = name PROVE h = g
    <3>1. PICK n \in Groups(r)[h].ids : Exposed(r, n) = name BY <2>2
    <3>2. id \in Names(r) /\ n \in Names(r) BY DEF Names
    <3>3. n = id BY <3>1, <3>2 DEF Clean
    <3>4. Chronological(Groups(r)) BY DEF DiskKnown
    <3>5. g # h => Groups(r)[g].ids \cap Groups(r)[h].ids = {} BY <3>4 DEF Chronological
    <3> QED BY <3>1, <3>3, <3>5
  <2> QED BY <2>1, <2>2
<1>2. /\ name \in DOMAIN Bounds(r)
      /\ b = [video |-> Groups(r)[g].video, min |-> Min(Starting), max |-> Max(Ending)]
  <2>1. id \in UNION {Groups(r)[h].ids : h \in written} OBVIOUS
  <2>2. Bounds(r) = [x \in {Exposed(r, n) : n \in UNION {Groups(r)[h].ids : h \in written}} |->
                       [video |-> Groups(r)[Of(x)].video,
                        min |-> Min({c.start : c \in ToSet(Groups(r)[Of(x)].chunks)}),
                        max |-> Max({c.end : c \in ToSet(Groups(r)[Of(x)].chunks)})]]
    BY DEF Bounds
  <2>3. name \in {Exposed(r, n) : n \in UNION {Groups(r)[h].ids : h \in written}} BY <2>1
  <2> HIDE DEF Of, written, name
  <2> QED BY <1>1, <2>2, <2>3
<1>3. /\ cs \in Seq(Chunk)
      /\ \A c \in DOMAIN cs : cs[c].start \in Int /\ cs[c].end \in Int /\ cs[c].start <= cs[c].end
      /\ \A c, d \in DOMAIN cs : c < d => cs[c].end <= cs[d].start
  BY GroupKnown
<1>4. cs # <<>> OBVIOUS
<1> HIDE DEF cs
<1>5. DOMAIN cs = 1 .. Len(cs) /\ Len(cs) \in Nat /\ Len(cs) # 0 BY <1>3, <1>4
<1>6. 1 \in DOMAIN cs /\ Len(cs) \in DOMAIN cs BY <1>5
<1>7. /\ \A x \in Starting : \E c \in DOMAIN cs : x = cs[c].start
      /\ \A x \in Ending : \E c \in DOMAIN cs : x = cs[c].end
      /\ \A c \in DOMAIN cs : cs[c].start \in Starting /\ cs[c].end \in Ending
  BY DEF ToSet
<1>8. \A c \in DOMAIN cs : cs[1].start <= cs[c].start
  <2> SUFFICES ASSUME NEW c \in DOMAIN cs, c # 1 PROVE cs[1].start <= cs[c].start BY <1>3, <1>6
  <2>1. 1 < c BY <1>5
  <2>2. cs[1].end <= cs[c].start BY <1>3, <1>6, <2>1
  <2> QED BY <1>3, <1>6, <2>2
<1>9. \A c \in DOMAIN cs : cs[c].end <= cs[Len(cs)].end
  <2> SUFFICES ASSUME NEW c \in DOMAIN cs, c # Len(cs) PROVE cs[c].end <= cs[Len(cs)].end BY <1>3, <1>6
  <2>1. c < Len(cs) BY <1>5
  <2>2. cs[c].end <= cs[Len(cs)].start BY <1>3, <1>6, <2>1
  <2> QED BY <1>3, <1>6, <2>2
<1> HIDE DEF Starting, Ending
<1>10. Min(Starting) \in Starting /\ \A x \in Starting : Min(Starting) <= x
  <2>1. cs[1].start \in Starting /\ \A x \in Starting : cs[1].start <= x BY <1>6, <1>7, <1>8
  <2> QED BY <2>1 DEF Min
<1>11. Max(Ending) \in Ending /\ \A x \in Ending : Max(Ending) >= x
  <2>1. cs[Len(cs)].end \in Ending /\ \A x \in Ending : cs[Len(cs)].end >= x BY <1>3, <1>6, <1>7, <1>9
  <2> QED BY <2>1 DEF Max
<1>12. Min(Starting) \in Int /\ Max(Ending) \in Int BY <1>3, <1>7, <1>10, <1>11
<1>13. \A c \in DOMAIN cs : Min(Starting) <= cs[c].start /\ cs[c].end <= Max(Ending)
  BY <1>3, <1>7, <1>10, <1>11, <1>12
<1>14. b.video = Groups(r)[g].video /\ b.min = Min(Starting) /\ b.max = Max(Ending) BY <1>2
<1> HIDE DEF b, name
<1> QED BY <1>2, <1>12, <1>13, <1>14 DEF b, name, cs

(* The messages of a name are within its bounds. *)
LEMMA FileHolds ==
  ASSUME DiskKnown, NEW r \in 1 .. N, Clean(r), NEW name, NEW ts \in Int, OfFile(r, name, ts)
  PROVE  /\ name \in DOMAIN Bounds(r)
         /\ Bounds(r)[name].min \in Int /\ Bounds(r)[name].max \in Int
         /\ Bounds(r)[name].min <= ts /\ ts <= Bounds(r)[name].max
<1>1. PICK g \in DOMAIN Groups(r) : OfGroup(r, g, name, ts) BY DEF OfFile
<1> DEFINE cs == Groups(r)[g].chunks
<1>2. PICK id \in Groups(r)[g].ids : Exposed(r, id) = name BY <1>1 DEF OfGroup
<1>3. PICK c \in DOMAIN cs : cs[c].start <= ts /\ ts <= cs[c].end BY <1>1 DEF OfGroup
<1>4. cs[c].start \in Int /\ cs[c].end \in Int BY GroupKnown
<1>5. cs # <<>> BY <1>3
<1>6. /\ name \in DOMAIN Bounds(r)
      /\ Bounds(r)[name].min \in Int /\ Bounds(r)[name].max \in Int
      /\ Bounds(r)[name].min <= cs[c].start /\ cs[c].end <= Bounds(r)[name].max
  BY <1>2, <1>5, BoundsHold
<1> HIDE DEF cs
<1> QED BY <1>3, <1>4, <1>6

(* The check of the ranges is enough: under a name that the call covers    *)
(* and that is a video's in one of the files, the files come one after the *)
(* other, also after a failure and in reverse.                             *)
THEOREM VideosApart == Spec => []VideoNotInterleaved
<1>1. ASSUME Inv, MergeKnown PROVE VideoNotInterleaved
  <2> SUFFICES ASSUME call.videoDecodable,
                      NEW i \in DOMAIN delivered, NEW j \in DOMAIN delivered, NEW k \in DOMAIN delivered,
                      i < j, j < k,
                      delivered[i].name = delivered[j].name, delivered[j].name = delivered[k].name,
                      delivered[i].sub = delivered[k].sub,
                      VideoInScope(delivered[i].name),
                      delivered[j].sub # delivered[i].sub
               PROVE  FALSE
    BY DEF VideoNotInterleaved
  <2> DEFINE name == delivered[i].name
             r == delivered[i].sub
             s == delivered[j].sub
             a == delivered[i].ts
             b == delivered[j].ts
             c == delivered[k].ts
  <2>1. DiskKnown /\ delivered \in Seq(Given) BY <1>1 DEF MergeKnown, MergeInv, MergeTypes
  <2>2. delivered[i] \in Given /\ delivered[j] \in Given /\ delivered[k] \in Given BY <2>1
  <2>3. r \in 1 .. N /\ s \in 1 .. N /\ a \in Int /\ b \in Int /\ c \in Int BY <2>2 DEF Given
  <2>4. AllClean /\ ~VideosOverlap(ReadScope)
    <3>1. delivered # <<>> BY <2>1
    <3> QED BY <1>1, <3>1 DEF MergeKnown, MergeInv, MergeScope
  <2>5. OfFile(r, name, a) /\ OfFile(s, name, b) /\ OfFile(r, name, c)
    BY <1>1 DEF MergeKnown, MergeInv, MergeTypes
  <2>6. Key(a) <= Key(b) /\ Key(b) <= Key(c)
    BY <1>1 DEF MergeKnown, MergeInv, MergeTimes
  <2>7. PICK v \in 1 .. N : \E g \in DOMAIN Groups(v) :
          /\ Groups(v)[g].video /\ Groups(v)[g].chunks # <<>>
          /\ \E id \in Groups(v)[g].ids : Exposed(v, id) = name
    BY DEF VideoInScope
  <2>8. name \in ReadScope BY DEF VideoInScope
  <2> HIDE DEF name, r, s, a, b, c
  <2>9. Clean(r) /\ Clean(s) /\ Clean(v) BY <2>3, <2>4 DEF AllClean
  <2> DEFINE p == Bounds(r)[name]
             q == Bounds(s)[name]
  <2>10. /\ name \in DOMAIN Bounds(r) /\ name \in DOMAIN Bounds(s)
         /\ p.min \in Int /\ p.max \in Int /\ q.min \in Int /\ q.max \in Int
         /\ p.min <= a /\ a <= p.max /\ p.min <= c /\ c <= p.max /\ q.min <= b /\ b <= q.max
    BY <2>1, <2>3, <2>5, <2>9, FileHolds
  <2>11. name \in DOMAIN Bounds(v) /\ Bounds(v)[name].video
    <3>1. PICK g \in DOMAIN Groups(v) :
            /\ Groups(v)[g].video /\ Groups(v)[g].chunks # <<>>
            /\ \E id \in Groups(v)[g].ids : Exposed(v, id) = name
      BY <2>7
    <3>2. PICK id \in Groups(v)[g].ids : Exposed(v, id) = name BY <3>1
    <3> QED BY <2>1, <2>9, <3>1, <3>2, BoundsHold
  <2>12. Overlap(p, q)
    <3>1. (a <= b /\ b <= c) \/ (c <= b /\ b <= a)
      <4>1. CASE call.reverse
        <5>1. -a <= -b /\ -b <= -c BY <2>6, <4>1 DEF Key
        <5> QED BY <2>3, <5>1
      <4>2. CASE ~call.reverse BY <2>6, <4>2 DEF Key
      <4> QED BY <4>1, <4>2
    <3> HIDE DEF p, q
    <3>2. p.min <= q.max /\ q.min <= p.max BY <2>3, <2>10, <3>1
    <3> QED BY <3>2 DEF Overlap
  <2>13. r # s BY DEF r, s
  <2>14. VideosOverlap(ReadScope) BY <2>3, <2>8, <2>10, <2>11, <2>12, <2>13 DEF VideosOverlap
  <2> QED BY <2>4, <2>14
<1> QED BY <1>1, MergeInvariant, PTL

-----------------------------------------------------------------------------
(* What is known of the files besides, and of the call. *)
DiskLaidOut ==
  \A r \in 1 .. N : Sampleable(Groups(r)) /\ disk[r].summaryLen \in Nat \ {0}

(* A Reader whose bounds are cached has its summary, and its names were    *)
(* found to be good; and the Readers that a call has passed have bounds.   *)
BoundedKnown(rs) ==
  \A r \in 1 .. N : rs[r].bounded => rs[r].summary # NoSummary /\ rs[r].rename = "ok"
CallsKnown ==
  /\ call.queries \in Seq([topic : Nat, ts : Seq(Int)])
  /\ step \in {"size", "tail", "rest", "ready", "failed", "panic"}
  /\ status \in {"none", "ok", "refused", "overlap", "error"}
  /\ at \in 1 .. N + 1 /\ (at > N => phase \in {"dispatch", "idle"})
  /\ BoundedKnown(readers)
  /\ phase \in Loads /\ step = "ready" => readers[at].summary # NoSummary
  /\ phase = "bounds" => \A r \in 1 .. N : r < at => readers[r].bounded
  /\ phase \in {"check", "dispatch", "engine", "sample"} /\ call.op # "sample" =>
       \A r \in 1 .. N : readers[r].bounded

(* Outside of the engine its variables are those of a call that is over.   *)
EngineKnown ==
  /\ PhaseAInv
  /\ stage \in {"start", "wave", "index", "walk", "data", "done", "failed"}
  /\ phase # "engine" => stage \in {"start", "done", "failed"}

CallInv == DiskLaidOut /\ CallsKnown /\ EngineKnown

-----------------------------------------------------------------------------
(* What a step makes of the Readers: no summary and no bounds are dropped. *)
Grows(rs) ==
  /\ \A r \in 1 .. N : /\ readers[r].summary # NoSummary => rs[r].summary # NoSummary
                       /\ readers[r].bounded => rs[r].bounded
  /\ BoundedKnown(rs)

LEMMA KeptGrows == ASSUME CallsKnown PROVE Grows(readers)
BY DEF CallsKnown, Grows

LEMMA RenamedGrows ==
  ASSUME Inv, CallsKnown, NEW r \in 1 .. N
  PROVE  /\ Grows(Renamed(r)) /\ Grows(AfterRename(r))
         /\ Renamed(r) \in [1 .. N -> ReaderType]
         /\ Renamed(r)[r].summary = readers[r].summary
         /\ Renamed(r)[r].rename = IF RenameFails(r) THEN "clash" ELSE "ok"
         /\ \A q \in 1 .. N : Renamed(r)[q].bounded = readers[q].bounded
<1> DEFINE answer == IF RenameFails(r) THEN "clash" ELSE "ok"
           y == [readers[r] EXCEPT !.rename = answer]
           rs == [readers EXCEPT ![r] = y]
<1>1. /\ readers \in [1 .. N -> ReaderType] /\ readers[r] \in ReaderType
      /\ BoundedKnown(readers)
  BY DEF Inv, Types, CallsKnown
<1>2. Renamed(r) = rs BY DEF Renamed
<1>3. readers[r].rename = "ok" => answer = "ok" BY DEF RenameFails
<1>4. answer \in {"none", "ok", "clash"} OBVIOUS
<1>5. answer = IF RenameFails(r) THEN "clash" ELSE "ok" OBVIOUS
<1> HIDE DEF answer
<1>6. /\ y \in ReaderType /\ y.summary = readers[r].summary /\ y.rename = answer
      /\ y.bounded = readers[r].bounded
  BY <1>1, <1>4 DEF ReaderType
<1> HIDE DEF y
<1>7. rs \in [1 .. N -> ReaderType] /\ \A q \in 1 .. N : rs[q] = IF q = r THEN y ELSE readers[q]
  BY <1>1, <1>6
<1> HIDE DEF rs
<1>8. Grows(rs)
  <2> SUFFICES ASSUME NEW q \in 1 .. N
               PROVE  /\ readers[q].summary # NoSummary => rs[q].summary # NoSummary
                      /\ readers[q].bounded => rs[q].bounded
                      /\ rs[q].bounded => rs[q].summary # NoSummary /\ rs[q].rename = "ok"
    BY DEF Grows, BoundedKnown
  <2>1. CASE q = r BY <1>1, <1>3, <1>6, <1>7, <2>1 DEF BoundedKnown
  <2>2. CASE q # r BY <1>1, <1>7, <2>2 DEF BoundedKnown
  <2> QED BY <2>1, <2>2
<1>9. \A q \in 1 .. N : rs[q].bounded = readers[q].bounded BY <1>6, <1>7
<1>10. rs[r].summary = readers[r].summary /\ rs[r].rename = answer BY <1>6, <1>7
<1> QED BY <1>2, <1>5, <1>7, <1>8, <1>9, <1>10, KeptGrows DEF AfterRename

LEMMA BoundsGrow ==
  ASSUME Inv, CallsKnown, NEW r \in 1 .. N, readers[r].summary # NoSummary,
         readers' = IF readers[r].bounded THEN readers
                    ELSE [Renamed(r) EXCEPT ![r].bounded = ~RenameFails(r)]
  PROVE  Grows(readers') /\ (readers[r].bounded \/ ~RenameFails(r) => readers'[r].bounded)
<1>1. CASE readers[r].bounded BY <1>1, KeptGrows
<1>2. CASE ~readers[r].bounded
  <2> DEFINE rs == Renamed(r)
             answer == ~RenameFails(r)
             y == [rs[r] EXCEPT !.bounded = answer]
  <2>1. /\ Grows(rs) /\ rs \in [1 .. N -> ReaderType] /\ rs[r] \in ReaderType
        /\ rs[r].rename = IF RenameFails(r) THEN "clash" ELSE "ok"
    BY RenamedGrows
  <2>2. readers' = [rs EXCEPT ![r] = y] BY <1>2
  <2>3. answer \in BOOLEAN /\ (answer => rs[r].rename = "ok") /\ (answer <=> ~RenameFails(r))
    BY <2>1 DEF RenameFails
  <2> HIDE DEF rs, answer
  <2>4. y.summary = rs[r].summary /\ y.rename = rs[r].rename /\ (y.bounded <=> answer)
    BY <2>1, <2>3 DEF ReaderType
  <2> HIDE DEF y
  <2>5. \A q \in 1 .. N : readers'[q] = IF q = r THEN y ELSE rs[q] BY <2>1, <2>2
  <2>6. readers[r].summary # NoSummary => rs[r].summary # NoSummary BY <2>1 DEF Grows
  <2>7. Grows(readers')
    <3> SUFFICES ASSUME NEW q \in 1 .. N
                 PROVE  /\ readers[q].summary # NoSummary => readers'[q].summary # NoSummary
                        /\ readers[q].bounded => readers'[q].bounded
                        /\ readers'[q].bounded => readers'[q].summary # NoSummary /\ readers'[q].rename = "ok"
      BY DEF Grows, BoundedKnown
    <3>1. CASE q = r BY <1>2, <2>3, <2>4, <2>5, <2>6, <3>1
    <3>2. CASE q # r BY <2>1, <2>5, <3>2 DEF Grows, BoundedKnown
    <3> QED BY <3>1, <3>2
  <2>8. ~RenameFails(r) => readers'[r].bounded BY <2>3, <2>4, <2>5
  <2> QED BY <1>2, <2>7, <2>8
<1> QED BY <1>1, <1>2

(* Every step but those that start a call or load a summary. *)
LEMMA CallsStep ==
  ASSUME Inv, CallsKnown, disk' = disk, call' = call, Grows(readers'),
         \/ phase' \in Loads /\ at' \in 1 .. N /\ step' = StepFor(at')
         \/ phase' \notin Loads /\ step' = "ready",
         status' \in {"none", "ok", "refused", "overlap", "error"},
         at' \in 1 .. N + 1, at' > N => phase' \in {"dispatch", "idle"},
         phase' = "bounds" => \A r \in 1 .. N : r < at' => readers'[r].bounded,
         phase' \in {"check", "dispatch", "engine", "sample"} /\ call.op # "sample" =>
           \A r \in 1 .. N : readers'[r].bounded
  PROVE  CallsKnown'
<1>1. N' = N BY DEF N
<1>2. step' \in {"size", "tail", "rest", "ready", "failed", "panic"} BY DEF StepFor
<1>3. BoundedKnown(readers)' BY <1>1 DEF Grows, BoundedKnown
<1>4. phase' \in Loads /\ step' = "ready" => readers'[at'].summary # NoSummary
  <2> SUFFICES ASSUME phase' \in Loads, step' = "ready" PROVE readers'[at'].summary # NoSummary OBVIOUS
  <2>1. at' \in 1 .. N /\ readers[at'].summary # NoSummary BY DEF StepFor
  <2> QED BY <2>1 DEF Grows
<1> QED BY <1>1, <1>2, <1>3, <1>4 DEF CallsKnown, NoSummary

(* A call that is over. *)
LEMMA CallsReturn ==
  ASSUME Inv, CallsKnown, disk' = disk, call' = call, Grows(readers'), step = "ready",
         NEW s \in {"none", "ok", "refused", "overlap", "error"}, Return(s)
  PROVE  CallsKnown'
<1>1. phase' = "idle" /\ status' = s /\ at' = at /\ step' = step BY ReturnStep
<1>2. at' \in 1 .. N + 1 BY <1>1 DEF CallsKnown
<1> QED BY <1>1, <1>2, CallsStep DEF Loads

LEMMA CallStartsCalls == ASSUME Inv, CallsKnown, CallStarts PROVE CallsKnown'
<1>1. /\ script # <<>> /\ call' = Head(script) /\ status' = "none" /\ UNCHANGED <<disk, readers>>
      /\ GoTo(FirstPhase(call'), IF call'.op \in {"summary", "sample"} THEN call'.reader ELSE 1)
  BY DEF CallStarts
<1>2. call' \in Call /\ call'.reader \in 1 .. N /\ N \in Nat \ {0}
  BY <1>1, InvFacts
<1>3. call'.op \in Ops /\ call'.queries \in Seq([topic : Nat, ts : Seq(Int)]) BY <1>2 DEF Call
<1>4. /\ phase' = FirstPhase(call') /\ step' = StepFor(at')
      /\ at' = IF call'.op \in {"summary", "sample"} THEN call'.reader ELSE 1
  BY <1>1, GoToStep
<1>5. phase' = CASE call'.op = "multiSample" -> "bounds" [] call'.op = "read" -> "open" [] OTHER -> call'.op
  BY <1>4 DEF FirstPhase
<1>6. \/ call'.op = "multiSample" /\ phase' = "bounds" /\ at' = 1
      \/ call'.op = "read" /\ phase' = "open" /\ at' = 1
      \/ call'.op \in {"summary", "sample"} /\ phase' = call'.op /\ at' = call'.reader
  BY <1>3, <1>4, <1>5 DEF Ops
<1>7. N' = N /\ at' \in 1 .. N /\ (BoundedKnown(readers)' <=> BoundedKnown(readers))
  BY <1>1, <1>2, <1>6 DEF N, BoundedKnown
<1>8. step' \in {"size", "tail", "ready"} /\ (step' = "ready" => readers'[at'].summary # NoSummary)
  BY <1>1, <1>4 DEF StepFor
<1>9. phase' = "bounds" => \A r \in 1 .. N : ~(r < at') BY <1>6
<1>10. phase' \in {"check", "dispatch", "engine", "sample"} => call'.op = "sample" BY <1>6
<1>11. at' \in 1 .. N + 1 /\ ~(at' > N) BY <1>2, <1>7
<1>12. BoundedKnown(readers)' BY <1>7 DEF CallsKnown
<1> QED BY <1>1, <1>3, <1>7, <1>8, <1>9, <1>10, <1>11, <1>12 DEF CallsKnown, NoSummary

(* summaryWithHint keeps the bounds and answers; a summary that it decodes *)
(* has bytes.                                                              *)
LEMMA LoadingCalls == ASSUME Inv, DiskLaidOut, CallsKnown, Loading PROVE CallsKnown'
<1> DEFINE hint == IF phase \in {"sample", "open"} THEN call.prefetch ELSE 0
           len == disk[at].summaryLen
<1>1. /\ phase \in Loads /\ LoadSummary(at, hint) /\ UNCHANGED callVars
  BY DEF Loading, Loads
<1>2. /\ at \in 1 .. N /\ disk' = disk /\ call' = call /\ phase' = phase /\ at' = at /\ status' = status
      /\ readers \in [1 .. N -> ReaderType] /\ readers[at] \in ReaderType
      /\ len \in Nat \ {0}
  BY <1>1, InvFacts DEF LoadSummary, callVars, Types, DiskLaidOut
<1>3. N' = N BY <1>2 DEF N
<1>4. \/ UNCHANGED readers /\ step' \in {"tail", "rest", "failed", "panic"}
      \/ /\ readers' = [readers EXCEPT ![at].size = disk[at].size] /\ step' = "tail"
      \/ /\ \E from : readers' = [readers EXCEPT ![at].summary = [from |-> from, len |-> len]]
         /\ step' = "ready"
  <2> HIDE DEF hint
  <2>1. CASE Seek(at) BY <2>1 DEF Seek
  <2>2. CASE ReadTail(at, hint) BY <2>2 DEF ReadTail, Decode
  <2>3. CASE ReadRest(at) BY <2>3 DEF ReadRest, Decode
  <2> QED BY <1>1, <2>1, <2>2, <2>3 DEF LoadSummary
<1>5. /\ \A r \in 1 .. N : readers'[r].rename = readers[r].rename /\ readers'[r].bounded = readers[r].bounded
      /\ \A r \in 1 .. N : readers[r].summary # NoSummary => readers'[r].summary # NoSummary
      /\ step' = "ready" => readers'[at].summary # NoSummary
  <2> HIDE DEF len
  <2>1. CASE UNCHANGED readers /\ step' \in {"tail", "rest", "failed", "panic"} BY <2>1
  <2>2. CASE readers' = [readers EXCEPT ![at].size = disk[at].size] /\ step' = "tail"
    <3> DEFINE y == [readers[at] EXCEPT !.size = disk[at].size]
    <3>1. readers' = [readers EXCEPT ![at] = y] BY <2>2
    <3>2. y.summary = readers[at].summary /\ y.rename = readers[at].rename /\ y.bounded = readers[at].bounded
      BY <1>2 DEF ReaderType
    <3> HIDE DEF y
    <3>3. \A r \in 1 .. N : readers'[r] = IF r = at THEN y ELSE readers[r] BY <1>2, <3>1
    <3> QED BY <2>2, <3>2, <3>3
  <2>3. CASE /\ \E from : readers' = [readers EXCEPT ![at].summary = [from |-> from, len |-> len]]
             /\ step' = "ready"
    <3>1. PICK from : readers' = [readers EXCEPT ![at].summary = [from |-> from, len |-> len]] BY <2>3
    <3> DEFINE kept == [from |-> from, len |-> len]
               y == [readers[at] EXCEPT !.summary = kept]
    <3>2. readers' = [readers EXCEPT ![at] = y] BY <3>1
    <3>3. kept # NoSummary
      <4>1. kept.len = len /\ NoSummary.len = 0 BY DEF NoSummary
      <4> HIDE DEF kept
      <4> QED BY <1>2, <4>1
    <3> HIDE DEF kept
    <3>4. y.summary = kept /\ y.rename = readers[at].rename /\ y.bounded = readers[at].bounded
      BY <1>2 DEF ReaderType
    <3> HIDE DEF y
    <3>5. \A r \in 1 .. N : readers'[r] = IF r = at THEN y ELSE readers[r] BY <1>2, <3>2
    <3> QED BY <1>2, <3>3, <3>4, <3>5
  <2> QED BY <1>4, <2>1, <2>2, <2>3
<1>6. BoundedKnown(readers)' BY <1>3, <1>5 DEF CallsKnown, BoundedKnown
<1>7. step' \in {"size", "tail", "rest", "ready", "failed", "panic"} BY <1>4
<1> HIDE DEF hint, len
<1> QED BY <1>2, <1>3, <1>5, <1>6, <1>7 DEF CallsKnown, NoSummary

LEMMA BoundsOfCalls == ASSUME Inv, CallsKnown, BoundsOf PROVE CallsKnown'
<1> DEFINE fails == ~readers[at].bounded /\ RenameFails(at)
<1>1. /\ phase = "bounds" /\ step = "ready" /\ disk' = disk /\ call' = call
      /\ readers' = IF readers[at].bounded THEN readers
                    ELSE [Renamed(at) EXCEPT ![at].bounded = ~RenameFails(at)]
      /\ IF fails THEN Return("refused")
         ELSE IF at < N THEN GoTo("bounds", at + 1) /\ UNCHANGED status
         ELSE phase' = "check" /\ UNCHANGED <<at, step, status>>
  BY DEF BoundsOf
<1>2. at \in 1 .. N /\ N \in Nat BY <1>1, InvFacts DEF Loads
<1>3. readers[at].summary # NoSummary /\ \A r \in 1 .. N : r < at => readers[r].bounded
  BY <1>1 DEF CallsKnown, Loads
<1>4. Grows(readers') /\ (~fails => readers'[at].bounded) BY <1>1, <1>2, <1>3, BoundsGrow
<1>5. ~fails => \A r \in 1 .. N : r <= at => readers'[r].bounded
  <2> SUFFICES ASSUME ~fails, NEW r \in 1 .. N, r <= at PROVE readers'[r].bounded OBVIOUS
  <2>1. CASE r = at BY <1>4, <2>1
  <2>2. CASE r # at
    <3>1. r < at BY <1>2, <2>2
    <3> QED BY <1>3, <1>4, <3>1 DEF Grows
  <2> QED BY <2>1, <2>2
<1>6. status \in {"none", "ok", "refused", "overlap", "error"} BY DEF CallsKnown
<1>7. CASE fails BY <1>1, <1>4, <1>7, CallsReturn
<1>8. CASE ~fails /\ at < N
  <2>1. phase' = "bounds" /\ at' = at + 1 /\ step' = StepFor(at') /\ status' = status
    BY <1>1, <1>8, GoToStep
  <2>2. phase' \in Loads /\ at' \in 1 .. N /\ ~(at' > N) /\ at' \in 1 .. N + 1
    BY <1>2, <1>8, <2>1 DEF Loads
  <2>3. \A r \in 1 .. N : r < at' => readers'[r].bounded BY <1>2, <1>5, <1>8, <2>1
  <2> QED BY <1>1, <1>4, <1>6, <2>1, <2>2, <2>3, CallsStep
<1>9. CASE ~fails /\ ~(at < N)
  <2>1. phase' = "check" /\ at' = at /\ step' = "ready" /\ status' = status BY <1>1, <1>9
  <2>2. at' \in 1 .. N + 1 /\ ~(at' > N) /\ phase' \notin Loads BY <1>2, <2>1 DEF Loads
  <2>3. \A r \in 1 .. N : readers'[r].bounded BY <1>2, <1>5, <1>9
  <2> QED BY <1>1, <1>4, <1>6, <2>1, <2>2, <2>3, CallsStep
<1> QED BY <1>7, <1>8, <1>9

LEMMA SummaryCalls == ASSUME Inv, CallsKnown, Summary PROVE CallsKnown'
<1>1. /\ phase = "summary" /\ step = "ready" /\ readers' = AfterRename(at)
      /\ Return(IF RenameRefused(at) THEN "refused" ELSE "ok")
      /\ disk' = disk /\ call' = call
  BY DEF Summary
<1>2. at \in 1 .. N BY <1>1, InvFacts DEF Loads
<1>3. Grows(readers') BY <1>1, <1>2, RenamedGrows
<1>4. CASE RenameRefused(at) BY <1>1, <1>3, <1>4, CallsReturn
<1>5. CASE ~RenameRefused(at) BY <1>1, <1>3, <1>5, CallsReturn
<1> QED BY <1>4, <1>5

LEMMA OpenCalls == ASSUME Inv, CallsKnown, Open \/ OpenFails PROVE CallsKnown'
<1>1. /\ phase = "open" /\ step = "ready" /\ readers' = AfterRename(at) /\ disk' = disk /\ call' = call
      /\ \/ \E s \in {"refused", "error"} : Return(s)
         \/ /\ status' = status
            /\ \/ at < N /\ GoTo("open", at + 1)
               \/ GoTo("bounds", 1)
               \/ phase' = "stream" /\ UNCHANGED <<at, step>>
  BY DEF Open, OpenFails
<1>2. at \in 1 .. N /\ N \in Nat \ {0} BY <1>1, InvFacts DEF Loads
<1>3. Grows(readers') /\ status \in {"none", "ok", "refused", "overlap", "error"}
  BY <1>1, <1>2, RenamedGrows DEF CallsKnown
<1>4. CASE \E s \in {"refused", "error"} : Return(s)
  <2>1. PICK s \in {"refused", "error"} : Return(s) BY <1>4
  <2>2. s \in {"none", "ok", "refused", "overlap", "error"} OBVIOUS
  <2> QED BY <1>1, <1>3, <2>1, <2>2, CallsReturn
<1>5. CASE status' = status /\ at < N /\ GoTo("open", at + 1)
  <2>1. phase' = "open" /\ at' = at + 1 /\ step' = StepFor(at') BY <1>5, GoToStep
  <2>2. phase' \in Loads /\ at' \in 1 .. N /\ ~(at' > N) /\ at' \in 1 .. N + 1
    BY <1>2, <1>5, <2>1 DEF Loads
  <2> QED BY <1>1, <1>3, <1>5, <2>1, <2>2, CallsStep
<1>6. CASE status' = status /\ GoTo("bounds", 1)
  <2>1. phase' = "bounds" /\ at' = 1 /\ step' = StepFor(at') BY <1>6, GoToStep
  <2>2. phase' \in Loads /\ at' \in 1 .. N /\ ~(at' > N) /\ at' \in 1 .. N + 1
    BY <1>2, <2>1 DEF Loads
  <2>3. \A r \in 1 .. N : ~(r < at') BY <2>1
  <2> QED BY <1>1, <1>3, <1>6, <2>1, <2>2, <2>3, CallsStep
<1>7. CASE status' = status /\ phase' = "stream" /\ UNCHANGED <<at, step>>
  <2>1. phase' \notin Loads /\ at' \in 1 .. N + 1 /\ ~(at' > N) BY <1>2, <1>7 DEF Loads
  <2> QED BY <1>1, <1>3, <1>7, <2>1, CallsStep
<1> QED BY <1>1, <1>4, <1>5, <1>6, <1>7

LEMMA SampleCalls == ASSUME Inv, CallsKnown, Sample PROVE CallsKnown'
<1>1. /\ phase = "sample" /\ step = "ready" /\ readers' = AfterRename(at) /\ disk' = disk /\ call' = call
      /\ \/ Return("refused")
         \/ phase' = "engine" /\ UNCHANGED <<at, step, status>>
  BY DEF Sample
<1>2. at \in 1 .. N /\ N \in Nat BY <1>1, InvFacts DEF Loads
<1>3. Grows(readers') /\ status \in {"none", "ok", "refused", "overlap", "error"}
  BY <1>1, <1>2, RenamedGrows DEF CallsKnown
<1>4. CASE Return("refused") BY <1>1, <1>3, <1>4, CallsReturn
<1>5. CASE phase' = "engine" /\ UNCHANGED <<at, step, status>>
  <2>1. phase' \notin Loads /\ at' \in 1 .. N + 1 /\ ~(at' > N) BY <1>2, <1>5 DEF Loads
  <2>2. call.op # "sample" => \A r \in 1 .. N : readers[r].bounded BY <1>1 DEF CallsKnown
  <2>3. call.op # "sample" => \A r \in 1 .. N : readers'[r].bounded BY <1>3, <2>2 DEF Grows
  <2> QED BY <1>1, <1>3, <1>5, <2>1, <2>3, CallsStep
<1> QED BY <1>1, <1>4, <1>5

LEMMA OtherCalls ==
  ASSUME Inv, CallsKnown,
         \/ LoadFails \/ CheckSample \/ CheckRead \/ Dispatch \/ Engine \/ EngineFails \/ EngineDone
         \/ NextInto \/ Pull \/ PullEof \/ PullFails \/ Pop \/ Eof
  PROVE  CallsKnown'
<1>1. N \in Nat \ {0} /\ (phase \in Loads \cup {"engine"} => at \in 1 .. N) /\ Passed BY InvFacts
<1>2. /\ status \in {"none", "ok", "refused", "overlap", "error"}
      /\ at \in 1 .. N + 1 /\ (at > N => phase \in {"dispatch", "idle"})
  BY DEF CallsKnown
<1>3. Grows(readers) BY KeptGrows
<1>4. CASE LoadFails
  <2>1. /\ phase' = "idle" /\ status' = "error" /\ step' = "ready" /\ UNCHANGED <<disk, readers, call, at>>
    BY <1>4 DEF LoadFails
  <2> QED BY <1>2, <1>3, <2>1, CallsStep DEF Loads
<1>5. CASE CheckSample \/ CheckRead
  <2>1. /\ phase = "check" /\ UNCHANGED <<disk, readers, call>>
        /\ \/ \E s \in {"refused", "overlap"} : Return(s)
           \/ call.op # "sample" /\ phase' = "dispatch" /\ at' = 1 /\ UNCHANGED <<step, status>>
           \/ phase' = "stream" /\ UNCHANGED <<at, step, status>>
    BY <1>5 DEF CheckSample, CheckRead
  <2>2. step = "ready" BY <2>1, NotLoading
  <2>3. CASE \E s \in {"refused", "overlap"} : Return(s)
    <3>1. PICK s \in {"refused", "overlap"} : Return(s) BY <2>3
    <3>2. s \in {"none", "ok", "refused", "overlap", "error"} OBVIOUS
    <3> QED BY <1>3, <2>1, <2>2, <3>1, <3>2, CallsReturn
  <2>4. CASE call.op # "sample" /\ phase' = "dispatch" /\ at' = 1 /\ UNCHANGED <<step, status>>
    <3>1. \A r \in 1 .. N : readers[r].bounded BY <2>1, <2>4 DEF CallsKnown
    <3>2. phase' \notin Loads /\ at' \in 1 .. N + 1 /\ ~(at' > N) BY <1>1, <2>4 DEF Loads
    <3> QED BY <1>2, <1>3, <2>1, <2>2, <2>4, <3>1, <3>2, CallsStep
  <2>5. CASE phase' = "stream" /\ UNCHANGED <<at, step, status>>
    <3>1. phase' \notin Loads /\ ~(at' > N) BY <1>2, <2>1, <2>5 DEF Loads
    <3> QED BY <1>2, <1>3, <2>1, <2>2, <2>5, <3>1, CallsStep
  <2> QED BY <2>1, <2>3, <2>4, <2>5
<1>6. CASE Dispatch
  <2>1. /\ phase = "dispatch" /\ UNCHANGED <<disk, readers, call>>
        /\ \/ Return("ok")
           \/ ~(at > N) /\ at' = at + 1 /\ UNCHANGED <<phase, step, status>>
           \/ ~(at > N) /\ GoTo("sample", at) /\ UNCHANGED status
    BY <1>6 DEF Dispatch
  <2>2. step = "ready" /\ call.op = "multiSample" BY <1>1, <2>1, NotLoading DEF Passed
  <2>3. \A r \in 1 .. N : readers[r].bounded BY <2>1, <2>2 DEF CallsKnown
  <2>4. CASE Return("ok") BY <1>3, <2>1, <2>2, <2>4, CallsReturn
  <2>5. CASE ~(at > N) /\ at' = at + 1 /\ UNCHANGED <<phase, step, status>>
    <3>1. phase' = "dispatch" /\ phase' \notin Loads /\ at' \in 1 .. N + 1 BY <1>1, <1>2, <2>1, <2>5 DEF Loads
    <3> QED BY <1>2, <1>3, <2>1, <2>2, <2>3, <2>5, <3>1, CallsStep
  <2>6. CASE ~(at > N) /\ GoTo("sample", at) /\ UNCHANGED status
    <3>1. phase' = "sample" /\ at' = at /\ step' = StepFor(at') /\ status' = status BY <2>6, GoToStep
    <3>2. phase' \in Loads /\ at' \in 1 .. N /\ at' \in 1 .. N + 1 /\ ~(at' > N)
      BY <1>1, <1>2, <2>6, <3>1 DEF Loads
    <3> QED BY <1>2, <1>3, <2>1, <2>3, <3>1, <3>2, CallsStep
  <2> QED BY <2>1, <2>4, <2>5, <2>6
<1>7. CASE Engine \/ EngineFails \/ EngineDone
  <2>1. /\ phase = "engine" /\ UNCHANGED <<disk, readers, call>>
        /\ \/ UNCHANGED <<phase, at, step, status>>
           \/ \E s \in {"ok", "error"} : Return(s)
           \/ call.op # "sample" /\ phase' = "dispatch" /\ at' = at + 1 /\ UNCHANGED <<step, status>>
    BY <1>7 DEF Engine, EngineFails, EngineDone, readerVars, callVars
  <2>2. step = "ready" /\ at \in 1 .. N BY <1>1, <2>1, NotLoading
  <2>3. call.op # "sample" => \A r \in 1 .. N : readers[r].bounded BY <2>1 DEF CallsKnown
  <2>4. CASE UNCHANGED <<phase, at, step, status>>
    <3>1. phase' \notin Loads /\ at' \in 1 .. N + 1 /\ ~(at' > N) /\ phase' # "bounds"
      BY <1>2, <2>1, <2>4 DEF Loads
    <3> QED BY <1>2, <1>3, <2>1, <2>2, <2>3, <2>4, <3>1, CallsStep
  <2>5. CASE \E s \in {"ok", "error"} : Return(s)
    <3>1. PICK s \in {"ok", "error"} : Return(s) BY <2>5
    <3>2. s \in {"none", "ok", "refused", "overlap", "error"} OBVIOUS
    <3> QED BY <1>3, <2>1, <2>2, <3>1, <3>2, CallsReturn
  <2>6. CASE call.op # "sample" /\ phase' = "dispatch" /\ at' = at + 1 /\ UNCHANGED <<step, status>>
    <3>1. phase' \notin Loads /\ at' \in 1 .. N + 1 BY <1>1, <2>2, <2>6 DEF Loads
    <3> QED BY <1>2, <1>3, <2>1, <2>2, <2>3, <2>6, <3>1, CallsStep
  <2> QED BY <2>1, <2>4, <2>5, <2>6
<1>8. CASE NextInto \/ Pull \/ PullEof \/ PullFails \/ Pop \/ Eof
  <2>1. /\ phase \in Streams /\ UNCHANGED <<disk, readers, step, call, at>>
        /\ status' \in {status, "ok"}
    BY <1>8 DEF NextInto, Pull, PullEof, PullFails, Pop, Eof, streamOnly, readerVars, Streams
  <2>2. phase' \in Streams \/ phase' = "idle"
    BY <1>8 DEF NextInto, Pull, PullEof, PullFails, Pop, Eof, Answered, Streams
  <2>3. step = "ready" /\ ~(at > N) BY <1>2, <2>1, NotLoading DEF Streams
  <2>4. phase' \notin Loads /\ phase' \notin {"bounds", "check", "dispatch", "engine", "sample"}
    BY <2>2 DEF Loads, Streams
  <2> QED BY <1>2, <1>3, <2>1, <2>3, <2>4, CallsStep
<1> QED BY <1>4, <1>5, <1>6, <1>7, <1>8

LEMMA SameCalls == ASSUME CallsKnown, UNCHANGED vars PROVE CallsKnown'
<1>1. /\ call' = call /\ step' = step /\ status' = status /\ at' = at /\ phase' = phase
      /\ readers' = readers /\ disk' = disk
  BY DEF vars, readerVars, callVars
<1>2. N' = N BY <1>1 DEF N
<1>3. BoundedKnown(readers)' BY <1>1, <1>2 DEF CallsKnown, BoundedKnown
<1> QED BY <1>1, <1>2, <1>3 DEF CallsKnown, NoSummary

LEMMA CallsNext == ASSUME Inv, DiskLaidOut, CallsKnown, [Next]_vars PROVE CallsKnown'
BY CallStartsCalls, LoadingCalls, SummaryCalls, BoundsOfCalls, SampleCalls, OpenCalls, OtherCalls, SameCalls
   DEF Next, Over
-----------------------------------------------------------------------------
(* What a Reader is asked of a sample: queries of the call, each once, for *)
(* names in its file.                                                      *)
LEMMA SubsetKnown ==
  ASSUME CallsKnown
  PROVE  /\ Subset \in Seq(DOMAIN call.queries) /\ DOMAIN call.queries \subseteq Nat
         /\ \A j, k \in DOMAIN Subset : j < k => Subset[j] < Subset[k]
         /\ \A i \in DOMAIN call.queries :
              (call.op = "sample" \/ call.queries[i].topic \in DOMAIN Bounds(at))
                <=> \E k \in DOMAIN Subset : Subset[k] = i
<1> DEFINE D == DOMAIN call.queries
           S == {i \in D : call.op = "sample" \/ call.queries[i].topic \in DOMAIN Bounds(at)}
<1>1. Subset = Arranged(S) BY DEF Subset
<1>2. D = 1 .. Len(call.queries) /\ Len(call.queries) \in Nat
  <2> DEFINE Query == [topic : Nat, ts : Seq(Int)]
  <2>1. call.queries \in Seq(Query) BY DEF CallsKnown
  <2> HIDE DEF Query
  <2> QED BY <2>1
<1>3. IsFiniteSet(S) /\ S \subseteq Int
  <2>1. IsFiniteSet(D) BY <1>2, FS_Interval
  <2>2. S \subseteq D OBVIOUS
  <2> QED BY <1>2, <2>1, <2>2, FS_Subset
<1>4. \A i \in D : i \in S <=> (call.op = "sample" \/ call.queries[i].topic \in DOMAIN Bounds(at)) OBVIOUS
<1>5. S \subseteq D OBVIOUS
<1> DEFINE a == Arranged(S)
<1> HIDE DEF S, D
<1>6. /\ a \in Seq(S) /\ \A i, j \in DOMAIN a : i < j => a[i] < a[j]
      /\ \A x \in S : \E i \in DOMAIN a : a[i] = x
  BY <1>3, ArrangedFacts
<1> HIDE DEF a
<1>7. a \in Seq(D) /\ \A k \in DOMAIN a : a[k] \in S BY <1>5, <1>6
<1>8. D \subseteq Nat BY <1>2
<1> QED BY <1>1, <1>4, <1>6, <1>7, <1>8 DEF a, D

LEMMA NamesAreIds ==
  ASSUME DiskLaidOut, NEW r \in 1 .. N
  PROVE  /\ Names(r) \subseteq Nat /\ Groups(r) \in Seq(Group)
         /\ \A name \in Names(r) : \E g \in DOMAIN Groups(r) : name \in Groups(r)[g].ids
<1>1. Groups(r) \in Seq(Group) BY DEF DiskLaidOut, Sampleable
<1>2. \A g \in DOMAIN Groups(r) : Groups(r)[g] \in Group BY <1>1
<1>3. \A g \in DOMAIN Groups(r) : Groups(r)[g].ids \subseteq Nat BY <1>2 DEF Group
<1> QED BY <1>1, <1>3 DEF Names

LEMMA AskedOfEngine ==
  ASSUME Inv, DiskLaidOut, CallsKnown, phase = "sample", ValidQueries(Translated, Names(at)),
         file' = Groups(at),
         specs' = [k \in DOMAIN Translated |-> [id |-> Translated[k].topic, ts |-> Translated[k].ts]]
  PROVE  /\ Arguments'
         /\ DOMAIN specs' = DOMAIN Subset
         /\ \A k \in DOMAIN Subset : /\ specs'[k].id = InFile(at, call.queries[Subset[k]].topic)
                                     /\ specs'[k].ts = call.queries[Subset[k]].ts
<1> DEFINE Query == [topic : Nat, ts : Seq(Int)]
           Ask == [id : Nat, ts : Seq(Int)]
           qs == call.queries
<1>1. at \in 1 .. N BY InvFacts DEF Loads
<1>2. Subset \in Seq(DOMAIN qs) BY SubsetKnown
<1>3. \A i \in DOMAIN qs : qs[i] \in Query
  <2>1. qs \in Seq(Query) BY DEF CallsKnown
  <2> HIDE DEF qs, Query
  <2> QED BY <2>1
<1>4. /\ Translated = [k \in DOMAIN Subset |-> [topic |-> InFile(at, qs[Subset[k]].topic), ts |-> qs[Subset[k]].ts]]
      /\ DOMAIN Translated = DOMAIN Subset
  BY DEF Translated
<1>5. \A k \in DOMAIN Subset : /\ Translated[k].topic = InFile(at, qs[Subset[k]].topic)
                               /\ Translated[k].ts = qs[Subset[k]].ts
  BY <1>4
<1>6. \A k \in DOMAIN Subset : Subset[k] \in DOMAIN qs BY <1>2
<1> HIDE DEF qs
<1>7. \A k \in DOMAIN Subset : Translated[k].ts \in Seq(Int) BY <1>3, <1>5, <1>6
<1>8. /\ \A k \in DOMAIN Translated : Translated[k].topic \in Names(at)
      /\ \A k \in DOMAIN Translated : \A j \in 1 .. Len(Translated[k].ts) - 1 :
           Translated[k].ts[j] < Translated[k].ts[j + 1]
      /\ \A i, j \in DOMAIN Translated : Translated[i].topic = Translated[j].topic => i = j
  BY DEF ValidQueries
<1> DEFINE a == [k \in DOMAIN Translated |-> [id |-> Translated[k].topic, ts |-> Translated[k].ts]]
<1>9. DOMAIN a = DOMAIN Subset /\ \A k \in DOMAIN Subset : a[k] = [id |-> Translated[k].topic, ts |-> Translated[k].ts]
  BY <1>4
<1>10. specs' = a OBVIOUS
<1> HIDE DEF a
<1>11. \A k \in DOMAIN Subset : a[k].id = Translated[k].topic /\ a[k].ts = Translated[k].ts BY <1>9
<1>12. Names(at) \subseteq Nat /\ \A name \in Names(at) : \E g \in DOMAIN Groups(at) : name \in Groups(at)[g].ids
  BY <1>1, NamesAreIds
<1>13. \A k \in DOMAIN Subset : a[k] \in Ask BY <1>4, <1>7, <1>8, <1>9, <1>12
<1>14. a \in Seq(Ask)
  <2>1. DOMAIN Subset = 1 .. Len(Subset) /\ Len(Subset) \in Nat BY <1>2
  <2>2. a = [k \in 1 .. Len(Subset) |-> a[k]] BY <1>9, <2>1 DEF a
  <2> HIDE DEF Ask
  <2> QED BY <1>13, <2>1, <2>2
<1>15. Askable(Groups(at), a)
  <2>1. ASSUME NEW q \in DOMAIN a
        PROVE  /\ \A j \in 1 .. Len(a[q].ts) - 1 : a[q].ts[j] < a[q].ts[j + 1]
               /\ \E g \in DOMAIN Groups(at) : a[q].id \in Groups(at)[g].ids
    <3>1. q \in DOMAIN Translated /\ a[q].id = Translated[q].topic /\ a[q].ts = Translated[q].ts
      BY <1>4, <1>9, <1>11
    <3> QED BY <1>8, <1>12, <3>1
  <2>2. ASSUME NEW p \in DOMAIN a, NEW q \in DOMAIN a, a[p].id = a[q].id PROVE p = q
    <3>1. p \in DOMAIN Translated /\ q \in DOMAIN Translated
          /\ a[p].id = Translated[p].topic /\ a[q].id = Translated[q].topic
      BY <1>4, <1>9, <1>11
    <3> QED BY <1>8, <2>2, <3>1
  <2> QED BY <1>14, <2>1, <2>2 DEF Askable
<1>16. Sampleable(Groups(at)) BY <1>1 DEF DiskLaidOut
<1>17. Arguments' BY <1>10, <1>15, <1>16 DEF Arguments
<1> QED BY <1>5, <1>9, <1>10, <1>11, <1>17 DEF qs

LEMMA EngineNext ==
  ASSUME Inv, DiskLaidOut, CallsKnown, EngineKnown, [Next]_vars
  PROVE  EngineKnown'
<1>1. CASE Sample
  <2>1. phase = "sample" /\ step = "ready" BY <1>1 DEF Sample
  <2>2. CASE Return("refused") /\ UNCHANGED sampleVars
    <3>1. PhaseAInv' BY <2>2, SampleNextInv DEF EngineKnown
    <3>2. stage' = stage BY <2>2 DEF sampleVars
    <3> QED BY <2>1, <3>1, <3>2 DEF EngineKnown
  <2>3. CASE ~(RenameRefused(at) \/ ~ValidQueries(Translated, Names(at)))
    <3>1. /\ file' = Groups(at)
          /\ specs' = [k \in DOMAIN Translated |-> [id |-> Translated[k].topic, ts |-> Translated[k].ts]]
          /\ stage' = "start" /\ pending' = [x \in Cells' |-> 0] /\ resolved' = [x \in Cells' |-> NotFound]
          /\ phase' = "engine"
      BY <1>1, <2>3 DEF Sample
    <3>2. Arguments' BY <2>1, <2>3, <3>1, AskedOfEngine
    <3>3. PhaseAInv' BY <3>1, <3>2, StartInv
    <3> QED BY <3>1, <3>3 DEF EngineKnown
  <2> QED BY <1>1, <2>2, <2>3 DEF Sample
<1>2. CASE Engine
  <2>1. SampleNext /\ phase' = phase /\ phase = "engine" BY <1>2 DEF Engine, callVars
  <2>2. PhaseAInv' BY <2>1, SampleNextInv DEF EngineKnown
  <2>3. stage' \in {"start", "wave", "index", "walk", "data", "done", "failed"}
    BY <2>1 DEF SampleNext, Assign, Gather, FetchIndexes, Walk, Plan, Materialize, SampleFails
  <2> QED BY <2>1, <2>2, <2>3 DEF EngineKnown
<1>3. CASE EngineFails \/ EngineDone
  <2>1. stage \in {"failed", "done"} /\ UNCHANGED sampleVars BY <1>3 DEF EngineFails, EngineDone
  <2>2. PhaseAInv' BY <2>1, SampleNextInv DEF EngineKnown
  <2>3. stage' = stage BY <2>1 DEF sampleVars
  <2> QED BY <2>1, <2>2, <2>3 DEF EngineKnown
<1>4. CASE UNCHANGED sampleVars /\ (phase' # "engine" => phase # "engine")
  <2>1. PhaseAInv' BY <1>4, SampleNextInv DEF EngineKnown
  <2>2. stage' = stage BY <1>4 DEF sampleVars
  <2> QED BY <1>4, <2>1, <2>2 DEF EngineKnown
<1>5. CASE CallStarts BY <1>4, <1>5 DEF CallStarts
<1>6. CASE Loading BY <1>4, <1>6 DEF Loading, callVars
<1>7. CASE LoadFails
  <2>1. phase # "engine" BY <1>7, NotLoading DEF LoadFails
  <2> QED BY <1>4, <1>7, <2>1 DEF LoadFails
<1>8. CASE Summary \/ BoundsOf \/ CheckSample \/ CheckRead \/ Dispatch \/ Open \/ OpenFails
  <2>1. phase # "engine" /\ UNCHANGED sampleVars
    BY <1>8 DEF Summary, BoundsOf, CheckSample, CheckRead, Dispatch, Open, OpenFails
  <2> QED BY <1>4, <2>1
<1>9. CASE NextInto \/ Pull \/ PullEof \/ PullFails \/ Pop \/ Eof
  <2>1. phase # "engine" /\ UNCHANGED sampleVars
    BY <1>9 DEF NextInto, Pull, PullEof, PullFails, Pop, Eof, streamOnly
  <2> QED BY <1>4, <2>1
<1>10. CASE UNCHANGED vars BY <1>4, <1>10 DEF vars, callVars
<1>11. CASE Over BY <1>10, <1>11 DEF Over
<1> QED BY <1>1, <1>2, <1>3, <1>5, <1>6, <1>7, <1>8, <1>9, <1>10, <1>11 DEF Next

LEMMA LaidOutNext == ASSUME DiskLaidOut, [Next]_vars PROVE DiskLaidOut'
<1>1. disk' = disk
  BY DEF Next, CallStarts, Loading, LoadSummary, LoadFails, Summary, BoundsOf, CheckSample, CheckRead, Dispatch,
         Sample, Engine, EngineFails, EngineDone, Open, OpenFails, NextInto, Pull, PullEof, PullFails, Pop, Eof,
         Over, streamOnly, readerVars, vars
<1> QED BY <1>1 DEF DiskLaidOut, N, Groups

LEMMA InitCalls == ASSUME SessionsAssumption, Init, Inv PROVE CallInv
<1>1. PICK s \in Sessions : disk = s.disk BY DEF Init
<1>2. DiskLaidOut BY <1>1, SessionsAssumption DEF SessionsAssumption, DiskLaidOut, N, Groups
<1>3. /\ readers = [r \in 1 .. N |-> NewReader] /\ step = "ready" /\ call = NoCall
      /\ phase = "idle" /\ at = 1 /\ status = "none"
  BY DEF Init
<1>4. \A r \in 1 .. N : readers[r].bounded = FALSE BY <1>3 DEF NewReader
<1>5. call.queries = <<>> /\ N \in Nat \ {0} BY <1>3, InvFacts DEF NoCall
<1>6. CallsKnown
  <2>1. at \in 1 .. N + 1 BY <1>3, <1>5
  <2>2. call.queries \in Seq([topic : Nat, ts : Seq(Int)]) BY <1>5
  <2> QED BY <1>3, <1>4, <1>5, <2>1, <2>2 DEF CallsKnown, BoundedKnown, Loads
<1>7. /\ file = Groups(1) /\ specs = <<>> /\ stage = "start" /\ pending = [x \in Cells |-> 0]
  BY DEF Init, SampleStart, Groups
<1>8. Cells = {} BY <1>7 DEF Cells
<1>9. Arguments
  <2>1. Sampleable(file) BY <1>2, <1>5, <1>7 DEF DiskLaidOut
  <2>2. specs \in Seq([id : Nat, ts : Seq(Int)]) /\ DOMAIN specs = {} BY <1>7
  <2> QED BY <2>1, <2>2 DEF Arguments, Askable
<1>10. EngineKnown BY <1>7, <1>8, <1>9 DEF EngineKnown, PhaseAInv
<1> QED BY <1>2, <1>6, <1>10 DEF CallInv

(* The Readers, the call and the engine are known, whatever fails. *)
THEOREM CallInvariant == Spec => [](Inv /\ CallInv)
<1>1. Init => Inv BY SessionsAssumption, InitInv
<1>2. Init /\ Inv => CallInv BY SessionsAssumption, InitCalls
<1>3. Inv /\ [Next]_vars => Inv' BY NextInv
<1>4. Inv /\ CallInv /\ [Next]_vars => CallInv' BY LaidOutNext, CallsNext, EngineNext DEF CallInv
<1> QED BY <1>1, <1>2, <1>3, <1>4, PTL DEF Spec

(* Phase A finds the floor: what is resolved is the last message of the    *)
(* topic that is not after the timestamp.                                  *)
THEOREM FloorIsResolved == Spec => []FloorResolved
<1>1. Inv /\ CallInv => FloorResolved BY SettledCells DEF CallInv, EngineKnown
<1> QED BY <1>1, CallInvariant, PTL

(* Every wave brings every pending cell closer to the first chunk, so the  *)
(* waves end, and never with the error for a wave without progress.        *)
THEOREM WavesDescend == Spec => EveryWaveDescends
<1> DEFINE Descends ==
      stage = "walk" =>
        /\ stage' = "wave"
        /\ \A x \in Cells : pending'[x] < pending[x] \/ (pending[x] = 0 /\ pending'[x] = 0)
<1>1. Inv /\ CallInv /\ [Next]_vars => [Descends]_sampleVars
  <2> SUFFICES ASSUME Inv, CallInv, [Next]_vars, stage = "walk", ~UNCHANGED sampleVars PROVE Descends
    OBVIOUS
  <2>1. phase = "engine" /\ PhaseAInv BY DEF CallInv, EngineKnown
  <2>2. SampleNext
    BY <2>1 DEF Next, CallStarts, Loading, LoadFails, Summary, BoundsOf, CheckSample, CheckRead, Dispatch,
                Sample, Engine, EngineFails, EngineDone, Open, OpenFails, NextInto, Pull, PullEof, PullFails,
                Pop, Eof, Over, streamOnly, vars
  <2>3. Walk BY <2>2 DEF SampleNext, Assign, Gather, FetchIndexes, Plan, Materialize, SampleFails
  <2>4. \A x \in Cells : FallBack(x) < pending[x] \/ (pending[x] = 0 /\ FallBack(x) = 0)
    BY <2>1, WalkCell
  <2>5. PICK x \in Pending : KeyOf(x) \in cached BY <2>1 DEF PhaseAInv
  <2>6. x \in Cells /\ Looked(x) BY <2>5 DEF Looked, Pending
  <2>7. stage' = "wave" BY <2>3, <2>6 DEF Walk
  <2> QED BY <2>3, <2>4, <2>7 DEF Walk
<1> QED BY <1>1, CallInvariant, PTL DEF Spec, EveryWaveDescends
-----------------------------------------------------------------------------
(* The variables have their types, the cursors are within what they walk,  *)
(* and the engine is called with files and queries it is made for.         *)
THEOREM SessionsTyped == Spec => []TypeOK
<1>1. Inv /\ CallInv /\ MergeKnown => TypeOK
  <2> SUFFICES ASSUME Inv, CallInv, MergeKnown PROVE TypeOK OBVIOUS
  <2>1. /\ N \in Nat \ {0} /\ readers \in [1 .. N -> ReaderType]
        /\ phase \in {"idle", "summary", "sample", "bounds", "open", "check", "dispatch", "engine",
                     "stream", "pull", "pop"}
    BY DEF Inv, Types, Loads, Streams
  <2>2. /\ step \in {"size", "tail", "rest", "ready", "failed", "panic"}
        /\ status \in {"none", "ok", "refused", "overlap", "error"}
        /\ at \in 1 .. N + 1 /\ (at > N => phase \in {"dispatch", "idle"})
        /\ \A r \in 1 .. N : readers[r].bounded => readers[r].summary # NoSummary /\ readers[r].rename = "ok"
        /\ phase \in {"check", "dispatch", "engine"} => \A r \in 1 .. N :
             call.op # "sample" => readers[r].bounded
    BY DEF CallInv, CallsKnown, BoundedKnown
  <2>3. \A r \in 1 .. N : readers[r].size \in {0, disk[r].size} BY DEF Inv, FilesInv, ReadRight
  <2>4. \A r \in 1 .. N : readers[r].rename \in {"none", "ok", "clash"} BY <2>1 DEF ReaderType
  <2>5. /\ PhaseAInv /\ stage \in {"start", "wave", "index", "walk", "data", "done", "failed"}
        /\ Sampleable(file) /\ Askable(file, specs)
    BY DEF CallInv, EngineKnown, PhaseAInv, Arguments
  <2>6. ASSUME NEW x \in Cells
        PROVE  pending[x] \in 0 .. Len(ChunksOf(x)) /\ resolved[x].chunk \in 0 .. Len(ChunksOf(x))
    <3>1. pending[x] \in 0 .. Len(ChunksOf(x)) BY <2>5 DEF PhaseAInv
    <3>2. ChunksOf(x) \in Seq(Chunk) BY <2>5, CellKnown DEF PhaseAInv
    <3>3. DOMAIN ChunksOf(x) = 1 .. Len(ChunksOf(x)) /\ Len(ChunksOf(x)) \in Nat
      <4> DEFINE cs == ChunksOf(x)
      <4>1. cs \in Seq(Chunk) BY <3>2
      <4> HIDE DEF cs
      <4>2. DOMAIN cs = 1 .. Len(cs) /\ Len(cs) \in Nat BY <4>1
      <4> QED BY <4>2 DEF cs
    <3>4. CASE resolved[x] = NotFound BY <3>1, <3>3, <3>4 DEF NotFound
    <3>5. CASE resolved[x] # NotFound
      <4>1. Settled(x, pending[x], resolved[x]) BY <2>5, <3>5 DEF PhaseAInv, AllSettled
      <4>2. resolved[x].chunk \in DOMAIN ChunksOf(x) BY <3>5, <4>1 DEF Settled
      <4> QED BY <3>1, <3>3, <4>2
    <3> QED BY <3>4, <3>5
  <2>7. /\ pulling \in 0 .. N /\ (phase = "pull" <=> pulling # 0)
        /\ phase \in {"stream", "pull", "pop"} => Len(subs) = N
    BY <2>1 DEF MergeKnown, MergeInv, MergePhase, Streams
  <2>8. \A k \in DOMAIN heap : heap[k].sub \in 1 .. N
    BY DEF MergeKnown, MergeInv, MergeTypes, IsEntry, HeapEntry
  <2> QED BY <2>1, <2>2, <2>3, <2>4, <2>5, <2>6, <2>7, <2>8 DEF TypeOK
<1> QED BY <1>1, CallInvariant, MergeInvariant, PTL
=============================================================================
