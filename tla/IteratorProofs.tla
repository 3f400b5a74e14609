--------------------------- MODULE IteratorProofs ---------------------------
(***************************************************************************)
(* For all files and queries, and the iterators of the three SDKs: the     *)
(* merged stream is in the order of time, also after errors, a group has   *)
(* one message in the heap at the most, and at the end of file every       *)
(* message the query asks for was returned.                                *)
(*                                                                         *)
(* First what the operators of SortFilter and of Prepare return: of every  *)
(* chunk the messages kept, in the order of their offsets and so of their  *)
(* times; of every group its chunks, in order.  Then every step of the     *)
(* three iterators is shown to be one of a few moves, and the invariants   *)
(* are proved of the moves: what an iterator still has to give (Passes)    *)
(* comes after what it has in the heap, and that after what was returned;  *)
(* what it has given (IsGiven) is what is in the heap and what was popped. *)
(***************************************************************************)
EXTENDS PortIterator, OrderLemmas, TLAPS

-----------------------------------------------------------------------------
(* The merge of an index chunk. *)

EntriesOf(topics) == {Entry(topics, p[1], p[2]) : p \in AllEntries(topics)}

OffsetsAscend(topics) == \A t \in DOMAIN topics : Ascending(Offs(topics[t].msgs))

LEMMA EntryFacts ==
  ASSUME NEW topics \in Seq(TopicIndex)
  PROVE  /\ \A t \in DOMAIN topics : \A k \in DOMAIN topics[t].msgs : Entry(topics, t, k) \in EntriesOf(topics)
         /\ \A e \in EntriesOf(topics) :
              /\ e.topic \in DOMAIN topics /\ e.k \in DOMAIN topics[e.topic].msgs
              /\ e = Entry(topics, e.topic, e.k)
         /\ \A t \in DOMAIN topics : topics[t].id \in Nat /\ topics[t].msgs \in Seq([ts : Int, off : Nat])
<1>1. ASSUME NEW t \in DOMAIN topics PROVE topics[t].id \in Nat /\ topics[t].msgs \in Seq([ts : Int, off : Nat])
  <2>1. topics[t] \in TopicIndex OBVIOUS
  <2> QED BY <2>1 DEF TopicIndex
<1>2. ASSUME NEW t \in DOMAIN topics, NEW k \in DOMAIN topics[t].msgs
      PROVE  Entry(topics, t, k) \in EntriesOf(topics)
  <2>1. <<t, k>> \in AllEntries(topics) BY DEF AllEntries
  <2>2. <<t, k>>[1] = t /\ <<t, k>>[2] = k OBVIOUS
  <2> QED BY <2>1, <2>2 DEF EntriesOf
<1>3. ASSUME NEW e \in EntriesOf(topics)
      PROVE  /\ e.topic \in DOMAIN topics /\ e.k \in DOMAIN topics[e.topic].msgs
             /\ e = Entry(topics, e.topic, e.k)
  <2>1. PICK p \in AllEntries(topics) : e = Entry(topics, p[1], p[2]) BY DEF EntriesOf
  <2>2. PICK t \in DOMAIN topics : p \in {<<t, k>> : k \in DOMAIN topics[t].msgs} BY DEF AllEntries
  <2>3. PICK k \in DOMAIN topics[t].msgs : p = <<t, k>> BY <2>2
  <2>4. p[1] = t /\ p[2] = k BY <2>3
  <2>5. e.topic = t /\ e.k = k BY <2>1, <2>4 DEF Entry
  <2> QED BY <2>1, <2>4, <2>5
<1> QED BY <1>1, <1>2, <1>3

LEMMA EntryTypes ==
  ASSUME NEW topics \in Seq(TopicIndex), NEW e \in EntriesOf(topics)
  PROVE  /\ e.key \in Nat /\ e.off = e.key /\ e.ts \in Int /\ e.id \in Nat
         /\ e.k \in Nat \ {0} /\ e.k <= Len(topics[e.topic].msgs) /\ Len(topics[e.topic].msgs) \in Nat
         /\ e.id = topics[e.topic].id
         /\ e.ts = topics[e.topic].msgs[e.k].ts /\ e.off = topics[e.topic].msgs[e.k].off
<1> DEFINE m == topics[e.topic].msgs
<1>1. e.topic \in DOMAIN topics /\ e.k \in DOMAIN m /\ e = Entry(topics, e.topic, e.k) BY EntryFacts
<1>2. m \in Seq([ts : Int, off : Nat]) /\ topics[e.topic].id \in Nat BY <1>1, EntryFacts
<1>3. /\ e.key = m[e.k].off /\ e.off = m[e.k].off /\ e.ts = m[e.k].ts /\ e.id = topics[e.topic].id
  BY <1>1 DEF Entry
<1> HIDE DEF m
<1>4. m[e.k].ts \in Int /\ m[e.k].off \in Nat
  <2> DEFINE M == [ts : Int, off : Nat]
  <2>1. m \in Seq(M) BY <1>2
  <2>2. \A x \in M : x.ts \in Int /\ x.off \in Nat OBVIOUS
  <2> HIDE DEF M
  <2>3. m[e.k] \in M BY <1>1, <2>1
  <2> QED BY <2>2, <2>3
<1>5. e.k \in 1 .. Len(m) /\ Len(m) \in Nat BY <1>1, <1>2
<1>6. e.k \in Nat \ {0} /\ e.k <= Len(m) BY <1>5
<1> QED BY <1>2, <1>3, <1>4, <1>5, <1>6 DEF m

(* x comes before y: it has no larger offset, and if both are of one topic *)
(* it is the earlier one.                                                  *)
Precedes(x, y) == x.key <= y.key /\ (x.topic = y.topic => x.k < y.k)

OnePerTopic(h) == \A i, j \in DOMAIN h : h[i].topic = h[j].topic => i = j

(* An entry came out, or one of its topic that is not after it is next.    *)
Accounted(e, out, rest) ==
  \/ \E i \in DOMAIN out : out[i] = e
  \/ \E j \in DOMAIN rest : rest[j].topic = e.topic /\ rest[j].k <= e.k

(* A state of the merge: what came out is in order, and before what is in  *)
(* the heap, where no topic has two entries; no entry is lost.             *)
Merging(E) ==
  {s \in [out : Seq(E), heap : Seq(E)] :
     /\ IsHeap(s.heap)
     /\ OnePerTopic(s.heap)
     /\ \A i \in DOMAIN s.out : \A j \in DOMAIN s.heap : Precedes(s.out[i], s.heap[j])
     /\ \A i, j \in DOMAIN s.out : i < j => Precedes(s.out[i], s.out[j])
     /\ \A e \in E : Accounted(e, s.out, s.heap)}

(* What the merge puts into its heap first. *)
FirstHeap(topics) ==
  LET first[t \in 0 .. Len(topics)] ==
        IF t = 0 THEN <<>>
        ELSE IF topics[t].msgs = <<>> THEN first[t - 1]
        ELSE Pushed(first[t - 1], Entry(topics, t, 1))
  IN  first[Len(topics)]

LEMMA FirstHeapFacts ==
  ASSUME NEW topics \in Seq(TopicIndex)
  PROVE  /\ FirstHeap(topics) \in Seq(EntriesOf(topics)) /\ IsHeap(FirstHeap(topics)) /\ OnePerTopic(FirstHeap(topics))
         /\ \A e \in EntriesOf(topics) : Accounted(e, <<>>, FirstHeap(topics))
<1> DEFINE E == EntriesOf(topics)
           c == Len(topics)
           X == {h \in Seq(E) : IsHeap(h)}
           After(h, t) == IF topics[t].msgs = <<>> THEN h ELSE Pushed(h, Entry(topics, t, 1))
           step == [t \in 1 .. c |-> [h \in X |-> After(h, t)]]
           Follows(f) == f = [t \in 0 .. c |-> IF t = 0 THEN <<>>
                                               ELSE IF topics[t].msgs = <<>> THEN f[t - 1]
                                               ELSE Pushed(f[t - 1], Entry(topics, t, 1))]
           first == CHOOSE f : Follows(f)
<1>1. c \in Nat /\ DOMAIN topics = 1 .. c OBVIOUS
<1>2. \A e \in E : e.key \in Int BY EntryTypes
<1> HIDE DEF E, c
<1>3. ASSUME NEW t \in 1 .. c, NEW h \in X PROVE After(h, t) \in X
  <2>1. h \in Seq(E) /\ IsHeap(h) OBVIOUS
  <2>2. topics[t].msgs # <<>> => Entry(topics, t, 1) \in E
    <3>1. topics[t].msgs \in Seq([ts : Int, off : Nat]) BY <1>1, EntryFacts
    <3>2. topics[t].msgs # <<>> => 1 \in DOMAIN topics[t].msgs BY <3>1
    <3> QED BY <1>1, <3>2, EntryFacts DEF E
  <2>3. topics[t].msgs # <<>> => Pushed(h, Entry(topics, t, 1)) \in Seq(E) /\ IsHeap(Pushed(h, Entry(topics, t, 1)))
    BY <1>2, <2>1, <2>2, PushedFacts
  <2> QED BY <2>1, <2>3
<1> HIDE DEF After
<1>4. <<>> \in X BY DEF IsHeap
<1>5. Stays(X, step, c) BY <1>3 DEF Stays
<1>6. PICK h : Steps(h, X, <<>>, step, c)
  <2> HIDE DEF X, step
  <2> QED BY <1>1, <1>4, <1>5, StepByStep
<1>7. h \in [0 .. c -> X] /\ h[0] = <<>> /\ \A t \in 1 .. c : h[t] = step[t][h[t - 1]] BY <1>6 DEF Steps
<1> HIDE DEF X
<1>8. ASSUME NEW t \in 1 .. c PROVE h[t] = After(h[t - 1], t)
  <2>1. t - 1 \in 0 .. c BY <1>1
  <2>2. h[t - 1] \in X BY <1>7, <2>1
  <2> QED BY <1>7, <2>2
<1>9. Follows(h)
  <2>1. \A t \in 0 .. c : h[t] = IF t = 0 THEN <<>>
                                 ELSE IF topics[t].msgs = <<>> THEN h[t - 1]
                                 ELSE Pushed(h[t - 1], Entry(topics, t, 1))
    <3> SUFFICES ASSUME NEW t \in 0 .. c, t # 0 PROVE h[t] = After(h[t - 1], t) BY <1>7 DEF After
    <3>1. t \in 1 .. c BY <1>1
    <3> QED BY <1>8, <3>1
  <2>2. h = [t \in 0 .. c |-> h[t]] BY <1>7
  <2> QED BY <2>1, <2>2
<1>10. Follows(first)
  <2> HIDE DEF Follows
  <2> QED BY <1>9
<1> HIDE DEF first
<1>11. \A t \in 0 .. c : first[t] = h[t]
  <2> DEFINE S == {t \in Nat : t <= c => first[t] = h[t]}
  <2>0. \A t \in 0 .. c : first[t] = IF t = 0 THEN <<>> ELSE After(first[t - 1], t) BY <1>10 DEF After
  <2>1. 0 \in S BY <1>1, <1>7, <2>0
  <2>2. ASSUME NEW n \in Nat, n \in S PROVE n + 1 \in S
    <3> SUFFICES ASSUME n + 1 <= c PROVE first[n + 1] = h[n + 1] OBVIOUS
    <3> DEFINE t == n + 1
    <3>1. t \in 1 .. c /\ t \in 0 .. c /\ t # 0 /\ t - 1 = n /\ first[n] = h[n] BY <1>1, <2>2
    <3> HIDE DEF t
    <3>2. first[t] = After(first[t - 1], t) BY <2>0, <3>1
    <3>3. h[t] = After(h[t - 1], t) BY <1>8, <3>1
    <3>4. first[t] = h[t] BY <3>1, <3>2, <3>3
    <3> QED BY <3>4 DEF t
  <2> HIDE DEF S
  <2>3. Nat \subseteq S BY <2>1, <2>2, AllNumbers
  <2> QED BY <1>1, <2>3 DEF S
<1>12. c \in 0 .. c BY <1>1
<1>13. FirstHeap(topics) = first[c] BY DEF FirstHeap, first, c
<1>14. h[c] \in X BY <1>7, <1>12
<1> DEFINE Has(g, u) == topics[u].msgs # <<>> => \E i \in DOMAIN g : g[i] = Entry(topics, u, 1)
<1>15. OnePerTopic(h[c]) /\ \A u \in 1 .. c : Has(h[c], u)
  <2> DEFINE UpTo(t) == /\ OnePerTopic(h[t]) /\ \A i \in DOMAIN h[t] : h[t][i].topic <= t
                        /\ \A u \in 1 .. t : Has(h[t], u)
             S == {t \in Nat : t <= c => UpTo(t)}
  <2>1. 0 \in S
    <3>1. UpTo(0) BY <1>7 DEF OnePerTopic
    <3> HIDE DEF UpTo
    <3> QED BY <3>1
  <2>2. ASSUME NEW n \in Nat, n \in S PROVE n + 1 \in S
    <3> SUFFICES ASSUME n + 1 <= c PROVE UpTo(n + 1) OBVIOUS
    <3> DEFINE t == n + 1
               g == h[n]
               item == Entry(topics, t, 1)
               p == Pushed(g, item)
    <3>1. /\ t \in 1 .. c /\ t - 1 = n /\ n \in 0 .. c /\ OnePerTopic(g)
          /\ \A i \in DOMAIN g : g[i].topic <= n
          /\ \A u \in 1 .. n : Has(g, u)
          /\ \A u \in 1 .. t : u \in 1 .. n \/ u = t
      BY <1>1, <2>2
    <3> HIDE DEF Has
    <3>2. h[t] = After(g, t) BY <1>8, <3>1
    <3>3. g \in Seq(E)
      <4>1. g \in X BY <1>7, <3>1
      <4> QED BY <4>1 DEF X
    <3>4. \A i \in DOMAIN g : g[i].topic \in Nat
      <4>1. \A e \in E : e.topic \in DOMAIN topics BY EntryFacts DEF E
      <4>2. \A i \in DOMAIN g : g[i] \in E BY <3>3
      <4> QED BY <1>1, <4>1, <4>2
    <3>5. CASE topics[t].msgs = <<>>
      <4>1. h[t] = g BY <3>2, <3>5 DEF After
      <4>2. \A i \in DOMAIN g : g[i].topic <= t BY <3>1, <3>4
      <4>3. Has(g, t) BY <3>5 DEF Has
      <4> QED BY <3>1, <4>1, <4>2, <4>3
    <3>6. CASE topics[t].msgs # <<>>
      <4>1. h[t] = p BY <3>2, <3>6 DEF After
      <4>2. item \in E
        <5>1. topics[t].msgs \in Seq([ts : Int, off : Nat]) BY <1>1, <3>1, EntryFacts
        <5>2. 1 \in DOMAIN topics[t].msgs BY <3>6, <5>1
        <5> QED BY <1>1, <3>1, <5>2, EntryFacts DEF E
      <4>3. item.topic = t BY DEF Entry
      <4> HIDE DEF t, g, item
      <4>4. /\ \A k \in DOMAIN p : p[k] = item \/ \E j \in DOMAIN g : p[k] = g[j]
            /\ \A k, l \in DOMAIN p : k # l =>
                 \/ p[k] = item /\ \E j \in DOMAIN g : p[l] = g[j]
                 \/ p[l] = item /\ \E j \in DOMAIN g : p[k] = g[j]
                 \/ \E i, j \in DOMAIN g : i # j /\ p[k] = g[i] /\ p[l] = g[j]
            /\ \E k \in DOMAIN p : p[k] = item
            /\ \A j \in DOMAIN g : \E k \in DOMAIN p : p[k] = g[j]
        <5>1. g \in X BY <1>7, <3>1 DEF g
        <5>2. IsHeap(g) BY <5>1 DEF X
        <5>3. \A k \in DOMAIN p : p[k] = item \/ \E j \in DOMAIN g : p[k] = g[j]
          BY <1>2, <3>3, <4>2, <5>2, PushedFacts
        <5>4. \A k, l \in DOMAIN p : k # l =>
                \/ p[k] = item /\ \E j \in DOMAIN g : p[l] = g[j]
                \/ p[l] = item /\ \E j \in DOMAIN g : p[k] = g[j]
                \/ \E i, j \in DOMAIN g : i # j /\ p[k] = g[i] /\ p[l] = g[j]
          BY <3>3, <4>2, PushedPairs
        <5>5. /\ \E k \in DOMAIN p : p[k] = item
              /\ \A j \in DOMAIN g : \E k \in DOMAIN p : p[k] = g[j]
          BY <3>3, <4>2, PushedPairs
        <5> QED BY <5>3, <5>4, <5>5
      <4> HIDE DEF p
      <4>5. n < t /\ t \in Nat BY DEF t
      <4>6. \A i \in DOMAIN g : g[i].topic <= t /\ g[i].topic # t BY <3>1, <3>4, <4>5
      <4>7. \A k \in DOMAIN p : p[k].topic <= t BY <4>3, <4>4, <4>5, <4>6
      <4>8. OnePerTopic(p) BY <3>1, <4>3, <4>4, <4>6 DEF OnePerTopic
      <4>9. Has(p, t)
        <5>1. item = Entry(topics, t, 1) BY DEF item
        <5> QED BY <4>4, <5>1 DEF Has
      <4>10. \A u \in 1 .. n : Has(p, u)
        <5> SUFFICES ASSUME NEW u \in 1 .. n, topics[u].msgs # <<>>
                     PROVE  \E k \in DOMAIN p : p[k] = Entry(topics, u, 1)
          BY DEF Has
        <5>1. PICK j \in DOMAIN g : g[j] = Entry(topics, u, 1) BY <3>1 DEF Has
        <5> QED BY <4>4, <5>1
      <4> QED BY <3>1, <4>1, <4>7, <4>8, <4>9, <4>10 DEF t
    <3> QED BY <3>5, <3>6
  <2> HIDE DEF S
  <2>3. Nat \subseteq S BY <2>1, <2>2, AllNumbers
  <2>4. UpTo(c) BY <1>1, <2>3 DEF S
  <2> QED BY <2>4
<1>16. ASSUME NEW e \in E PROVE Accounted(e, <<>>, h[c])
  <2>1. /\ e.topic \in 1 .. c /\ e.k \in DOMAIN topics[e.topic].msgs /\ e.k \in Nat \ {0}
    BY <1>1, EntryFacts, EntryTypes DEF E
  <2>2. topics[e.topic].msgs # <<>> BY <2>1
  <2>3. PICK i \in DOMAIN h[c] : h[c][i] = Entry(topics, e.topic, 1) BY <1>15, <2>1, <2>2
  <2>4. h[c][i].topic = e.topic /\ h[c][i].k = 1 BY <2>3 DEF Entry
  <2>5. 1 <= e.k BY <2>1
  <2> QED BY <2>3, <2>4, <2>5 DEF Accounted
<1> HIDE DEF Has
<1> QED BY <1>11, <1>12, <1>13, <1>14, <1>15, <1>16 DEF X, E

(* There are finitely many entries. *)
LEMMA EntriesAreFinite ==
  ASSUME NEW topics \in Seq(TopicIndex)
  PROVE  IsFiniteSet(AllEntries(topics)) /\ Cardinality(AllEntries(topics)) \in Nat
<1> DEFINE c == Len(topics)
           Of1(t) == {<<t, k>> : k \in DOMAIN topics[t].msgs}
           U(n) == UNION {Of1(t) : t \in 1 .. n}
           S == {n \in Nat : n <= c => IsFiniteSet(U(n))}
<1>1. c \in Nat /\ DOMAIN topics = 1 .. c OBVIOUS
<1>2. ASSUME NEW t \in 1 .. c PROVE IsFiniteSet(Of1(t))
  <2> DEFINE m == topics[t].msgs
             f == [k \in DOMAIN m |-> <<t, k>>]
  <2>1. m \in Seq([ts : Int, off : Nat]) BY <1>1, EntryFacts
  <2>2. DOMAIN m = 1 .. Len(m) /\ Len(m) \in Int BY <2>1
  <2>3. IsFiniteSet(DOMAIN m)
    <3> HIDE DEF m
    <3> QED BY <2>2, FS_Interval
  <2>4. f \in Surjection(DOMAIN m, Of1(t)) BY DEF Surjection
  <2> HIDE DEF f, m, Of1
  <2> QED BY <2>3, <2>4, FS_Surjection
<1> HIDE DEF Of1
<1>3. 0 \in S
  <2>1. U(0) = {} OBVIOUS
  <2> HIDE DEF U
  <2> QED BY <2>1, FS_EmptySet
<1>4. ASSUME NEW n \in Nat, n \in S PROVE n + 1 \in S
  <2> SUFFICES ASSUME n + 1 <= c PROVE IsFiniteSet(U(n + 1)) OBVIOUS
  <2>1. IsFiniteSet(U(n)) /\ n + 1 \in 1 .. c BY <1>1, <1>4
  <2>2. IsFiniteSet(Of1(n + 1)) BY <1>2, <2>1
  <2>3. 1 .. n + 1 = (1 .. n) \cup {n + 1} OBVIOUS
  <2>4. U(n + 1) = U(n) \cup Of1(n + 1) BY <2>3
  <2> HIDE DEF U
  <2>5. IsFiniteSet(U(n) \cup Of1(n + 1)) BY <2>1, <2>2, FS_Union
  <2> QED BY <2>4, <2>5
<1>5. IsFiniteSet(U(c))
  <2> HIDE DEF S, c
  <2>1. c \in S BY <1>1, <1>3, <1>4, AllNumbers
  <2> QED BY <1>1, <2>1 DEF S
<1>6. AllEntries(topics) = U(c) BY <1>1 DEF AllEntries, Of1
<1> HIDE DEF U
<1> QED BY <1>5, <1>6, FS_CardinalityType

(* One turn of the merge: the least entry comes out, and the next of its   *)
(* topic, which is not less, goes in.                                      *)
MergeTurn(topics, s) ==
  LET e == Head(s.heap)
      rest == Popped(s.heap)
  IN  IF s.heap = <<>> THEN s
      ELSE [out  |-> Append(s.out, e),
            heap |-> IF e.k = Len(topics[e.topic].msgs) THEN rest
                     ELSE Pushed(rest, Entry(topics, e.topic, e.k + 1))]

LEMMA TurnMerges ==
  ASSUME NEW topics \in Seq(TopicIndex), OffsetsAscend(topics), NEW s \in Merging(EntriesOf(topics))
  PROVE  MergeTurn(topics, s) \in Merging(EntriesOf(topics))
<1> DEFINE E == EntriesOf(topics)
           e == Head(s.heap)
           rest == Popped(s.heap)
           next == Entry(topics, e.topic, e.k + 1)
           out == Append(s.out, e)
           heap1 == IF e.k = Len(topics[e.topic].msgs) THEN rest ELSE Pushed(rest, next)
<1> SUFFICES ASSUME s.heap # <<>> PROVE MergeTurn(topics, s) \in Merging(E) BY DEF MergeTurn
<1>1. /\ s.out \in Seq(E) /\ s.heap \in Seq(E) /\ IsHeap(s.heap) /\ OnePerTopic(s.heap)
      /\ \A i \in DOMAIN s.out : \A j \in DOMAIN s.heap : Precedes(s.out[i], s.heap[j])
      /\ \A i, j \in DOMAIN s.out : i < j => Precedes(s.out[i], s.out[j])
      /\ \A x \in E : Accounted(x, s.out, s.heap)
  BY DEF Merging
<1>2. \A x \in E : x.key \in Int /\ x.k \in Int BY EntryTypes
<1>3. /\ rest \in Seq(E) /\ IsHeap(rest)
      /\ e \in E /\ e = s.heap[1] /\ 1 \in DOMAIN s.heap
      /\ \A k \in DOMAIN s.heap : e.key <= s.heap[k].key
  <2> HIDE DEF E
  <2> QED BY <1>1, <1>2, PoppedFacts
<1>31. /\ \A k \in DOMAIN rest : \E j \in DOMAIN s.heap : j # 1 /\ rest[k] = s.heap[j]
       /\ \A k, l \in DOMAIN rest : k # l =>
            \E i, j \in DOMAIN s.heap : i # j /\ rest[k] = s.heap[i] /\ rest[l] = s.heap[j]
       /\ \A j \in DOMAIN s.heap : j # 1 => \E k \in DOMAIN rest : rest[k] = s.heap[j]
  <2> HIDE DEF E
  <2> QED BY <1>1, PoppedPairs
<1>4. ASSUME e.k # Len(topics[e.topic].msgs)
      PROVE  next \in E /\ e.key <= next.key /\ next.topic = e.topic /\ e.k < next.k
  <2> DEFINE m == topics[e.topic].msgs
  <2>1. /\ e.topic \in DOMAIN topics /\ e.k \in Nat \ {0} /\ e.k <= Len(m) /\ Len(m) \in Nat
        /\ e.key = e.off /\ e.off = m[e.k].off
    BY <1>3, EntryFacts, EntryTypes
  <2>2. m \in Seq([ts : Int, off : Nat]) BY <2>1, EntryFacts
  <2>3. DOMAIN m = 1 .. Len(m) BY <2>2
  <2>4. e.k \in DOMAIN m /\ e.k + 1 \in DOMAIN m
    <3>1. e.k # Len(m) BY <1>4
    <3> HIDE DEF m, e
    <3> QED BY <2>1, <2>3, <3>1
  <2>5. next \in E BY <2>1, <2>4, EntryFacts
  <2>6. next.key = m[e.k + 1].off /\ next.topic = e.topic /\ next.k = e.k + 1 BY DEF Entry
  <2>7. Offs(m)[e.k] <= Offs(m)[e.k + 1]
    <3>1. Ascending(Offs(m)) BY <2>1 DEF OffsetsAscend
    <3>2. DOMAIN Offs(m) = DOMAIN m BY DEF Offs
    <3>3. e.k <= e.k + 1 BY <2>1
    <3> HIDE DEF m
    <3> QED BY <2>4, <3>1, <3>2, <3>3 DEF Ascending
  <2>8. Offs(m)[e.k] = m[e.k].off /\ Offs(m)[e.k + 1] = m[e.k + 1].off BY <2>4 DEF Offs
  <2>9. e.k < e.k + 1 BY <2>1
  <2> QED BY <2>1, <2>5, <2>6, <2>7, <2>8, <2>9
<1>41. ASSUME NEW x \in E, x.topic = e.topic, x.k = e.k PROVE x = e
  <2>1. x = Entry(topics, x.topic, x.k) /\ e = Entry(topics, e.topic, e.k) BY <1>3, EntryFacts
  <2> HIDE DEF e
  <2> QED BY <1>41, <2>1
<1>42. ASSUME NEW x \in E, x.topic = e.topic, e.k < x.k
       PROVE  e.k # Len(topics[e.topic].msgs) /\ next.k <= x.k
  <2>1. x.k <= Len(topics[x.topic].msgs) /\ x.k \in Nat /\ e.k \in Nat /\ Len(topics[x.topic].msgs) \in Nat
    BY <1>3, EntryTypes
  <2>2. next.k = e.k + 1 BY DEF Entry
  <2> HIDE DEF e, next
  <2> QED BY <1>42, <2>1, <2>2
<1> HIDE DEF E, e, rest, next
<1>5. ASSUME NEW k \in DOMAIN rest PROVE rest[k] \in E /\ rest[k].topic # e.topic /\ Precedes(e, rest[k])
  <2>1. PICK j \in DOMAIN s.heap : j # 1 /\ rest[k] = s.heap[j] BY <1>31
  <2>2. s.heap[j].topic # e.topic BY <1>1, <1>3, <2>1 DEF OnePerTopic
  <2> QED BY <1>3, <2>1, <2>2 DEF Precedes
<1>51. OnePerTopic(rest) BY <1>1, <1>31 DEF OnePerTopic
<1>52. ASSUME NEW i \in DOMAIN s.out, NEW k \in DOMAIN rest PROVE Precedes(s.out[i], rest[k]) BY <1>1, <1>31
<1>53. /\ heap1 \in Seq(E) /\ IsHeap(heap1) /\ OnePerTopic(heap1)
       /\ \A k \in DOMAIN heap1 : heap1[k] \in E /\ Precedes(e, heap1[k])
       /\ \A i \in DOMAIN s.out : \A k \in DOMAIN heap1 : Precedes(s.out[i], heap1[k])
       /\ \A j \in DOMAIN rest : \E k \in DOMAIN heap1 : heap1[k] = rest[j]
       /\ e.k # Len(topics[e.topic].msgs) => \E k \in DOMAIN heap1 : heap1[k] = next
  <2>1. CASE e.k = Len(topics[e.topic].msgs) BY <1>3, <1>5, <1>51, <1>52, <2>1
  <2>2. CASE e.k # Len(topics[e.topic].msgs)
    <3>1. next \in E /\ e.key <= next.key /\ next.topic = e.topic /\ e.k < next.k BY <1>4, <2>2
    <3> DEFINE p == Pushed(rest, next)
    <3>2. p \in Seq(E) /\ IsHeap(p) /\ \A k \in DOMAIN p : p[k] = next \/ \E j \in DOMAIN rest : p[k] = rest[j]
      BY <1>2, <1>3, <3>1, PushedFacts
    <3>3. \A k, l \in DOMAIN p : k # l =>
            \/ p[k] = next /\ \E j \in DOMAIN rest : p[l] = rest[j]
            \/ p[l] = next /\ \E j \in DOMAIN rest : p[k] = rest[j]
            \/ \E i, j \in DOMAIN rest : i # j /\ p[k] = rest[i] /\ p[l] = rest[j]
      BY <1>3, <3>1, PushedPairs
    <3>31. /\ \E k \in DOMAIN p : p[k] = next
           /\ \A j \in DOMAIN rest : \E k \in DOMAIN p : p[k] = rest[j]
      BY <1>3, <3>1, PushedPairs
    <3>4. heap1 = p BY <2>2
    <3> HIDE DEF p, heap1
    <3>5. OnePerTopic(p) BY <1>5, <1>51, <3>1, <3>3 DEF OnePerTopic
    <3>6. Precedes(e, next) BY <3>1 DEF Precedes
    <3>7. \A k \in DOMAIN p : p[k] \in E /\ Precedes(e, p[k]) BY <1>5, <3>1, <3>2, <3>6
    <3>8. ASSUME NEW i \in DOMAIN s.out PROVE Precedes(s.out[i], next)
      <4>1. Precedes(s.out[i], e) BY <1>1, <1>3
      <4>2. s.out[i] \in E BY <1>1
      <4> QED BY <1>2, <1>3, <3>1, <4>1, <4>2 DEF Precedes
    <3>9. \A i \in DOMAIN s.out : \A k \in DOMAIN p : Precedes(s.out[i], p[k]) BY <1>52, <3>2, <3>8
    <3> QED BY <3>2, <3>31, <3>4, <3>5, <3>7, <3>9
  <2> QED BY <2>1, <2>2
<1>6. /\ out \in Seq(E) /\ DOMAIN out = 1 .. Len(s.out) + 1 /\ Len(s.out) \in Nat
      /\ \A i \in DOMAIN s.out : out[i] = s.out[i]
      /\ out[Len(s.out) + 1] = e
      /\ DOMAIN s.out = 1 .. Len(s.out)
  BY <1>1, <1>3
<1> DEFINE n == Len(s.out)
<1> HIDE DEF out, heap1
<1>7. \A i \in 1 .. n : Precedes(s.out[i], e) BY <1>1, <1>3, <1>6
<1>8. \A i \in DOMAIN out : \A j \in DOMAIN heap1 : Precedes(out[i], heap1[j])
  <2> TAKE i \in DOMAIN out
  <2>1. i \in 1 .. n \/ i = n + 1 BY <1>6
  <2> QED BY <1>53, <1>6, <2>1
<1>9. \A i, j \in DOMAIN out : i < j => Precedes(out[i], out[j])
  <2> SUFFICES ASSUME NEW i \in DOMAIN out, NEW j \in DOMAIN out, i < j PROVE Precedes(out[i], out[j]) OBVIOUS
  <2>1. i \in 1 .. n BY <1>6
  <2>2. CASE j = n + 1 BY <1>6, <1>7, <2>1, <2>2
  <2>3. CASE j \in 1 .. n
    <3>1. Precedes(s.out[i], s.out[j]) BY <1>1, <1>6, <2>1, <2>3
    <3> QED BY <1>6, <2>1, <2>3, <3>1
  <2> QED BY <1>6, <2>2, <2>3
<1>11. MergeTurn(topics, s) = [out |-> out, heap |-> heap1] BY DEF MergeTurn, out, heap1, e, rest, next
<1>12. [out |-> out, heap |-> heap1] \in [out : Seq(E), heap : Seq(E)] BY <1>53, <1>6
<1>13. ASSUME NEW x \in E PROVE Accounted(x, out, heap1)
  <2>1. CASE \E i \in DOMAIN s.out : s.out[i] = x BY <1>6, <2>1 DEF Accounted
  <2>2. ASSUME NEW j \in DOMAIN s.heap, s.heap[j].topic = x.topic, s.heap[j].k <= x.k
        PROVE  Accounted(x, out, heap1)
    <3>1. CASE j # 1
      <4>1. PICK k \in DOMAIN rest : rest[k] = s.heap[j] BY <1>31, <3>1
      <4>2. PICK l \in DOMAIN heap1 : heap1[l] = rest[k] BY <1>53
      <4> QED BY <2>2, <4>1, <4>2 DEF Accounted
    <3>2. CASE j = 1 /\ x.k = e.k
      <4>1. x = e BY <1>3, <1>41, <2>2, <3>2
      <4>2. n + 1 \in DOMAIN out /\ out[n + 1] = x BY <1>6, <4>1
      <4> QED BY <4>2 DEF Accounted
    <3>3. CASE j = 1 /\ x.k # e.k
      <4>1. e.topic = x.topic /\ e.k < x.k BY <1>2, <1>3, <2>2, <3>3
      <4>2. e.k # Len(topics[e.topic].msgs) /\ next.k <= x.k BY <1>42, <4>1
      <4>3. next.topic = e.topic BY <1>4, <4>2
      <4>4. PICK k \in DOMAIN heap1 : heap1[k] = next BY <1>53, <4>2
      <4> QED BY <4>1, <4>2, <4>3, <4>4 DEF Accounted
    <3> QED BY <3>1, <3>2, <3>3
  <2> QED BY <1>1, <2>1, <2>2 DEF Accounted
<1> QED BY <1>53, <1>8, <1>9, <1>11, <1>12, <1>13 DEF Merging

(* The entries of a chunk all come out, in the order of their offsets,     *)
(* those of a topic as they were written.                                  *)
LEMMA MergedFacts ==
  ASSUME NEW topics \in Seq(TopicIndex), OffsetsAscend(topics)
  PROVE  /\ Merged(topics) \in Seq(EntriesOf(topics))
         /\ \A i, j \in DOMAIN Merged(topics) : i < j => Precedes(Merged(topics)[i], Merged(topics)[j])
         /\ \A e \in EntriesOf(topics) : \E i \in DOMAIN Merged(topics) : Merged(topics)[i] = e
<1> DEFINE E == EntriesOf(topics)
           c == Cardinality(AllEntries(topics))
           X == Merging(E)
           start == [out |-> <<>>, heap |-> FirstHeap(topics)]
           step == [n \in 1 .. c |-> [s \in X |-> MergeTurn(topics, s)]]
           Follows(f) == f = [n \in 0 .. c |-> IF n = 0 THEN start ELSE MergeTurn(topics, f[n - 1])]
           after == CHOOSE f : Follows(f)
<1>1. c \in Nat /\ IsFiniteSet(AllEntries(topics)) BY EntriesAreFinite
<1>2. start \in X
  <2>1. /\ FirstHeap(topics) \in Seq(E) /\ IsHeap(FirstHeap(topics)) /\ OnePerTopic(FirstHeap(topics))
        /\ \A e \in E : Accounted(e, <<>>, FirstHeap(topics))
    BY FirstHeapFacts
  <2> HIDE DEF E
  <2> QED BY <2>1 DEF Merging
<1>3. \A s \in X : MergeTurn(topics, s) \in X BY TurnMerges
<1>4. Merged(topics) = after[c].out BY DEF Merged, FirstHeap, MergeTurn
<1>41. start.out = <<>> OBVIOUS
<1>42. \A s \in X : s.heap # <<>> => Len(MergeTurn(topics, s).out) = Len(s.out) + 1
  <2> SUFFICES ASSUME NEW s \in X, s.heap # <<>> PROVE Len(MergeTurn(topics, s).out) = Len(s.out) + 1 OBVIOUS
  <2>1. MergeTurn(topics, s).out = Append(s.out, Head(s.heap)) BY DEF MergeTurn
  <2>2. s.out \in Seq(E) /\ s.heap \in Seq(E) BY DEF Merging
  <2> HIDE DEF E
  <2>3. Head(s.heap) \in E BY <2>2
  <2> QED BY <2>1, <2>2, <2>3
<1>43. \A s \in X : s.heap = <<>> => MergeTurn(topics, s) = s BY DEF MergeTurn
<1> HIDE DEF c, X, start
<1>5. Stays(X, step, c) BY <1>3 DEF Stays
<1>6. PICK h : Steps(h, X, start, step, c)
  <2> HIDE DEF step
  <2> QED BY <1>1, <1>2, <1>5, StepByStep
<1>7. h \in [0 .. c -> X] /\ h[0] = start /\ \A n \in 1 .. c : h[n] = step[n][h[n - 1]] BY <1>6 DEF Steps
<1>8. ASSUME NEW n \in 1 .. c PROVE h[n] = MergeTurn(topics, h[n - 1])
  <2>1. n - 1 \in 0 .. c BY <1>1
  <2>2. h[n - 1] \in X BY <1>7, <2>1
  <2> QED BY <1>7, <2>2
<1>9. Follows(h)
  <2>1. \A n \in 0 .. c : h[n] = IF n = 0 THEN start ELSE MergeTurn(topics, h[n - 1])
    <3> SUFFICES ASSUME NEW n \in 0 .. c, n # 0 PROVE h[n] = MergeTurn(topics, h[n - 1]) BY <1>7
    <3>1. n \in 1 .. c BY <1>1
    <3> QED BY <1>8, <3>1
  <2>2. h = [n \in 0 .. c |-> h[n]] BY <1>7
  <2> QED BY <2>1, <2>2
<1>10. Follows(after)
  <2> HIDE DEF Follows
  <2> QED BY <1>9
<1> HIDE DEF after
<1>11. after[c] = h[c]
  <2> DEFINE S == {n \in Nat : n <= c => after[n] = h[n]}
  <2>0. \A n \in 0 .. c : after[n] = IF n = 0 THEN start ELSE MergeTurn(topics, after[n - 1]) BY <1>10
  <2>1. 0 \in S BY <1>1, <1>7, <2>0
  <2>2. ASSUME NEW n \in Nat, n \in S PROVE n + 1 \in S
    <3> SUFFICES ASSUME n + 1 <= c PROVE after[n + 1] = h[n + 1] OBVIOUS
    <3> DEFINE t == n + 1
    <3>1. t \in 1 .. c /\ t \in 0 .. c /\ t # 0 /\ t - 1 = n /\ after[n] = h[n] BY <1>1, <2>2
    <3> HIDE DEF t
    <3>2. after[t] = MergeTurn(topics, after[t - 1]) BY <2>0, <3>1
    <3>3. h[t] = MergeTurn(topics, h[t - 1]) BY <1>8, <3>1
    <3>4. after[t] = h[t] BY <3>1, <3>2, <3>3
    <3> QED BY <3>4 DEF t
  <2> HIDE DEF S
  <2>3. Nat \subseteq S BY <2>1, <2>2, AllNumbers
  <2> QED BY <1>1, <2>3 DEF S
<1>12. h[c] \in X BY <1>1, <1>7
<1>13. Merged(topics) = h[c].out BY <1>4, <1>11
<1> DEFINE out == h[c].out
<1>14. out \in Seq(E) /\ \A i, j \in DOMAIN out : i < j => Precedes(out[i], out[j])
  <2> HIDE DEF E
  <2> QED BY <1>12 DEF X, Merging
<1>15. Len(h[c].out) = c \/ h[c].heap = <<>>
  <2> DEFINE S == {n \in Nat : n <= c => Len(h[n].out) = n \/ h[n].heap = <<>>}
  <2>1. 0 \in S BY <1>7, <1>41
  <2>2. ASSUME NEW n \in Nat, n \in S PROVE n + 1 \in S
    <3> SUFFICES ASSUME n + 1 <= c PROVE Len(h[n + 1].out) = n + 1 \/ h[n + 1].heap = <<>> OBVIOUS
    <3> DEFINE t == n + 1
    <3>1. t \in 1 .. c /\ n \in 0 .. c /\ t - 1 = n BY <1>1
    <3> HIDE DEF t
    <3>2. h[t] = MergeTurn(topics, h[n]) /\ h[n] \in X BY <1>7, <1>8, <3>1
    <3>3. Len(h[n].out) = n \/ h[n].heap = <<>> BY <1>1, <2>2, <3>1
    <3>4. Len(h[t].out) = n + 1 \/ h[t].heap = <<>> BY <1>42, <1>43, <3>2, <3>3
    <3> QED BY <3>4 DEF t
  <2> HIDE DEF S
  <2>3. Nat \subseteq S BY <2>1, <2>2, AllNumbers
  <2> QED BY <1>1, <2>3 DEF S
<1> DEFINE A == AllEntries(topics)
           heap0 == h[c].heap
<1>16. /\ heap0 \in Seq(E)
       /\ \A i \in DOMAIN out : \A j \in DOMAIN heap0 : Precedes(out[i], heap0[j])
       /\ \A e \in E : Accounted(e, out, heap0)
  <2> HIDE DEF E
  <2> QED BY <1>12 DEF X, Merging
<1>17. \A e \in E : e.k \in Nat /\ <<e.topic, e.k>> \in A
  <2> TAKE e \in E
  <2>1. e.topic \in DOMAIN topics /\ e.k \in DOMAIN topics[e.topic].msgs /\ e.k \in Nat BY EntryFacts, EntryTypes
  <2> QED BY <2>1 DEF AllEntries
<1>18. c = Cardinality(A) BY DEF c
<1> HIDE DEF E, out, heap0, A
<1>19. heap0 = <<>>
  <2> SUFFICES ASSUME heap0 # <<>> PROVE FALSE OBVIOUS
  <2>1. Len(out) = c BY <1>15 DEF out, heap0
  <2>2. DOMAIN out = 1 .. c /\ \A i \in 1 .. c : out[i] \in E BY <1>14, <2>1
  <2>3. 1 \in DOMAIN heap0 /\ heap0[1] \in E BY <1>16
  <2> DEFINE f == [i \in 1 .. c |-> <<out[i].topic, out[i].k>>]
             D == 1 .. c
  <2>4. f \in [D -> A] BY <1>17, <2>2
  <2>5. \A i, j \in D : f[i] = f[j] => i = j
    <3> SUFFICES ASSUME NEW i \in D, NEW j \in D, f[i] = f[j], i < j PROVE FALSE BY <1>1
    <3>1. Precedes(out[i], out[j]) BY <1>14, <2>2
    <3>2. out[i].topic = out[j].topic /\ out[i].k = out[j].k OBVIOUS
    <3>3. out[i].k \in Nat BY <1>17, <2>2
    <3> QED BY <3>1, <3>2, <3>3 DEF Precedes
  <2>6. f \in Injection(D, A)
    <3> HIDE DEF f, D
    <3>1. DOMAIN f = D BY <2>4
    <3> QED BY <2>4, <2>5, <3>1 DEF Injection, IsInjective
  <2>7. Cardinality(D) = c BY <1>1, FS_Interval
  <2> DEFINE p == <<heap0[1].topic, heap0[1].k>>
  <2>8. f \in Surjection(D, A)
    <3> HIDE DEF f, D
    <3> QED BY <1>1, <1>18, <2>6, <2>7, FS_Injection DEF A
  <2>9. p \in A BY <1>17, <2>3
  <2>10. PICK i \in D : f[i] = p
    <3> HIDE DEF f, D, p
    <3> QED BY <2>8, <2>9 DEF Surjection
  <2>11. out[i].topic = heap0[1].topic /\ out[i].k = heap0[1].k BY <2>10
  <2>12. Precedes(out[i], heap0[1]) BY <1>16, <2>2, <2>3
  <2>13. heap0[1].k \in Nat BY <1>17, <2>3
  <2> QED BY <2>11, <2>12, <2>13 DEF Precedes
<1>20. \A e \in E : \E i \in DOMAIN out : out[i] = e BY <1>16, <1>19 DEF Accounted
<1> QED BY <1>13, <1>14, <1>20 DEF out, E
-----------------------------------------------------------------------------
(* What is kept of a chunk. *)

KeptMessage == [id : Nat, ts : Int, off : Nat, len : Nat]

(* Messages of a chunk in the order they were written, each within its     *)
(* bytes and before the next.                                              *)
FromChunk(s, c, ids) ==
  /\ s \in Seq(KeptMessage)
  /\ \A k \in DOMAIN s : /\ s[k].id \in ids
                         /\ c.start <= s[k].ts /\ s[k].ts <= c.end
                         /\ s[k].off + s[k].len <= c.ulen
  /\ \A j, k \in DOMAIN s : j < k => s[j].off + s[j].len <= s[k].off
  /\ TiesAgree(c) => \A j, k \in DOMAIN s : j < k => s[j].ts <= s[k].ts

LEMMA ChunkTypes ==
  ASSUME NEW c \in Chunk
  PROVE  /\ c.start \in Int /\ c.end \in Int /\ c.index \in Nat /\ c.off \in Nat /\ c.len \in Nat
         /\ c.ulen \in Nat /\ c.topics \in Seq(TopicIndex)
BY DEF Chunk

LEMMA AllFromChunk ==
  ASSUME NEW c \in Chunk, NEW ids, ChunkInOrder(c, ids)
  PROVE  FromChunk(WithLengths(Merged(c.topics), c.ulen), c, ids)
<1> DEFINE topics == c.topics
           E == EntriesOf(topics)
           m == Merged(topics)
           u == c.ulen
           all == WithLengths(m, u)
           TopicOf(e) == topics[e.topic]
           At(e) == topics[e.topic].msgs[e.k]
<1>1. topics \in Seq(TopicIndex) /\ u \in Nat /\ c.start \in Int /\ c.end \in Int BY ChunkTypes
<1>2. \A t \in DOMAIN topics : topics[t] \in ToSet(topics) BY DEF ToSet
<1>3. OffsetsAscend(topics) BY <1>2 DEF OffsetsAscend, ChunkInOrder
<1>4. m \in Seq(E) /\ \A i, j \in DOMAIN m : i < j => Precedes(m[i], m[j]) BY <1>1, <1>3, MergedFacts
<1>5. ASSUME NEW e \in E
      PROVE  /\ e.key \in Nat /\ e.off = e.key /\ e.ts \in Int /\ e.id \in Nat /\ e.k \in Nat
             /\ e.topic \in DOMAIN topics /\ e.k \in DOMAIN TopicOf(e).msgs
             /\ At(e) \in ToSet(TopicOf(e).msgs) /\ TopicOf(e) \in ToSet(topics)
             /\ e.off = At(e).off /\ e.ts = At(e).ts /\ e.id = TopicOf(e).id
             /\ e.id \in ids /\ c.start <= e.ts /\ e.ts <= c.end /\ e.off <= u
  <2>1. e.topic \in DOMAIN topics /\ e.k \in DOMAIN TopicOf(e).msgs BY <1>1, EntryFacts
  <2>2. /\ e.key \in Nat /\ e.off = e.key /\ e.ts \in Int /\ e.id \in Nat /\ e.k \in Nat
        /\ e.off = At(e).off /\ e.ts = At(e).ts /\ e.id = TopicOf(e).id
    BY <1>1, EntryTypes
  <2>3. At(e) \in ToSet(TopicOf(e).msgs) /\ TopicOf(e) \in ToSet(topics) BY <1>2, <2>1 DEF ToSet
  <2>4. /\ TopicOf(e).id \in ids
        /\ c.start <= At(e).ts /\ At(e).ts <= c.end /\ At(e).off <= u
    BY <2>1, <2>3 DEF ChunkInOrder
  <2> QED BY <2>1, <2>2, <2>3, <2>4
<1>6. ASSUME NEW e \in E, NEW f \in E, Precedes(e, f)
      PROVE  e.off <= f.off /\ (TiesAgree(c) => e.ts <= f.ts)
  <2> DEFINE se == TopicOf(e).msgs
             sf == TopicOf(f).msgs
  <2>1. e.off <= f.off BY <1>5, <1>6 DEF Precedes
  <2>2. CASE e.off < f.off
    <3>1. At(e).ts <= At(f).ts BY <1>5, <2>2 DEF ChunkInOrder
    <3> QED BY <1>5, <2>1, <3>1
  <2>3. CASE e.off = f.off /\ e.topic = f.topic
    <3>1. e.k <= f.k /\ e.k \in DOMAIN se /\ f.k \in DOMAIN se BY <1>5, <1>6, <2>3 DEF Precedes
    <3>2. Ascending(Stamps(se)) BY <1>5 DEF ChunkInOrder
    <3>3. Stamps(se)[e.k] <= Stamps(se)[f.k]
      <4>1. DOMAIN Stamps(se) = DOMAIN se BY DEF Stamps
      <4> HIDE DEF se
      <4> QED BY <3>1, <3>2, <4>1 DEF Ascending
    <3>4. Stamps(se)[e.k] = At(e).ts /\ Stamps(se)[f.k] = At(f).ts BY <2>3, <3>1 DEF Stamps
    <3> QED BY <1>5, <2>1, <3>3, <3>4
  <2>4. CASE e.off = f.off /\ e.topic # f.topic
    <3>1. TiesAgree(c) => At(e).ts = At(f).ts
      <4>1. /\ e.topic \in DOMAIN c.topics /\ f.topic \in DOMAIN c.topics
            /\ At(e) \in ToSet(c.topics[e.topic].msgs) /\ At(f) \in ToSet(c.topics[f.topic].msgs)
            /\ At(e).off = At(f).off
        BY <1>5, <2>4
      <4> HIDE DEF At, TopicOf, topics
      <4> QED BY <2>4, <4>1 DEF TiesAgree
    <3>2. e.ts \in Int /\ e.ts = At(e).ts /\ f.ts = At(f).ts BY <1>5
    <3> QED BY <2>1, <3>1, <3>2
  <2>5. e.off \in Nat /\ f.off \in Nat BY <1>5
  <2> QED BY <2>1, <2>2, <2>3, <2>4, <2>5
<1> HIDE DEF E, m, u, topics, At, TopicOf
<1> DEFINE l == Len(m)
<1>7. l \in Nat /\ DOMAIN m = 1 .. l /\ \A k \in 1 .. l : m[k] \in E BY <1>4
<1> HIDE DEF l
<1>8. ASSUME NEW k \in 1 .. l
      PROVE  /\ EndOf(m, k, u) \in Nat /\ m[k].off <= EndOf(m, k, u) /\ EndOf(m, k, u) <= u
             /\ \A j \in 1 .. l : k < j => EndOf(m, k, u) <= m[j].off
  <2>1. CASE k < l
    <3> DEFINE n == k + 1
    <3>1. n \in 1 .. l /\ k < n /\ \A j \in 1 .. l : k < j => j = n \/ n < j BY <1>7, <2>1
    <3>2. EndOf(m, k, u) = m[n].off BY <2>1 DEF EndOf, l
    <3> HIDE DEF n
    <3>3. m[k].off <= m[n].off BY <1>4, <1>6, <1>7, <3>1
    <3>4. m[n].off \in Nat /\ m[n].off <= u BY <1>5, <1>7, <3>1
    <3>5. ASSUME NEW j \in 1 .. l, k < j PROVE m[n].off <= m[j].off
      <4>1. CASE j = n BY <3>4, <4>1
      <4>2. CASE n < j BY <1>4, <1>6, <1>7, <3>1, <4>2
      <4> QED BY <3>1, <3>5, <4>1, <4>2
    <3> QED BY <3>2, <3>3, <3>4, <3>5
  <2>2. CASE k = l
    <3>1. EndOf(m, k, u) = u BY <2>2, <1>7 DEF EndOf, l
    <3> QED BY <1>1, <1>5, <1>7, <2>2, <3>1
  <2> QED BY <1>7, <2>1, <2>2
<1>9. /\ DOMAIN all = 1 .. l
      /\ \A k \in 1 .. l : all[k] = [id |-> m[k].id, ts |-> m[k].ts, off |-> m[k].off,
                                     len |-> EndOf(m, k, u) - m[k].off]
  BY <1>7 DEF WithLengths
<1> HIDE DEF all
<1>10. ASSUME NEW k \in 1 .. l
       PROVE  /\ all[k].id = m[k].id /\ all[k].ts = m[k].ts /\ all[k].off = m[k].off
              /\ all[k] \in KeptMessage
              /\ all[k].off + all[k].len = EndOf(m, k, u)
  <2>1. /\ m[k] \in E /\ m[k].id \in Nat /\ m[k].ts \in Int /\ m[k].off \in Nat /\ EndOf(m, k, u) \in Nat
        /\ m[k].off <= EndOf(m, k, u)
    <3>1. m[k] \in E BY <1>7
    <3> QED BY <1>5, <1>8, <3>1
  <2>2. EndOf(m, k, u) - m[k].off \in Nat BY <2>1
  <2>3. all[k].id = m[k].id /\ all[k].ts = m[k].ts /\ all[k].off = m[k].off
        /\ all[k].len = EndOf(m, k, u) - m[k].off
    BY <1>9
  <2>4. all[k] \in KeptMessage BY <1>9, <2>1, <2>2 DEF KeptMessage
  <2> QED BY <2>1, <2>3, <2>4
<1>11. all \in Seq(KeptMessage)
  <2>1. all = [k \in 1 .. l |-> all[k]] BY <1>9 DEF all, WithLengths
  <2>2. \A k \in 1 .. l : all[k] \in KeptMessage BY <1>10
  <2> QED BY <1>7, <2>1, <2>2
<1>12. \A k \in DOMAIN all : /\ all[k].id \in ids /\ c.start <= all[k].ts /\ all[k].ts <= c.end
                            /\ all[k].off + all[k].len <= u
  BY <1>5, <1>7, <1>8, <1>9, <1>10
<1>13. ASSUME NEW j \in DOMAIN all, NEW k \in DOMAIN all, j < k
       PROVE  all[j].off + all[j].len <= all[k].off /\ (TiesAgree(c) => all[j].ts <= all[k].ts)
  <2>1. j \in 1 .. l /\ k \in 1 .. l /\ m[j] \in E /\ m[k] \in E BY <1>7, <1>9
  <2>2. Precedes(m[j], m[k]) BY <1>4, <1>7, <1>13, <2>1
  <2>3. TiesAgree(c) => m[j].ts <= m[k].ts BY <1>6, <2>1, <2>2
  <2>4. EndOf(m, j, u) <= m[k].off BY <1>8, <1>13, <2>1
  <2> QED BY <1>10, <2>1, <2>3, <2>4
<1> QED BY <1>11, <1>12, <1>13 DEF FromChunk, u, all, m, topics

LEMMA PickedFromChunk ==
  ASSUME NEW c, NEW ids, NEW s, FromChunk(s, c, ids), NEW S, S \subseteq DOMAIN s
  PROVE  FromChunk(Picked(s, S), c, ids)
<1> DEFINE p == Picked(s, S)
           a == Arranged(S)
<1>1. s \in Seq(KeptMessage) BY DEF FromChunk
<1>2. /\ p \in Seq(KeptMessage)
      /\ \A i \in DOMAIN p : a[i] \in S /\ p[i] = s[a[i]]
      /\ \A i, j \in DOMAIN p : i < j => a[i] < a[j]
  BY <1>1, PickedFacts
<1> HIDE DEF p, a
<1>3. \A i \in DOMAIN p : a[i] \in DOMAIN s /\ p[i] = s[a[i]] BY <1>2
<1> QED BY <1>2, <1>3 DEF FromChunk, p

(* What the files promise. *)
LEMMA FileFacts ==
  ASSUME file \in Files
  PROVE  /\ file \in Seq(Group) /\ DOMAIN file \subseteq Nat
         /\ \A g \in DOMAIN file :
              /\ file[g].chunks \in Seq(Chunk)
              /\ \A i \in DOMAIN file[g].chunks :
                   /\ file[g].chunks[i] \in Chunk
                   /\ ChunkInOrder(file[g].chunks[i], file[g].ids)
                   /\ ~file[g].compressed => file[g].chunks[i].len = file[g].chunks[i].ulen
              /\ \A i, j \in DOMAIN file[g].chunks : i < j =>
                   /\ file[g].chunks[i].end <= file[g].chunks[j].start
                   /\ file[g].chunks[i].index <= file[g].chunks[j].index
                   /\ file[g].chunks[i].off + file[g].chunks[i].len <= file[g].chunks[j].off
         /\ \A g, h \in DOMAIN file : g < h =>
              \A c \in ToSet(file[g].chunks), d \in ToSet(file[h].chunks) :
                c.index <= d.index /\ c.off + c.len <= d.off
<1>1. file \in Seq(Group) /\ InOrder(file) BY IteratorAssumption
<1>2. \A g \in DOMAIN file : file[g].chunks \in Seq(Chunk)
  <2> TAKE g \in DOMAIN file
  <2>1. file[g] \in Group BY <1>1
  <2> QED BY <2>1 DEF Group
<1>3. \A g \in DOMAIN file : \A i \in DOMAIN file[g].chunks : file[g].chunks[i] \in Chunk BY <1>2
<1> QED BY <1>1, <1>2, <1>3 DEF InOrder

LEMMA KeptFacts ==
  ASSUME file \in Files, NEW g \in DOMAIN file, NEW i \in DOMAIN file[g].chunks
  PROVE  FromChunk(Kept(g, i), file[g].chunks[i], file[g].ids)
<1> DEFINE c == file[g].chunks[i]
           all == WithLengths(Merged(c.topics), c.ulen)
           v == query.videoDecodable /\ file[g].video
           from == IF v THEN KeyFrameStart(c.topics, query.start) ELSE query.start
           S == {k \in DOMAIN all : all[k].id \in query.ids /\ from <= all[k].ts /\ all[k].ts <= query.end}
<1>1. c \in Chunk /\ ChunkInOrder(c, file[g].ids) BY FileFacts
<1>2. Kept(g, i) = Picked(all, S) BY DEF Kept, SortAndFilter
<1> HIDE DEF c
<1>3. FromChunk(all, c, file[g].ids) BY <1>1, AllFromChunk
<1>4. S \subseteq DOMAIN all OBVIOUS
<1> HIDE DEF all, S
<1> QED BY <1>2, <1>3, <1>4, PickedFromChunk DEF c

(* The places of some chunks of a group, in order. *)
Places(s, g) ==
  /\ s \in Seq(DOMAIN file[g].chunks)
  /\ \A m, n \in DOMAIN s : m < n => s[m] < s[n]

LEMMA ArrangedPlaces ==
  ASSUME file \in Files, NEW g \in DOMAIN file, NEW S \in SUBSET DOMAIN file[g].chunks
  PROVE  Places(Arranged(S), g)
<1> DEFINE c == file[g].chunks
<1>1. c \in Seq(Chunk) BY FileFacts
<1>2. DOMAIN c = 1 .. Len(c) /\ Len(c) \in Int BY <1>1
<1> HIDE DEF c
<1>3. S \in SUBSET (1 .. Len(c)) BY <1>2 DEF c
<1>4. IsFiniteSet(S) BY <1>2, <1>3, FS_Interval, FS_Subset
<1>5. S \subseteq Int BY <1>3
<1>6. /\ Arranged(S) \in Seq(S)
      /\ \A i, j \in DOMAIN Arranged(S) : i < j => Arranged(S)[i] < Arranged(S)[j]
  BY <1>4, <1>5, ArrangedFacts
<1>7. Arranged(S) \in Seq(DOMAIN file[g].chunks) BY <1>6
<1> QED BY <1>6, <1>7 DEF Places

LEMMA ChunksFacts ==
  ASSUME file \in Files, NEW g \in DOMAIN file
  PROVE  Places(Chunks(g), g) /\ Places(KeptChunks(g), g)
<1>1. Places(Chunks(g), g) BY ArrangedPlaces DEF Chunks
<1>2. ToSet(Chunks(g)) \subseteq DOMAIN file[g].chunks BY <1>1 DEF Places, ToSet
<1>3. {i \in ToSet(Chunks(g)) : Kept(g, i) # <<>>} \in SUBSET DOMAIN file[g].chunks BY <1>2
<1> QED BY <1>1, <1>3, ArrangedPlaces DEF KeptChunks

(* Groups, in order. *)
LEMMA GroupsFacts ==
  ASSUME file \in Files, NEW S \in SUBSET DOMAIN file
  PROVE  /\ Arranged(S) \in Seq(DOMAIN file)
         /\ \A m, n \in DOMAIN Arranged(S) : m < n => Arranged(S)[m] < Arranged(S)[n]
         /\ \A n \in DOMAIN Arranged(S) : Arranged(S)[n] \in S
<1>1. DOMAIN file = 1 .. Len(file) /\ Len(file) \in Int BY FileFacts
<1>2. IsFiniteSet(S) BY <1>1, FS_Interval, FS_Subset
<1>3. S \subseteq Int BY <1>1
<1>4. /\ Arranged(S) \in Seq(S)
      /\ \A i, j \in DOMAIN Arranged(S) : i < j => Arranged(S)[i] < Arranged(S)[j]
  BY <1>2, <1>3, ArrangedFacts
<1>5. Arranged(S) \in Seq(DOMAIN file) /\ \A n \in DOMAIN Arranged(S) : Arranged(S)[n] \in S BY <1>4
<1> QED BY <1>4, <1>5

(* The groups that get an iterator. *)
Planned ==
  IF query.costAware THEN Arranged({g \in ToSet(Scoped) : KeptChunks(g) # <<>>})
  ELSE IF sdk = "go" THEN Matching ELSE Scoped

LEMMA ScopedFacts ==
  ASSUME file \in Files
  PROVE  /\ Matching \in Seq(DOMAIN file) /\ Scoped \in Seq(DOMAIN file) /\ Planned \in Seq(DOMAIN file)
         /\ \A m, n \in DOMAIN Scoped : m < n => Scoped[m] < Scoped[n]
         /\ query.costAware => \A k \in DOMAIN Planned : KeptChunks(Planned[k]) # <<>>
<1>1. Matching \in Seq(DOMAIN file) BY GroupsFacts DEF Matching
<1>2. Scoped \in Seq(DOMAIN file) /\ \A m, n \in DOMAIN Scoped : m < n => Scoped[m] < Scoped[n]
  BY GroupsFacts DEF Scoped
<1> DEFINE S == {g \in ToSet(Scoped) : KeptChunks(g) # <<>>}
<1>3. S \in SUBSET DOMAIN file BY <1>2 DEF ToSet
<1>4. Arranged(S) \in Seq(DOMAIN file) /\ \A n \in DOMAIN Arranged(S) : KeptChunks(Arranged(S)[n]) # <<>>
  BY <1>3, GroupsFacts
<1> QED BY <1>1, <1>2, <1>4 DEF Planned
-----------------------------------------------------------------------------
(* The iterators. *)

IsSeq(s) == s \in Seq({s[k] : k \in DOMAIN s})

(* What cannot change in an iterator, and where its cursors may be. *)
IterOK(i) ==
  /\ i.group \in DOMAIN file
  /\ i.chunks \in Seq(DOMAIN file[i.group].chunks)
  /\ \A m, n \in DOMAIN i.chunks : m < n => i.chunks[m] < i.chunks[n]
  /\ i.next \in 0 .. Len(i.chunks) + 1
  /\ i.kept = <<>> \/ \E n \in DOMAIN i.chunks : i.kept = Kept(i.group, i.chunks[n])
  /\ i.cur \in Int
  /\ i.buf \in {-1, 0} \cup ToSet(i.chunks)

IterType == [group : Nat, chunks : Seq(Nat), next : Int, kept : Seq(KeptMessage), cur : Int, buf : Int]

(* The chunk whose kept messages an iterator serves, by its place. *)
KeptAt(i, n) == n \in DOMAIN i.chunks /\ i.kept = Kept(i.group, i.chunks[n])
Serving(i) == IF query.costAware THEN i.next ELSE i.next - Step

ItersOK ==
  /\ iters \in Seq(IterType) /\ \A k \in DOMAIN iters : IterOK(iters[k])
  /\ iters = <<>> \/ (DOMAIN iters = DOMAIN Planned /\ \A k \in DOMAIN iters : iters[k].group = Planned[k])
  /\ query.costAware => \A k \in DOMAIN iters : iters[k].kept = <<>> \/ KeptAt(iters[k], iters[k].next)

TypeInv ==
  /\ file \in Files /\ query \in Queries /\ sdk \in {"go", "ts", "py"}
  /\ pc \in {"start", "indexes", "data", "idle", "pull", "chunk", "pop", "refused", "panic"}
  /\ result \in {"none", "message", "eof", "error"}
  /\ loaded \in BOOLEAN /\ failed \in BOOLEAN
  /\ ItersOK
  /\ pulled \in 0 .. Len(iters) /\ popped.item.iter \in 0 .. Len(iters)
  /\ pc \in {"pull", "chunk"} => pulled # 0
  /\ pc \in {"indexes", "data"} => query.costAware
  /\ pc = "chunk" => /\ ~query.costAware
                     /\ KeptAt(it, it.next - Step) /\ it.kept # <<>>
                     /\ sdk # "ts" => it.cur = First(it.kept)

HeapInv ==
  /\ IsSeq(heap)
  /\ sdk # "py" => IsHeap(heap)
  /\ \A h \in DOMAIN heap : /\ heap[h].ts \in Int /\ heap[h].key = Key(heap[h].ts)
                            /\ heap[h].iter \in DOMAIN iters
                            /\ heap[h].id \in file[iters[heap[h].iter].group].ids

(* x is no later than any message that is still ahead of an iterator whose *)
(* cursor in the messages it serves is cur.                                *)
Ahead(n, from) == IF query.reverse THEN n <= from ELSE from <= n
NextOf(i) == IF query.costAware THEN i.next + Step ELSE i.next
Passes(i, cur, x) ==
  /\ \A m \in DOMAIN i.kept : Ahead(m, cur) => x <= Key(i.kept[m].ts)
  /\ \A n \in DOMAIN i.chunks : Ahead(n, NextOf(i)) =>
       \A m \in DOMAIN Kept(i.group, i.chunks[n]) : x <= Key(Kept(i.group, i.chunks[n])[m].ts)

Cursor(k) == IF pc = "chunk" /\ k = pulled THEN First(iters[k].kept) ELSE iters[k].cur

(* A message was popped and its group has not moved on. *)
Held == loaded /\ (pc \in {"pull", "chunk"} \/ (sdk = "py" /\ pc = "idle" /\ result = "message"))

(* As long as TypeScript has not failed. *)
PhaseInv ==
  /\ ~loaded => delivered = <<>>
  /\ pc = "pop" => loaded
  /\ pc \in {"start", "indexes", "data", "refused"} => heap = <<>> /\ ~loaded
  /\ sdk = "py" /\ loaded /\ pc = "idle" /\ ~failed => result \in {"message", "eof"}
  /\ sdk = "py" /\ failed => pc = "idle" /\ result \in {"error", "eof"}
  /\ \A k \in DOMAIN iters : iters[k].kept = <<>> \/ KeptAt(iters[k], Serving(iters[k]))

HeldInv ==
  Held => LET p == popped.item IN
    /\ p.ts \in Int /\ p.key = Key(p.ts) /\ p.iter \in DOMAIN iters
    /\ pc \in {"pull", "chunk"} => pulled = p.iter
    /\ \A h \in DOMAIN heap : p.key <= heap[h].key
    /\ Passes(iters[p.iter], Cursor(p.iter), p.key)
    /\ \A d \in DOMAIN delivered : Key(delivered[d].ts) <= p.key

Ordered(s) ==
  /\ IsSeq(s) /\ \A d \in DOMAIN s : s[d].ts \in Int
  /\ \A c, d \in DOMAIN s : c < d => Key(s[c].ts) <= Key(s[d].ts)

TimeInv ==
  /\ \A h \in DOMAIN heap : Passes(iters[heap[h].iter], Cursor(heap[h].iter), heap[h].key)
  /\ \A h \in DOMAIN heap : \A d \in DOMAIN delivered : Key(delivered[d].ts) <= heap[h].key
  /\ Ordered(delivered)

(* As long as no call has failed. *)
HasItem(k) == \E h \in DOMAIN heap : heap[h].iter = k
Spent(k) == iters[k].cur \notin DOMAIN iters[k].kept /\ iters[k].next \notin DOMAIN iters[k].chunks
ItemInv ==
  /\ \A k \in DOMAIN iters : Cursor(k) \in 0 .. Len(iters[k].kept) + 1
  /\ \A j, k \in DOMAIN heap : heap[j].iter = heap[k].iter => j = k
  /\ ~loaded /\ pc \in {"pull", "chunk"} =>
       /\ \A h \in DOMAIN heap : heap[h].iter < pulled
       /\ \A k \in DOMAIN iters : k < pulled => HasItem(k) \/ Spent(k)
  /\ ~loaded /\ pc \notin {"pull", "chunk", "panic"} => heap = <<>>
  /\ loaded /\ pc # "panic" => \A k \in DOMAIN iters : HasItem(k) \/ Spent(k) \/ (Held /\ k = popped.item.iter)
  /\ Held => /\ ~HasItem(popped.item.iter) /\ popped.item.iter \in DOMAIN iters
             /\ pc \in {"pull", "chunk"} => pulled = popped.item.iter

LEMMA KeyFacts ==
  ASSUME NEW x \in Int, NEW y \in Int, x <= y
  PROVE  Key(x) \in Int /\ Key(y) \in Int /\ IF query.reverse THEN Key(y) <= Key(x) ELSE Key(x) <= Key(y)
BY DEF Key

(* What is kept of a later chunk is no earlier. *)
LEMMA LaterChunk ==
  ASSUME file \in Files, NEW g \in DOMAIN file,
         NEW i \in DOMAIN file[g].chunks, NEW j \in DOMAIN file[g].chunks, i < j,
         NEW m \in DOMAIN Kept(g, i), NEW n \in DOMAIN Kept(g, j)
  PROVE  Kept(g, i)[m].ts \in Int /\ Kept(g, j)[n].ts \in Int /\ Kept(g, i)[m].ts <= Kept(g, j)[n].ts
<1> DEFINE c == file[g].chunks
           a == Kept(g, i)[m]
           b == Kept(g, j)[n]
<1>1. /\ FromChunk(Kept(g, i), c[i], file[g].ids) /\ FromChunk(Kept(g, j), c[j], file[g].ids) BY KeptFacts
<1>2. a \in KeptMessage /\ b \in KeptMessage /\ a.ts <= c[i].end /\ c[j].start <= b.ts
  BY <1>1 DEF FromChunk
<1>3. c[i].end <= c[j].start /\ c[i] \in Chunk /\ c[j] \in Chunk BY FileFacts
<1>4. c[i].end \in Int /\ c[j].start \in Int BY <1>3, ChunkTypes
<1>5. a.ts \in Int /\ b.ts \in Int BY <1>2 DEF KeptMessage
<1> HIDE DEF a, b, c
<1>6. a.ts <= b.ts BY <1>2, <1>3, <1>4, <1>5
<1> QED BY <1>5, <1>6 DEF a, b

LEMMA KeptTypes ==
  ASSUME file \in Files, NEW i, IterOK(i)
  PROVE  /\ i.kept \in Seq(KeptMessage) /\ DOMAIN i.kept \subseteq Int
         /\ \A m \in DOMAIN i.kept : i.kept[m].ts \in Int /\ Key(i.kept[m].ts) \in Int
         /\ \A n \in DOMAIN i.chunks : i.chunks[n] \in DOMAIN file[i.group].chunks
         /\ DOMAIN i.chunks \subseteq Int
<1>1. \A n \in DOMAIN i.chunks : i.chunks[n] \in DOMAIN file[i.group].chunks BY DEF IterOK
<1>2. i.kept \in Seq(KeptMessage)
  <2>1. CASE i.kept = <<>> BY <2>1
  <2>2. CASE i.kept # <<>>
    <3>1. PICK n \in DOMAIN i.chunks : i.kept = Kept(i.group, i.chunks[n]) BY <2>2 DEF IterOK
    <3>2. i.group \in DOMAIN file BY DEF IterOK
    <3>3. FromChunk(Kept(i.group, i.chunks[n]), file[i.group].chunks[i.chunks[n]], file[i.group].ids)
      BY <1>1, <3>2, KeptFacts
    <3> QED BY <3>1, <3>3 DEF FromChunk
  <2> QED BY <2>1, <2>2
<1>3. \A m \in DOMAIN i.kept : i.kept[m].ts \in Int
  <2>1. \A m \in DOMAIN i.kept : i.kept[m] \in KeptMessage BY <1>2
  <2> QED BY <2>1 DEF KeptMessage
<1>4. \A m \in DOMAIN i.kept : Key(i.kept[m].ts) \in Int BY <1>3 DEF Key
<1>5. DOMAIN i.kept \subseteq Int BY <1>2
<1>6. DOMAIN i.chunks \subseteq Int BY DEF IterOK
<1> QED BY <1>1, <1>2, <1>3, <1>4, <1>5, <1>6

(* The message under the cursor is no later than what comes after it. *)
LEMMA ServedFirst ==
  ASSUME file \in Files, TiesInFile, NEW i, IterOK(i), KeptAt(i, Serving(i)), NEW cur \in DOMAIN i.kept
  PROVE  Passes(i, cur + Step, Key(i.kept[cur].ts))
<1> DEFINE g == i.group
           at == i.chunks[Serving(i)]
           c == file[g].chunks
           x == i.kept[cur].ts
<1>1. /\ g \in DOMAIN file /\ Serving(i) \in DOMAIN i.chunks /\ at \in DOMAIN c
      /\ i.kept = Kept(g, at)
      /\ \A n \in DOMAIN i.chunks : i.chunks[n] \in DOMAIN c
      /\ \A m, n \in DOMAIN i.chunks : m < n => i.chunks[m] < i.chunks[n]
      /\ DOMAIN i.kept \subseteq Int /\ DOMAIN i.chunks \subseteq Int
      /\ \A m \in DOMAIN i.kept : i.kept[m].ts \in Int
  BY KeptTypes DEF IterOK, KeptAt
<1>2. \A j, k \in DOMAIN i.kept : j < k => i.kept[j].ts <= i.kept[k].ts
  <2>1. FromChunk(Kept(g, at), c[at], file[g].ids) BY <1>1, KeptFacts
  <2>2. TiesAgree(c[at]) BY <1>1 DEF TiesInFile, ToSet
  <2> QED BY <1>1, <2>1, <2>2 DEF FromChunk
<1>3. ASSUME NEW m \in DOMAIN i.kept, Ahead(m, cur + Step) PROVE Key(x) <= Key(i.kept[m].ts)
  <2>1. m \in Int /\ cur \in Int BY <1>1
  <2>2. IF query.reverse THEN m < cur ELSE cur < m BY <1>3, <2>1 DEF Ahead, Step
  <2>3. IF query.reverse THEN i.kept[m].ts <= x ELSE x <= i.kept[m].ts BY <1>2, <2>2
  <2>4. x \in Int /\ i.kept[m].ts \in Int BY <1>1
  <2> QED BY <2>3, <2>4 DEF Key
<1>4. ASSUME NEW n \in DOMAIN i.chunks, Ahead(n, NextOf(i)), NEW m \in DOMAIN Kept(g, i.chunks[n])
      PROVE  Key(x) <= Key(Kept(g, i.chunks[n])[m].ts)
  <2> DEFINE s == Serving(i)
             y == Kept(g, i.chunks[n])[m].ts
  <2>1. IF query.reverse THEN n < s ELSE s < n
    <3>1. NextOf(i) = s + Step /\ s \in Int /\ n \in Int
      <4>1. i.next \in Int BY DEF IterOK
      <4>2. NextOf(i) = s + Step BY <4>1 DEF NextOf, Serving, Step
      <4> QED BY <1>1, <4>2
    <3> HIDE DEF s
    <3> QED BY <1>4, <3>1 DEF Ahead, Step
  <2>2. s \in DOMAIN i.chunks /\ i.chunks[n] \in DOMAIN c /\ at = i.chunks[s] BY <1>1
  <2> HIDE DEF s, at
  <2>3. CASE query.reverse
    <3>1. i.chunks[n] < at BY <1>1, <2>1, <2>2, <2>3
    <3>2. y <= x /\ x \in Int /\ y \in Int BY <1>1, <2>2, <3>1, LaterChunk
    <3> QED BY <2>3, <3>2 DEF Key
  <2>4. CASE ~query.reverse
    <3>1. at < i.chunks[n] BY <1>1, <2>1, <2>2, <2>4
    <3>2. x <= y /\ x \in Int /\ y \in Int BY <1>1, <2>2, <3>1, LaterChunk
    <3> QED BY <2>4, <3>2 DEF Key
  <2> QED BY <2>3, <2>4
<1> QED BY <1>3, <1>4 DEF Passes

(* What passed everything ahead goes on to do so. *)
LEMMA PassesOn ==
  ASSUME file \in Files, NEW i, IterOK(i), NEW cur \in DOMAIN i.kept, NEW x, Passes(i, cur, x)
  PROVE  x <= Key(i.kept[cur].ts) /\ Passes(i, cur + Step, x)
<1>1. cur \in Int /\ DOMAIN i.kept \subseteq Int BY KeptTypes
<1>2. Ahead(cur, cur) BY <1>1 DEF Ahead
<1>3. ASSUME NEW m \in DOMAIN i.kept, Ahead(m, cur + Step) PROVE Ahead(m, cur)
  <2>1. m \in Int BY <1>1
  <2> QED BY <1>1, <1>3, <2>1 DEF Ahead, Step
<1> QED BY <1>2, <1>3 DEF Passes

(* Another chunk is served from its first message on. *)
LEMMA PassesChunk ==
  ASSUME file \in Files, NEW i, IterOK(i), NEW cur, NEW x, Passes(i, cur, x),
         NEW j, j.group = i.group, j.chunks = i.chunks, NextOf(j) = NextOf(i) + Step,
         j.kept = <<>> \/ KeptAt(j, NextOf(i))
  PROVE  Passes(j, First(j.kept), x)
<1>1. i.next \in Int /\ DOMAIN i.chunks \subseteq Int /\ NextOf(i) \in Int
  <2>1. i.next \in Int BY DEF IterOK
  <2> QED BY <2>1, KeptTypes DEF NextOf, Step
<1>2. ASSUME NEW m \in DOMAIN j.kept PROVE x <= Key(j.kept[m].ts)
  <2>1. NextOf(i) \in DOMAIN i.chunks /\ j.kept = Kept(i.group, i.chunks[NextOf(i)]) BY <1>2 DEF KeptAt
  <2>2. Ahead(NextOf(i), NextOf(i)) BY <1>1 DEF Ahead
  <2> QED BY <2>1, <2>2 DEF Passes
<1>3. ASSUME NEW n \in DOMAIN i.chunks, Ahead(n, NextOf(j)) PROVE Ahead(n, NextOf(i))
  <2>1. n \in Int BY <1>1
  <2> QED BY <1>1, <1>3, <2>1 DEF Ahead, Step
<1> QED BY <1>2, <1>3 DEF Passes
-----------------------------------------------------------------------------
(* What becomes of the heap. *)

(* g has the items of h and one more. *)
Grows(h, g, item) ==
  /\ IsSeq(g)
  /\ \E k \in DOMAIN g : g[k] = item
  /\ \A j \in DOMAIN h : \E k \in DOMAIN g : g[k] = h[j]
  /\ \A k \in DOMAIN g : g[k] = item \/ \E j \in DOMAIN h : g[k] = h[j]
  /\ \A k, l \in DOMAIN g : k # l =>
       \/ g[k] = item /\ \E j \in DOMAIN h : g[l] = h[j]
       \/ g[l] = item /\ \E j \in DOMAIN h : g[k] = h[j]
       \/ \E i, j \in DOMAIN h : i # j /\ g[k] = h[i] /\ g[l] = h[j]

(* g has the items of h but the one at place p. *)
Drops(h, g, p) ==
  /\ IsSeq(g)
  /\ \A j \in DOMAIN h : j # p => \E k \in DOMAIN g : g[k] = h[j]
  /\ \A k \in DOMAIN g : \E j \in DOMAIN h : j # p /\ g[k] = h[j]
  /\ \A k, l \in DOMAIN g : k # l => \E i, j \in DOMAIN h : i # j /\ g[k] = h[i] /\ g[l] = h[j]

LEMMA SeqFacts ==
  ASSUME NEW S, NEW s \in Seq(S)
  PROVE  IsSeq(s)
<1> DEFINE T == {s[k] : k \in DOMAIN s}
<1>1. s = [k \in 1 .. Len(s) |-> s[k]] /\ DOMAIN s = 1 .. Len(s) /\ Len(s) \in Nat OBVIOUS
<1>2. \A k \in 1 .. Len(s) : s[k] \in T BY <1>1
<1> HIDE DEF T
<1>3. s \in Seq(T) BY <1>1, <1>2
<1> QED BY <1>3 DEF IsSeq, T

LEMMA PushGrows ==
  ASSUME NEW h, IsSeq(h), NEW item
  PROVE  /\ Grows(h, Pushed(h, item), item)
         /\ (\A k \in DOMAIN h : h[k].key \in Int) /\ item.key \in Int /\ IsHeap(h) => IsHeap(Pushed(h, item))
<1> DEFINE S == {h[k] : k \in DOMAIN h} \cup {item}
           g == Pushed(h, item)
<1>1. h \in Seq(S) /\ item \in S
  <2> DEFINE T == {h[k] : k \in DOMAIN h}
  <2>1. h \in Seq(T) BY DEF IsSeq
  <2> HIDE DEF T
  <2>2. h \in Seq(T \cup {item}) BY <2>1
  <2> QED BY <2>2 DEF T
<1>2. \A x \in S : x = item \/ \E k \in DOMAIN h : x = h[k] OBVIOUS
<1> HIDE DEF S
<1>3. g \in Seq(S) BY <1>1, PushedItems
<1>4. IsSeq(g) BY <1>3, SeqFacts
<1>5. \A k \in DOMAIN g : g[k] = item \/ \E j \in DOMAIN h : g[k] = h[j] BY <1>2, <1>3
<1>6. /\ \E k \in DOMAIN g : g[k] = item
      /\ \A j \in DOMAIN h : \E k \in DOMAIN g : g[k] = h[j]
      /\ \A k, l \in DOMAIN g : k # l =>
           \/ g[k] = item /\ \E j \in DOMAIN h : g[l] = h[j]
           \/ g[l] = item /\ \E j \in DOMAIN h : g[k] = h[j]
           \/ \E i, j \in DOMAIN h : i # j /\ g[k] = h[i] /\ g[l] = h[j]
  BY <1>1, PushedPairs
<1>7. ASSUME \A k \in DOMAIN h : h[k].key \in Int, item.key \in Int, IsHeap(h) PROVE IsHeap(g)
  <2>1. \A x \in S : x.key \in Int BY <1>2, <1>7
  <2> QED BY <1>1, <1>7, <2>1, PushedHeap
<1> HIDE DEF g
<1>8. Grows(h, g, item) BY <1>4, <1>5, <1>6 DEF Grows
<1> QED BY <1>7, <1>8 DEF g

LEMMA AppendGrows ==
  ASSUME NEW h, IsSeq(h), NEW item
  PROVE  Grows(h, Append(h, item), item)
<1> DEFINE T == {h[k] : k \in DOMAIN h}
           g == Append(h, item)
           n == Len(h)
<1>1. h \in Seq(T) BY DEF IsSeq
<1> HIDE DEF T
<1>2. /\ g \in Seq(T \cup {item}) /\ DOMAIN g = 1 .. n + 1 /\ n \in Nat /\ DOMAIN h = 1 .. n
      /\ g[n + 1] = item /\ \A k \in 1 .. n : g[k] = h[k]
  BY <1>1
<1>3. IsSeq(g) BY <1>2, SeqFacts
<1> HIDE DEF g, n
<1>4. \A k \in 1 .. n + 1 : k \in 1 .. n \/ k = n + 1 BY <1>2
<1>5. n + 1 \in 1 .. n + 1 /\ \A k \in 1 .. n : k \in 1 .. n + 1 BY <1>2
<1> DEFINE last == n + 1
<1> HIDE DEF last
<1>6. /\ \E k \in DOMAIN g : g[k] = item
      /\ \A j \in DOMAIN h : \E k \in DOMAIN g : g[k] = h[j]
      /\ \A k \in DOMAIN g : g[k] = item \/ \E j \in DOMAIN h : g[k] = h[j]
  BY <1>2, <1>4, <1>5
<1>7. ASSUME NEW k \in DOMAIN g, NEW l \in DOMAIN g, k # l
      PROVE  \/ g[k] = item /\ \E j \in DOMAIN h : g[l] = h[j]
             \/ g[l] = item /\ \E j \in DOMAIN h : g[k] = h[j]
             \/ \E i, j \in DOMAIN h : i # j /\ g[k] = h[i] /\ g[l] = h[j]
  BY <1>2, <1>4, <1>7
<1> QED BY <1>3, <1>6, <1>7 DEF Grows, g

LEMMA PopDrops ==
  ASSUME NEW h, IsSeq(h), h # <<>>
  PROVE  /\ Drops(h, Popped(h), 1) /\ 1 \in DOMAIN h /\ Head(h) = h[1]
         /\ (\A k \in DOMAIN h : h[k].key \in Int) /\ IsHeap(h) =>
              IsHeap(Popped(h)) /\ \A k \in DOMAIN h : h[1].key <= h[k].key
<1> DEFINE T == {h[k] : k \in DOMAIN h}
           g == Popped(h)
<1>1. h \in Seq(T) BY DEF IsSeq
<1>2. \A x \in T : \E k \in DOMAIN h : x = h[k] OBVIOUS
<1> HIDE DEF T
<1>3. g \in Seq(T) BY <1>1, PoppedItems
<1>4. IsSeq(g) BY <1>3, SeqFacts
<1>5. 1 \in DOMAIN h /\ Head(h) = h[1] BY <1>1
<1>6. ASSUME \A k \in DOMAIN h : h[k].key \in Int, IsHeap(h)
      PROVE  IsHeap(g) /\ \A k \in DOMAIN h : h[1].key <= h[k].key
  <2>1. \A x \in T : x.key \in Int BY <1>2, <1>6
  <2> QED BY <1>1, <1>5, <1>6, <2>1, PoppedFacts
<1>7. Drops(h, g, 1) BY <1>1, <1>4, PoppedPairs DEF Drops
<1> QED BY <1>5, <1>6, <1>7

LEMMA RemoveDrops ==
  ASSUME NEW h, IsSeq(h), NEW p \in DOMAIN h
  PROVE  Drops(h, RemoveAt(h, p), p)
<1> DEFINE T == {h[k] : k \in DOMAIN h}
           g == RemoveAt(h, p)
           n == Len(h)
           old(k) == IF k < p THEN k ELSE k + 1
<1>1. h \in Seq(T) BY DEF IsSeq
<1> HIDE DEF T
<1>2. n \in Nat /\ DOMAIN h = 1 .. n /\ p \in 1 .. n BY <1>1
<1>3. /\ g \in Seq(T) /\ DOMAIN g = 1 .. n - 1
      /\ \A k \in 1 .. n - 1 : g[k] = h[old(k)]
  <2> DEFINE a == SubSeq(h, 1, p - 1)
             b == SubSeq(h, p + 1, n)
  <2>1. /\ a \in Seq(T) /\ Len(a) = p - 1 /\ \A k \in 1 .. p - 1 : a[k] = h[k]
    BY <1>1, <1>2
  <2>2. /\ b \in Seq(T) /\ Len(b) = n - p /\ \A k \in 1 .. n - p : b[k] = h[p + k]
    BY <1>1, <1>2
  <2>3. g = a \o b BY DEF RemoveAt
  <2> HIDE DEF a, b, g, n
  <2>4. g \in Seq(T) /\ Len(g) = n - 1
    <3>1. a \o b \in Seq(T) /\ Len(a \o b) = Len(a) + Len(b) BY <2>1, <2>2
    <3> QED BY <1>2, <2>1, <2>2, <2>3, <3>1
  <2>5. ASSUME NEW k \in 1 .. n - 1 PROVE g[k] = h[old(k)]
    <3>1. CASE k < p BY <1>2, <2>1, <2>2, <2>3, <3>1
    <3>2. CASE k >= p
      <4>1. k - (p - 1) \in 1 .. n - p /\ k > p - 1 /\ p + (k - (p - 1)) = k + 1 BY <1>2, <3>2
      <4>2. g[k] = b[k - (p - 1)] BY <1>2, <2>1, <2>2, <2>3, <4>1
      <4> QED BY <1>2, <2>2, <3>2, <4>1, <4>2
    <3> QED BY <1>2, <3>1, <3>2
  <2> QED BY <2>4, <2>5
<1>4. IsSeq(g) BY <1>3, SeqFacts
<1> HIDE DEF g, n
<1>5. \A k \in 1 .. n - 1 : old(k) \in 1 .. n /\ old(k) # p BY <1>2
<1>6. \A k, l \in 1 .. n - 1 : k # l => old(k) # old(l) BY <1>2
<1>7. \A j \in 1 .. n : j # p => \E k \in 1 .. n - 1 : old(k) = j
  <2> SUFFICES ASSUME NEW j \in 1 .. n, j # p PROVE \E k \in 1 .. n - 1 : old(k) = j OBVIOUS
  <2>1. CASE j < p
    <3>1. j \in 1 .. n - 1 /\ old(j) = j BY <1>2, <2>1
    <3> QED BY <3>1
  <2>2. CASE j > p
    <3>1. j - 1 \in 1 .. n - 1 /\ old(j - 1) = j BY <1>2, <2>2
    <3> QED BY <3>1
  <2> QED BY <1>2, <2>1, <2>2
<1> HIDE DEF old
<1>8. \A j \in DOMAIN h : j # p => \E k \in DOMAIN g : g[k] = h[j] BY <1>2, <1>3, <1>7
<1>9. \A k \in DOMAIN g : \E j \in DOMAIN h : j # p /\ g[k] = h[j] BY <1>2, <1>3, <1>5
<1>10. \A k, l \in DOMAIN g : k # l => \E i, j \in DOMAIN h : i # j /\ g[k] = h[i] /\ g[l] = h[j]
  BY <1>2, <1>3, <1>5, <1>6
<1> QED BY <1>4, <1>8, <1>9, <1>10 DEF Drops, g

(* Python finds the first of the least items. *)
LEMMA LeastKeyFacts ==
  ASSUME IsSeq(heap), heap # <<>>, \A k \in DOMAIN heap : heap[k].key \in Int
  PROVE  LeastKey \in DOMAIN heap /\ \A j \in DOMAIN heap : heap[LeastKey].key <= heap[j].key
<1> DEFINE T == {heap[k] : k \in DOMAIN heap}
           n == Len(heap)
           Before(k, j) == heap[k].key < heap[j].key \/ (heap[k].key = heap[j].key /\ k <= j)
           S == {m \in Nat : m + 1 <= n => \E k \in 1 .. m + 1 : \A j \in 1 .. m + 1 : Before(k, j)}
<1>1. heap \in Seq(T) BY DEF IsSeq
<1> HIDE DEF T
<1>2. n \in Nat \ {0} /\ DOMAIN heap = 1 .. n BY <1>1
<1> HIDE DEF n
<1>3. 0 \in S
  <2>1. \A j \in 1 .. 0 + 1 : j = 1 OBVIOUS
  <2>2. 1 \in 1 .. 0 + 1 /\ Before(1, 1) OBVIOUS
  <2> QED BY <2>1, <2>2
<1>4. ASSUME NEW m \in Nat, m \in S PROVE m + 1 \in S
  <2> SUFFICES ASSUME m + 1 + 1 <= n PROVE \E k \in 1 .. m + 1 + 1 : \A j \in 1 .. m + 1 + 1 : Before(k, j) OBVIOUS
  <2>1. PICK k \in 1 .. m + 1 : \A j \in 1 .. m + 1 : Before(k, j)
    <3>1. m + 1 <= n BY <1>2
    <3> QED BY <1>4, <3>1
  <2> DEFINE l == m + 1 + 1
  <2>2. /\ l \in 1 .. l /\ k \in 1 .. l /\ k < l /\ l \in DOMAIN heap
        /\ \A j \in 1 .. l : j \in 1 .. m + 1 \/ j = l
        /\ \A j \in 1 .. l : j \in DOMAIN heap
    BY <1>2
  <2>3. \A j \in 1 .. l : heap[j].key \in Int /\ j \in Int BY <2>2
  <2>4. k \in Int /\ l \in Int /\ heap[k].key \in Int /\ heap[l].key \in Int BY <2>2, <2>3
  <2> HIDE DEF l
  <2>5. CASE heap[k].key <= heap[l].key
    <3>1. Before(k, l) BY <2>2, <2>4, <2>5
    <3>2. \A j \in 1 .. l : Before(k, j) BY <2>1, <2>2, <3>1
    <3> QED BY <2>2, <3>2 DEF l
  <2>6. CASE heap[l].key < heap[k].key
    <3>1. \A j \in 1 .. l : Before(l, j)
      <4> TAKE j \in 1 .. l
      <4>1. CASE j = l BY <2>4, <4>1
      <4>2. CASE j \in 1 .. m + 1
        <5>1. heap[k].key <= heap[j].key BY <2>1, <2>3, <2>4, <4>2
        <5> QED BY <2>3, <2>4, <2>6, <5>1
      <4> QED BY <2>2, <4>1, <4>2
    <3> QED BY <2>2, <3>1 DEF l
  <2>7. heap[k].key <= heap[l].key \/ heap[l].key < heap[k].key BY <2>4
  <2> QED BY <2>5, <2>6, <2>7
<1>5. \E k \in DOMAIN heap : \A j \in DOMAIN heap : Before(k, j)
  <2> HIDE DEF S
  <2>1. Nat \subseteq S BY <1>3, <1>4, AllNumbers
  <2> DEFINE m == n - 1
  <2>2. m \in S /\ m + 1 = n BY <1>2, <2>1
  <2> HIDE DEF m, Before
  <2>3. m + 1 <= n => \E k \in 1 .. m + 1 : \A j \in 1 .. m + 1 : Before(k, j) BY <2>2 DEF S
  <2> QED BY <1>2, <2>2, <2>3
<1>6. LeastKey \in DOMAIN heap /\ \A j \in DOMAIN heap : Before(LeastKey, j) BY <1>5 DEF LeastKey
<1> QED BY <1>6
-----------------------------------------------------------------------------
(* The steps, by what they do to the iterators and the heap. *)

(* What NextInto returns of an item. *)
Carried(item) == [id |-> item.id, ts |-> item.ts, bytes |-> IF sdk = "go" THEN Payload(item) ELSE item.bytes]

(* The chunks that the iterator of a group visits. *)
Listed(g) == IF query.costAware THEN KeptChunks(g) ELSE Chunks(g)

ToPlan ==
  /\ pc \in {"start", "indexes", "data"} /\ query.costAware
  /\ pc' = "idle" => Scoped = <<>>
  /\ pc' = "data" => ranges' = DataRanges
  /\ UNCHANGED <<iters, pulled, heap, loaded, popped, delivered>>
  /\ \/ pc' \in {"indexes", "data", "idle", "refused"} /\ UNCHANGED <<result, failed>>
     \/ sdk = "ts" /\ pc' = "start" /\ result' = "error" /\ failed'

ToIterators ==
  /\ pc \in {"start", "data"} /\ pc' = "idle"
  /\ query.costAware => pc = "data"
  /\ iters' \in Seq(IterType)
  /\ DOMAIN iters' = DOMAIN Planned
  /\ \A k \in DOMAIN iters' : LET i == iters'[k] IN
       /\ i.group = Planned[k] /\ i.buf = 0 /\ i.next = First(i.chunks) /\ Places(i.chunks, i.group)
       /\ i.chunks = Listed(i.group)
       /\ \/ ~query.costAware /\ i.kept = <<>> /\ i.cur = 1
          \/ query.costAware /\ KeptAt(i, i.next) /\ i.cur = First(i.kept)
  /\ UNCHANGED <<pulled, heap, loaded, popped, delivered, result, failed>>

ToCall ==
  /\ pc = "idle" /\ ~loaded /\ (sdk = "py" => ~failed)
  /\ IF iters = <<>> THEN pulled' = 0 /\ pc' = "pop" /\ loaded' = TRUE
     ELSE pulled' = 1 /\ pc' = "pull" /\ loaded' = loaded
  /\ result' = "none"
  /\ UNCHANGED <<iters, heap, popped, delivered, failed>>

ToCallAgain ==
  /\ pc = "idle" /\ loaded
  /\ IF sdk = "py" THEN ~failed /\ result # "eof" /\ pulled' = popped.item.iter ELSE pulled' = 0
  /\ pc' = IF pulled' = 0 THEN "pop" ELSE "pull"
  /\ result' = "none"
  /\ UNCHANGED <<iters, heap, loaded, popped, delivered, failed>>

ToEof ==
  /\ \/ pc = "pop" /\ heap = <<>>
     \/ sdk = "py" /\ pc = "idle" /\ (failed \/ result = "eof")
  /\ pc' = "idle" /\ result' = "eof"
  /\ UNCHANGED <<iters, pulled, heap, loaded, popped, delivered, failed>>

ToPop(p) ==
  /\ pc = "pop"
  /\ p \in DOMAIN heap /\ \A h \in DOMAIN heap : heap[p].key <= heap[h].key
  /\ Drops(heap, heap', p) /\ (sdk # "py" => IsHeap(heap'))
  /\ popped'.item = heap[p] /\ Returned(popped') = Carried(heap[p])
  /\ \/ /\ sdk # "py" /\ pc' = "pull" /\ pulled' = heap[p].iter
        /\ UNCHANGED <<delivered, result>>
     \/ /\ sdk = "py" /\ pc' = "idle" /\ pulled' = pulled /\ result' = "message"
        /\ \E m : m.ts = heap[p].ts /\ m = Carried(heap[p]) /\ delivered' = Append(delivered, m)
  /\ UNCHANGED <<iters, loaded, failed>>

(* The group that is pulled has become j. *)
Becomes(j) ==
  /\ pulled \in DOMAIN iters /\ iters' = [iters EXCEPT ![pulled] = j]
  /\ j \in IterType /\ j.group = it.group /\ j.chunks = it.chunks
  /\ j.buf \in {-1, 0} \cup ToSet(j.chunks)

ToEndOfGroup ==
  /\ pc = "pull" /\ it.cur \notin DOMAIN it.kept /\ it.next \notin DOMAIN it.chunks /\ PortAnswered
  /\ UNCHANGED <<iters, heap, failed>>

(* The message under the cursor goes into the heap as an item, and then    *)
(* the buffer of its group is buf.                                         *)
Carries(item, buf) ==
  LET m == it.kept[it.cur]
      c == file[it.group].chunks[it.chunks[it.next]]
      compressed == file[it.group].compressed
  IN  /\ buf = IF query.costAware /\ compressed THEN it.chunks[it.next] ELSE it.buf
      /\ item.off = IF query.costAware /\ ~compressed THEN c.off + m.off ELSE m.off
      /\ item.len = m.len
      /\ sdk # "go" =>
           item.bytes = IF ~query.costAware THEN Slice(m)
                        ELSE IF compressed THEN Bytes(c.data, m.off, m.len)
                        ELSE FileBytes(Loaded(c.off + m.off))

ToMessage(j, item) ==
  /\ pc = "pull" /\ it.cur \in DOMAIN it.kept
  /\ Becomes(j) /\ j.next = it.next /\ j.kept = it.kept /\ j.cur = it.cur + Step
  /\ item.ts = it.kept[it.cur].ts /\ item.key = Key(item.ts) /\ item.id = it.kept[it.cur].id /\ item.iter = pulled
  /\ Carries(item, j.buf)
  /\ Grows(heap, heap', item) /\ (sdk # "py" => IsHeap(heap'))
  /\ PortAnswered
  /\ UNCHANGED failed

ToChunk(j) ==
  /\ pc = "pull" /\ it.cur \notin DOMAIN it.kept /\ it.next \in DOMAIN it.chunks
  /\ Becomes(j) /\ j.next = it.next + Step
  /\ IF query.costAware THEN /\ j.kept = <<>> \/ KeptAt(j, j.next)
                             /\ j.next \in DOMAIN j.chunks => KeptAt(j, j.next)
                             /\ pc' = "pull"
     ELSE /\ KeptAt(j, it.next)
          /\ IF j.kept = <<>> THEN pc' = "pull" ELSE pc' = "chunk"
  /\ j.cur = First(j.kept) \/ (sdk = "ts" /\ pc' = "chunk" /\ j.cur = it.cur)
  /\ UNCHANGED <<pulled, heap, loaded, popped, delivered, result, failed>>

ToData(j) ==
  /\ pc = "chunk" /\ pc' = "pull"
  /\ Becomes(j) /\ j.next = it.next /\ j.kept = it.kept /\ j.cur = First(it.kept) /\ j.buf = CurrentChunk
  /\ UNCHANGED <<pulled, heap, loaded, popped, delivered, result, failed>>

ToError(j) ==
  /\ pc \in {"pull", "chunk"}
  /\ pc' = IF sdk = "ts" /\ ~loaded THEN "start" ELSE "idle"
  /\ Becomes(j) /\ j.kept = it.kept
  /\ j.cur = it.cur \/ (it.cur \in DOMAIN it.kept /\ j.cur = it.cur + Step)
  /\ IF sdk = "ts" /\ ~query.costAware THEN j.next \in 0 .. Len(it.chunks) + 1 ELSE j.next = it.next
  /\ result' = "error" /\ failed' = TRUE /\ popped' = NoMessage /\ pulled' = 0
  /\ UNCHANGED <<heap, loaded, delivered>>

(* A read that fails with io.EOF is taken for the end of the group. *)
ToCut(j) ==
  /\ pc \in {"pull", "chunk"} /\ sdk = "go"
  /\ Becomes(j) /\ j.next = it.next /\ j.kept = it.kept /\ j.cur = it.cur
  /\ PortAnswered
  /\ failed' = TRUE /\ UNCHANGED heap

ToPanic ==
  /\ pc = "pull" /\ pc' = "panic" /\ sdk = "go"
  /\ UNCHANGED <<iters, pulled, heap, loaded, popped, delivered, result, failed>>

Moves ==
  /\ UNCHANGED <<file, query, sdk>> /\ (ToPlan \/ UNCHANGED ranges)
  /\ \/ ToPlan \/ ToIterators \/ ToCall \/ ToCallAgain \/ ToEof \/ ToEndOfGroup \/ ToPanic
     \/ \E p \in DOMAIN heap : ToPop(p)
     \/ \E j \in IterType : ToChunk(j) \/ ToData(j) \/ ToError(j) \/ ToCut(j)
     \/ \E j \in IterType : \E item : ToMessage(j, item)
     \/ UNCHANGED vars

LEMMA StepType == Step \in {-1, 1}
BY DEF Step

LEMMA FirstType ==
  ASSUME NEW S, NEW s \in Seq(S)
  PROVE  First(s) \in Int /\ First(s) \in 0 .. Len(s) + 1 /\ (s # <<>> => First(s) \in DOMAIN s)
BY DEF First

(* What a group is when its Next is running. *)
LEMMA ItFacts ==
  ASSUME TypeInv, pc \in {"pull", "chunk"}
  PROVE  /\ pulled \in DOMAIN iters /\ it \in IterType /\ IterOK(it) /\ it = iters[pulled]
         /\ it.group \in Nat /\ it.chunks \in Seq(Nat) /\ it.next \in Int /\ it.kept \in Seq(KeptMessage)
         /\ it.cur \in Int /\ it.buf \in Int /\ it.buf \in {-1, 0} \cup ToSet(it.chunks)
         /\ ToSet(it.chunks) \subseteq Int
<1>1. /\ iters \in Seq(IterType) /\ pulled \in 0 .. Len(iters) /\ pulled # 0
      /\ \A k \in DOMAIN iters : IterOK(iters[k])
  BY DEF TypeInv, ItersOK
<1>2. pulled \in DOMAIN iters BY <1>1
<1>3. it \in IterType BY <1>1, <1>2 DEF it
<1>4. IterOK(it) BY <1>1, <1>2 DEF it
<1>5. it.group \in Nat /\ it.chunks \in Seq(Nat) /\ it.next \in Int /\ it.kept \in Seq(KeptMessage) /\ it.cur \in Int /\ it.buf \in Int
  BY <1>3 DEF IterType
<1>6. it.buf \in {-1, 0} \cup ToSet(it.chunks) BY <1>4 DEF IterOK
<1>7. ToSet(it.chunks) \subseteq Int BY <1>5 DEF ToSet
<1> QED BY <1>2, <1>3, <1>4, <1>5, <1>6, <1>7 DEF it

IsWith(j, i, next, kept, cur, buf) ==
  /\ j \in IterType /\ j.group = i.group /\ j.chunks = i.chunks
  /\ j.next = next /\ j.kept = kept /\ j.cur = cur /\ j.buf = buf
With(i, next, kept, cur, buf) == [i EXCEPT !.next = next, !.kept = kept, !.cur = cur, !.buf = buf]

LEMMA WithFacts ==
  ASSUME NEW i \in IterType, NEW next \in Int, NEW kept \in Seq(KeptMessage), NEW cur \in Int, NEW buf \in Int
  PROVE  IsWith(With(i, next, kept, cur, buf), i, next, kept, cur, buf)
<1> DEFINE T == Seq(KeptMessage)
           U == Seq(Nat)
<1>1. kept \in T OBVIOUS
<1>2. IterType = [group : Nat, chunks : U, next : Int, kept : T, cur : Int, buf : Int] BY DEF IterType
<1> HIDE DEF T, U
<1> QED BY <1>1, <1>2 DEF With, IsWith

(* What is kept of one of its chunks. *)
LEMMA KeptSeq ==
  ASSUME file \in Files, NEW i, IterOK(i), NEW n \in DOMAIN i.chunks
  PROVE  Kept(i.group, i.chunks[n]) \in Seq(KeptMessage)
<1>1. i.group \in DOMAIN file /\ i.chunks[n] \in DOMAIN file[i.group].chunks BY KeptTypes DEF IterOK
<1> QED BY <1>1, KeptFacts DEF FromChunk

LEMMA LoadIndexMoves ==
  ASSUME TypeInv, LoadIndexChunk \/ PortLoadIndexChunk, sdk = "go" => LoadIndexChunk, sdk # "go" => PortLoadIndexChunk
  PROVE  UNCHANGED <<file, query>> /\ \E j \in IterType : ToChunk(j) \/ ToError(j) \/ ToCut(j)
<1> DEFINE kept == Kept(it.group, it.chunks[it.next])
           a == AfterIndex(it)
           b == PortAfterIndex(it)
<1>1. /\ pc = "pull" /\ ~query.costAware /\ it.cur \notin DOMAIN it.kept /\ it.next \in DOMAIN it.chunks
      /\ UNCHANGED <<file, query>>
  BY DEF LoadIndexChunk, PortLoadIndexChunk, Failed, EndsWithEof, PortFails
<1>2. /\ pulled \in DOMAIN iters /\ it \in IterType /\ IterOK(it) /\ it = iters[pulled]
      /\ it.next \in Int /\ it.cur \in Int /\ it.buf \in Int /\ it.buf \in {-1, 0} \cup ToSet(it.chunks)
      /\ file \in Files /\ it.next \in 0 .. Len(it.chunks) + 1
  BY <1>1, ItFacts DEF TypeInv, ItersOK, IterOK
<1>3. kept \in Seq(KeptMessage) /\ First(kept) \in Int
  <2>1. kept \in Seq(KeptMessage) BY <1>1, <1>2, KeptSeq
  <2> QED BY <2>1, FirstType
<1>4. /\ a \in IterType /\ a.group = it.group /\ a.chunks = it.chunks /\ a.next = it.next + Step
      /\ a.kept = kept /\ a.cur = First(kept) /\ a.buf = it.buf
  <2> HIDE DEF kept
  <2>1. a = [it EXCEPT !.next = @ + Step, !.kept = kept, !.cur = First(kept)] BY DEF AfterIndex, kept
  <2>2. it.next + Step \in Int BY <1>2, StepType
  <2> HIDE DEF a
  <2>3. a = With(it, it.next + Step, kept, First(kept), it.buf) BY <1>2, <2>1 DEF IterType, With
  <2>4. IsWith(a, it, it.next + Step, kept, First(kept), it.buf) BY <1>2, <1>3, <2>2, <2>3, WithFacts
  <2> QED BY <2>4 DEF IsWith
<1>5. /\ b \in IterType /\ b.group = it.group /\ b.chunks = it.chunks /\ b.next = it.next + Step
      /\ b.kept = kept /\ b.cur = (IF sdk = "ts" /\ kept # <<>> THEN it.cur ELSE First(kept))
      /\ b.buf \in {0, it.buf}
  <2> DEFINE cur == IF sdk = "ts" /\ kept # <<>> THEN it.cur ELSE First(kept)
             buf == IF sdk = "ts" /\ kept = <<>> THEN 0 ELSE it.buf
  <2>1. b = [it EXCEPT !.next = @ + Step, !.kept = kept, !.cur = cur, !.buf = buf] BY DEF PortAfterIndex
  <2>2. it.next + Step \in Int BY <1>2, StepType
  <2>3. cur \in Int /\ buf \in Int /\ buf \in {0, it.buf} BY <1>2, <1>3
  <2> HIDE DEF b, cur, buf, kept
  <2>4. b \in IterType /\ b.group = it.group /\ b.chunks = it.chunks /\ b.next = it.next + Step /\ b.kept = kept /\ b.cur = cur /\ b.buf = buf
    <3>1. b = With(it, it.next + Step, kept, cur, buf) BY <2>1 DEF With
    <3>2. IsWith(b, it, it.next + Step, kept, cur, buf) BY <1>2, <1>3, <2>2, <2>3, <3>1, WithFacts
    <3> QED BY <3>2 DEF IsWith
  <2> QED BY <2>3, <2>4 DEF cur
<1> HIDE DEF a, b
<1>6. CASE LoadIndexChunk /\ sdk = "go"
  <2>1. CASE /\ iters' = [iters EXCEPT ![pulled] = AfterIndex(@)]
             /\ pc' = IF iters'[pulled].kept = <<>> THEN "pull" ELSE "chunk"
             /\ UNCHANGED <<file, query, pulled, heap, loaded, popped, ranges, delivered, result, failed>>
    <3>1. iters' = [iters EXCEPT ![pulled] = a] BY <1>2, <2>1 DEF a
    <3>2. iters'[pulled] = a
      <4>1. iters \in Seq(IterType) BY DEF TypeInv, ItersOK
      <4> QED BY <1>2, <3>1, <4>1
    <3>3. Becomes(a) BY <1>2, <1>4, <3>1 DEF Becomes
    <3>4. ToChunk(a) BY <1>1, <1>4, <2>1, <3>2, <3>3 DEF ToChunk, KeptAt
    <3> QED BY <1>1, <1>4, <3>4
  <2>2. CASE Failed /\ UNCHANGED iters
    <3>1. iters' = [iters EXCEPT ![pulled] = it]
      <4>1. iters \in Seq(IterType) BY DEF TypeInv, ItersOK
      <4> QED BY <1>2, <2>2, <4>1
    <3>2. Becomes(it) BY <1>2, <3>1 DEF Becomes
    <3>3. ToError(it) BY <1>1, <1>2, <1>6, <2>2, <3>2 DEF ToError, Failed
    <3> QED BY <1>1, <1>2, <3>3
  <2>3. CASE EndsWithEof /\ UNCHANGED iters
    <3>1. iters' = [iters EXCEPT ![pulled] = it]
      <4>1. iters \in Seq(IterType) BY DEF TypeInv, ItersOK
      <4> QED BY <1>2, <2>3, <4>1
    <3>2. Becomes(it) BY <1>2, <3>1 DEF Becomes
    <3>3. PortAnswered /\ UNCHANGED heap /\ failed' = TRUE BY <1>6, <2>3 DEF EndsWithEof, PortAnswered
    <3>4. ToCut(it) BY <1>1, <1>6, <3>2, <3>3 DEF ToCut
    <3> QED BY <1>1, <1>2, <3>4
  <2> QED BY <1>6, <2>1, <2>2, <2>3 DEF LoadIndexChunk
<1>7. CASE PortLoadIndexChunk /\ sdk # "go"
  <2>1. CASE /\ iters' = [iters EXCEPT ![pulled] = PortAfterIndex(@)]
             /\ pc' = IF iters'[pulled].kept = <<>> THEN "pull" ELSE "chunk"
             /\ UNCHANGED <<file, query, pulled, heap, loaded, popped, ranges, delivered, result, failed>>
    <3>1. iters' = [iters EXCEPT ![pulled] = b] BY <1>2, <2>1 DEF b
    <3>2. iters'[pulled] = b
      <4>1. iters \in Seq(IterType) BY DEF TypeInv, ItersOK
      <4> QED BY <1>2, <3>1, <4>1
    <3>3. Becomes(b) BY <1>2, <1>5, <3>1 DEF Becomes
    <3>4. ToChunk(b) BY <1>1, <1>5, <2>1, <3>2, <3>3 DEF ToChunk, KeptAt
    <3> QED BY <1>1, <1>5, <3>4
  <2>2. CASE PortFails /\ UNCHANGED iters
    <3>1. iters' = [iters EXCEPT ![pulled] = it]
      <4>1. iters \in Seq(IterType) BY DEF TypeInv, ItersOK
      <4> QED BY <1>2, <2>2, <4>1
    <3>2. Becomes(it) BY <1>2, <3>1 DEF Becomes
    <3>3. ToError(it) BY <1>1, <1>2, <1>7, <2>2, <3>2 DEF ToError, PortFails
    <3> QED BY <1>1, <1>2, <3>3
  <2> QED BY <1>7, <2>1, <2>2 DEF PortLoadIndexChunk
<1> QED BY <1>6, <1>7

LEMMA AdvancedFacts ==
  ASSUME NEW i \in IterType, i.next \in Int, i.kept \in Seq(KeptMessage), i.cur \in Int, i.buf \in Int
  PROVE  /\ Advanced(i) = With(i, i.next, i.kept, i.cur + Step, i.buf)
         /\ \A buf \in Int : /\ [Advanced(i) EXCEPT !.buf = buf] = With(i, i.next, i.kept, i.cur + Step, buf)
                             /\ [i EXCEPT !.buf = buf] = With(i, i.next, i.kept, i.cur, buf)
                             /\ \A cur \in Int : [i EXCEPT !.buf = buf, !.cur = cur] = With(i, i.next, i.kept, cur, buf)
         /\ \A next \in Int : [i EXCEPT !.next = next] = With(i, next, i.kept, i.cur, i.buf)
         /\ \A next \in Int : \A kept \in Seq(KeptMessage) : \A cur \in Int :
              [i EXCEPT !.next = next, !.kept = kept, !.cur = cur] = With(i, next, kept, cur, i.buf)
<1> DEFINE T == Seq(KeptMessage)
           U == Seq(Nat)
<1>1. IterType = [group : Nat, chunks : U, next : Int, kept : T, cur : Int, buf : Int] BY DEF IterType
<1>2. i.kept \in T OBVIOUS
<1> HIDE DEF T, U
<1>3. Advanced(i) = With(i, i.next, i.kept, i.cur + Step, i.buf) BY <1>1, StepType DEF Advanced, With
<1>4. ASSUME NEW buf \in Int PROVE [Advanced(i) EXCEPT !.buf = buf] = With(i, i.next, i.kept, i.cur + Step, buf)
  BY <1>1, StepType DEF Advanced, With
<1>5. ASSUME NEW buf \in Int PROVE [i EXCEPT !.buf = buf] = With(i, i.next, i.kept, i.cur, buf)
  BY <1>1 DEF With
<1>6. ASSUME NEW buf \in Int, NEW cur \in Int PROVE [i EXCEPT !.buf = buf, !.cur = cur] = With(i, i.next, i.kept, cur, buf)
  BY <1>1 DEF With
<1>7. ASSUME NEW next \in Int PROVE [i EXCEPT !.next = next] = With(i, next, i.kept, i.cur, i.buf)
  BY <1>1 DEF With
<1>8. ASSUME NEW next \in Int, NEW kept \in T, NEW cur \in Int
      PROVE  [i EXCEPT !.next = next, !.kept = kept, !.cur = cur] = With(i, next, kept, cur, i.buf)
  BY <1>1 DEF With
<1> QED BY <1>3, <1>4, <1>5, <1>6, <1>7, <1>8 DEF T

(* A message of the group that is pulled goes into the heap. *)
LEMMA MessageMoves ==
  ASSUME TypeInv, HeapInv, pc = "pull", it.cur \in DOMAIN it.kept,
         NEW item, item.ts = it.kept[it.cur].ts, item.key = Key(item.ts), item.id = it.kept[it.cur].id, item.iter = pulled,
         NEW buf, buf \in {-1, 0} \cup ToSet(it.chunks), Carries(item, buf),
         iters' = [iters EXCEPT ![pulled] = With(it, it.next, it.kept, it.cur + Step, buf)],
         heap' = IF sdk = "py" THEN Append(heap, item) ELSE Pushed(heap, item),
         PortAnswered, UNCHANGED failed
  PROVE  \E j \in IterType : \E x : ToMessage(j, x)
<1> DEFINE j == With(it, it.next, it.kept, it.cur + Step, buf)
<1>1. /\ pulled \in DOMAIN iters /\ it \in IterType /\ IterOK(it) /\ it.next \in Int
      /\ it.kept \in Seq(KeptMessage) /\ it.cur + Step \in Int /\ buf \in Int
  BY ItFacts, StepType
<1>2. /\ j \in IterType /\ j.group = it.group /\ j.chunks = it.chunks /\ j.next = it.next
      /\ j.kept = it.kept /\ j.cur = it.cur + Step /\ j.buf = buf
  <2>1. IsWith(j, it, it.next, it.kept, it.cur + Step, buf) BY <1>1, WithFacts
  <2> QED BY <2>1 DEF IsWith
<1> HIDE DEF j
<1>3. Becomes(j) BY <1>1, <1>2 DEF Becomes, j
<1>4. item.key \in Int /\ \A k \in DOMAIN heap : heap[k].key \in Int
  <2>1. item.ts \in Int BY <1>1, KeptTypes DEF TypeInv, ItersOK
  <2> QED BY <2>1 DEF Key, HeapInv
<1>5. Grows(heap, heap', item) /\ (sdk # "py" => IsHeap(heap'))
  <2>1. IsSeq(heap) BY DEF HeapInv
  <2>2. CASE sdk = "py" BY <2>1, <2>2, AppendGrows
  <2>3. CASE sdk # "py"
    <3>1. IsHeap(heap) BY <2>3 DEF HeapInv
    <3> QED BY <1>4, <2>1, <2>3, <3>1, PushGrows
  <2> QED BY <2>2, <2>3
<1>6. ToMessage(j, item)
  <2>1. Carries(item, j.buf) BY <1>2
  <2> QED BY <1>2, <1>3, <1>5, <2>1 DEF ToMessage
<1> QED BY <1>2, <1>6

LEMMA ServeMoves ==
  ASSUME TypeInv, HeapInv, sdk \in {"ts", "py"} \/ sdk = "go",
         \/ sdk = "go" /\ (Serve \/ ServePreloaded)
         \/ sdk # "go" /\ (PortServe \/ PortServePreloaded)
  PROVE  UNCHANGED <<file, query>> /\ \E j \in IterType : \E x : ToMessage(j, x)
<1> DEFINE m == it.kept[it.cur]
<1>1. /\ pc = "pull" /\ it.cur \in DOMAIN it.kept /\ UNCHANGED <<file, query, failed>>
  BY DEF Serve, ServePreloaded, PortServe, PortServePreloaded
<1>2. PortAnswered BY DEF Serve, ServePreloaded, PortServe, PortServePreloaded, PortAnswered
<1>3. /\ pulled \in DOMAIN iters /\ it \in IterType /\ IterOK(it) /\ it = iters[pulled] /\ it.next \in Int
      /\ it.kept \in Seq(KeptMessage) /\ it.cur \in Int /\ it.buf \in Int /\ it.buf \in {-1, 0} \cup ToSet(it.chunks)
      /\ ToSet(it.chunks) \subseteq Int
  BY <1>1, ItFacts
<1>4. ASSUME query.costAware PROVE it.chunks[it.next] \in ToSet(it.chunks)
  <2>1. it.kept # <<>> BY <1>1
  <2>2. KeptAt(it, it.next) BY <1>3, <1>4, <2>1 DEF TypeInv, ItersOK
  <2> QED BY <2>2 DEF KeptAt, ToSet
<1>5. \A off : LET item == Item(m, off) IN
        item.ts = m.ts /\ item.key = Key(item.ts) /\ item.id = m.id /\ item.iter = pulled
  BY DEF Item
<1>6. \A off, bytes : LET item == PortItem(m, off, bytes) IN
        item.ts = m.ts /\ item.key = Key(item.ts) /\ item.id = m.id /\ item.iter = pulled
  BY DEF PortItem
<1>7. /\ Advanced(it) = With(it, it.next, it.kept, it.cur + Step, it.buf)
      /\ \A buf \in Int : [Advanced(it) EXCEPT !.buf = buf] = With(it, it.next, it.kept, it.cur + Step, buf)
  BY <1>3, AdvancedFacts
<1> DEFINE buf == IF file[it.group].compressed THEN it.chunks[it.next] ELSE it.buf
           place == IF file[it.group].compressed THEN m.off ELSE file[it.group].chunks[it.chunks[it.next]].off + m.off
<1>8. CASE sdk = "go" /\ Serve
  <2>1. /\ heap' = Pushed(heap, Item(m, m.off))
        /\ iters' = [iters EXCEPT ![pulled] = With(it, it.next, it.kept, it.cur + Step, it.buf)]
    BY <1>3, <1>7, <1>8 DEF Serve
  <2> DEFINE item == Item(m, m.off)
  <2>4. Carries(item, it.buf) BY <1>8 DEF Carries, Item, Serve
  <2> HIDE DEF m
  <2>2. item.ts = m.ts /\ item.key = Key(item.ts) /\ item.id = m.id /\ item.iter = pulled BY <1>5
  <2> HIDE DEF item
  <2>3. \E j \in IterType : \E x : ToMessage(j, x) BY <1>1, <1>2, <1>3, <1>8, <2>1, <2>2, <2>4, MessageMoves DEF m, item
  <2> QED BY <1>1, <2>3
<1>9. CASE sdk = "go" /\ ServePreloaded
  <2>1. /\ heap' = Pushed(heap, Item(m, place))
        /\ iters' = [iters EXCEPT ![pulled] = [Advanced(it) EXCEPT !.buf = buf]]
        /\ query.costAware
    BY <1>9 DEF ServePreloaded
  <2>2. buf \in Int /\ buf \in {-1, 0} \cup ToSet(it.chunks) BY <1>3, <1>4, <2>1
  <2> DEFINE item == Item(m, place)
  <2>6. Carries(item, buf) BY <1>9, <2>1 DEF Carries, Item
  <2> HIDE DEF m, place, buf
  <2>3. iters' = [iters EXCEPT ![pulled] = With(it, it.next, it.kept, it.cur + Step, buf)] BY <1>7, <2>1, <2>2
  <2>4. item.ts = m.ts /\ item.key = Key(item.ts) /\ item.id = m.id /\ item.iter = pulled BY <1>5
  <2> HIDE DEF item
  <2>5. \E j \in IterType : \E x : ToMessage(j, x)
    BY <1>1, <1>2, <1>9, <2>1, <2>2, <2>3, <2>4, <2>6, MessageMoves DEF m, item
  <2> QED BY <1>1, <2>5
<1>10. CASE sdk # "go" /\ PortServe
  <2>1. /\ PortPushed(m, m.off, Slice(m))
        /\ iters' = [iters EXCEPT ![pulled] = With(it, it.next, it.kept, it.cur + Step, it.buf)]
    BY <1>3, <1>7, <1>10 DEF PortServe
  <2> DEFINE item == PortItem(m, m.off, Slice(m))
  <2>5. Carries(item, it.buf)
    <3>1. ~query.costAware BY <1>10 DEF PortServe
    <3>2. item.off = m.off /\ item.len = m.len /\ item.bytes = Slice(m) BY DEF PortItem
    <3> HIDE DEF item
    <3> QED BY <3>1, <3>2 DEF Carries
  <2> HIDE DEF m
  <2>2. item.ts = m.ts /\ item.key = Key(item.ts) /\ item.id = m.id /\ item.iter = pulled BY <1>6
  <2>3. heap' = IF sdk = "py" THEN Append(heap, item) ELSE Pushed(heap, item)
    <3>1. heap' = IF sdk = "ts" THEN Pushed(heap, item) ELSE Append(heap, item) BY <2>1 DEF PortPushed
    <3> HIDE DEF item
    <3> QED BY <1>10, <3>1
  <2> HIDE DEF item
  <2>4. \E j \in IterType : \E x : ToMessage(j, x) BY <1>1, <1>2, <1>3, <2>1, <2>2, <2>3, <2>5, MessageMoves DEF m
  <2> QED BY <1>1, <2>4
<1>11. CASE sdk # "go" /\ PortServePreloaded
  <2> DEFINE c == file[it.group].chunks[it.chunks[it.next]]
             bytes == IF file[it.group].compressed THEN Bytes(c.data, m.off, m.len) ELSE FileBytes(Loaded(c.off + m.off))
  <2>1. /\ PortPushed(m, place, bytes)
        /\ iters' = [iters EXCEPT ![pulled] = [Advanced(it) EXCEPT !.buf = buf]]
        /\ query.costAware
    BY <1>11 DEF ServePreloaded, PortServePreloaded
  <2>2. buf \in Int /\ buf \in {-1, 0} \cup ToSet(it.chunks) BY <1>3, <1>4, <2>1
  <2> DEFINE item == PortItem(m, place, bytes)
  <2>4. Carries(item, buf)
    <3>1. item.off = place /\ item.len = m.len /\ item.bytes = bytes BY DEF PortItem
    <3> HIDE DEF item
    <3> QED BY <2>1, <3>1 DEF Carries
  <2> HIDE DEF m, place, buf, c, bytes
  <2>3. iters' = [iters EXCEPT ![pulled] = With(it, it.next, it.kept, it.cur + Step, buf)] BY <1>7, <2>1, <2>2
  <2>5. item.ts = m.ts /\ item.key = Key(item.ts) /\ item.id = m.id /\ item.iter = pulled BY <1>6
  <2>6. heap' = IF sdk = "py" THEN Append(heap, item) ELSE Pushed(heap, item)
    <3>1. heap' = IF sdk = "ts" THEN Pushed(heap, item) ELSE Append(heap, item) BY <2>1 DEF PortPushed
    <3> HIDE DEF item
    <3> QED BY <1>11, <3>1
  <2> HIDE DEF item
  <2>7. \E j \in IterType : \E x : ToMessage(j, x) BY <1>1, <1>2, <2>2, <2>3, <2>4, <2>5, <2>6, MessageMoves DEF m
  <2> QED BY <1>1, <2>7
<1> QED BY <1>8, <1>9, <1>10, <1>11

(* The data of a chunk are read, or not. *)
LEMMA LoadDataMoves ==
  ASSUME TypeInv, pc = "chunk", sdk = "go" => LoadDataChunk, sdk # "go" => PortLoadDataChunk
  PROVE  UNCHANGED <<file, query>> /\ \E j \in IterType : ToData(j) \/ ToError(j) \/ ToCut(j)
<1> DEFINE at == it.next - Step
           first == First(it.kept)
<1>1. /\ pulled \in DOMAIN iters /\ it \in IterType /\ it = iters[pulled] /\ it.next \in Int
      /\ it.kept \in Seq(KeptMessage) /\ it.cur \in Int /\ it.buf \in Int /\ it.buf \in {-1, 0} \cup ToSet(it.chunks)
      /\ ToSet(it.chunks) \subseteq Int /\ it.chunks \in Seq(Nat)
  BY ItFacts
<1>2. /\ ~query.costAware /\ KeptAt(it, at) /\ (sdk # "ts" => it.cur = first)
      /\ iters \in Seq(IterType)
  BY DEF TypeInv, ItersOK
<1>3. CurrentChunk \in ToSet(it.chunks) BY <1>2 DEF CurrentChunk, KeptAt, ToSet
<1>4. at \in Int /\ first \in Int /\ (at \in 0 .. Len(it.chunks) + 1)
  <2>1. at \in Int BY <1>1, StepType
  <2>2. first \in Int BY <1>1, FirstType
  <2>3. at \in DOMAIN it.chunks BY <1>2 DEF KeptAt
  <2>4. at \in 0 .. Len(it.chunks) + 1 BY <1>1, <2>3
  <2> QED BY <2>1, <2>2, <2>4
<1> DEFINE read == With(it, it.next, it.kept, first, CurrentChunk)
           broken == With(it, it.next, it.kept, it.cur, -1)
           back == With(it, at, it.kept, it.cur, it.buf)
<1> HIDE DEF at, first
<1>5. /\ IsWith(read, it, it.next, it.kept, first, CurrentChunk)
      /\ IsWith(broken, it, it.next, it.kept, it.cur, -1)
      /\ IsWith(back, it, at, it.kept, it.cur, it.buf)
  <2>1. CurrentChunk \in Int BY <1>1, <1>3
  <2>2. IsWith(read, it, it.next, it.kept, first, CurrentChunk) BY <1>1, <1>4, <2>1, WithFacts
  <2>3. IsWith(broken, it, it.next, it.kept, it.cur, -1) BY <1>1, WithFacts
  <2>4. IsWith(back, it, at, it.kept, it.cur, it.buf) BY <1>1, <1>4, WithFacts
  <2> QED BY <2>2, <2>3, <2>4
<1>6. /\ sdk = "go" => [it EXCEPT !.buf = CurrentChunk] = read
      /\ [it EXCEPT !.buf = CurrentChunk, !.cur = first] = read
      /\ [it EXCEPT !.buf = -1] = broken
      /\ [it EXCEPT !.next = at] = back
  <2>1. CurrentChunk \in Int BY <1>1, <1>3
  <2>2. /\ \A b \in Int : /\ [it EXCEPT !.buf = b] = With(it, it.next, it.kept, it.cur, b)
                          /\ \A c \in Int : [it EXCEPT !.buf = b, !.cur = c] = With(it, it.next, it.kept, c, b)
        /\ \A n \in Int : [it EXCEPT !.next = n] = With(it, n, it.kept, it.cur, it.buf)
    BY <1>1, AdvancedFacts
  <2>3. [it EXCEPT !.buf = CurrentChunk] = With(it, it.next, it.kept, it.cur, CurrentChunk) BY <2>1, <2>2
  <2>4. [it EXCEPT !.buf = CurrentChunk, !.cur = first] = read BY <1>4, <2>1, <2>2
  <2>5. [it EXCEPT !.next = at] = back BY <1>4, <2>2
  <2>6. [it EXCEPT !.buf = -1] = broken
    <3> DEFINE b == -1
    <3>1. b \in Int OBVIOUS
    <3> HIDE DEF b
    <3>2. [it EXCEPT !.buf = b] = With(it, it.next, it.kept, it.cur, b) BY <2>2, <3>1
    <3> QED BY <3>2 DEF b
  <2> QED BY <1>2, <2>3, <2>4, <2>5, <2>6
<1> HIDE DEF read, broken, back
<1>7. ASSUME iters' = [iters EXCEPT ![pulled] = read], pc' = "pull",
             UNCHANGED <<pulled, heap, loaded, popped, delivered, result, failed>>
      PROVE  \E j \in IterType : ToData(j)
  <2>1. Becomes(read) BY <1>1, <1>3, <1>5, <1>7 DEF Becomes, IsWith
  <2>2. ToData(read) BY <1>5, <1>7, <2>1 DEF ToData, IsWith, first
  <2> QED BY <1>5, <2>2 DEF IsWith
<1>8. CASE sdk = "go"
  <2>1. ASSUME NEW j \in IterType, j.group = it.group, j.chunks = it.chunks, j.kept = it.kept, j.cur = it.cur, j.next = it.next,
               j.buf \in {-1, it.buf}, iters' = [iters EXCEPT ![pulled] = j], Failed
        PROVE  ToError(j)
    <3>1. Becomes(j) BY <1>1, <2>1 DEF Becomes
    <3> QED BY <1>2, <1>8, <2>1, <3>1 DEF ToError, Failed
  <2>2. CASE /\ iters' = [iters EXCEPT ![pulled].buf = CurrentChunk]
             /\ pc' = "pull"
             /\ UNCHANGED <<file, query, pulled, heap, loaded, popped, ranges, delivered, result, failed>>
    <3>1. iters' = [iters EXCEPT ![pulled] = read] BY <1>1, <1>6, <1>8, <2>2
    <3> QED BY <1>7, <2>2, <3>1
  <2>3. CASE Failed /\ UNCHANGED iters
    <3>1. iters' = [iters EXCEPT ![pulled] = it] BY <1>1, <1>2, <2>3
    <3>2. ToError(it) BY <1>1, <2>1, <2>3, <3>1
    <3> QED BY <1>1, <2>3, <3>2 DEF Failed
  <2>4. CASE Failed /\ iters' = [iters EXCEPT ![pulled].buf = -1]
    <3>1. iters' = [iters EXCEPT ![pulled] = broken] BY <1>1, <1>6, <2>4
    <3>2. ToError(broken) BY <1>5, <2>1, <2>4, <3>1 DEF IsWith
    <3> QED BY <1>5, <2>4, <3>2 DEF Failed, IsWith
  <2>5. ASSUME NEW j \in IterType, j.group = it.group, j.chunks = it.chunks, j.kept = it.kept, j.cur = it.cur, j.next = it.next,
               j.buf \in {-1, it.buf}, iters' = [iters EXCEPT ![pulled] = j], EndsWithEof
        PROVE  ToCut(j) /\ UNCHANGED <<file, query>>
    <3>1. Becomes(j) BY <1>1, <2>5 DEF Becomes
    <3>2. PortAnswered /\ UNCHANGED <<file, query, heap>> /\ failed' = TRUE BY <1>8, <2>5 DEF EndsWithEof, PortAnswered
    <3> QED BY <1>8, <2>5, <3>1, <3>2 DEF ToCut
  <2>6. CASE EndsWithEof /\ UNCHANGED iters
    <3>1. iters' = [iters EXCEPT ![pulled] = it] BY <1>1, <1>2, <2>6
    <3>2. ToCut(it) /\ UNCHANGED <<file, query>> BY <1>1, <2>5, <2>6, <3>1
    <3> QED BY <1>1, <3>2
  <2>7. CASE EndsWithEof /\ iters' = [iters EXCEPT ![pulled].buf = -1]
    <3>1. iters' = [iters EXCEPT ![pulled] = broken] BY <1>1, <1>6, <2>7
    <3>2. ToCut(broken) /\ UNCHANGED <<file, query>> BY <1>5, <2>5, <2>7, <3>1 DEF IsWith
    <3> QED BY <1>5, <3>2 DEF IsWith
  <2> QED BY <1>8, <2>2, <2>3, <2>4, <2>6, <2>7 DEF LoadDataChunk
<1>9. CASE sdk # "go"
  <2>1. CASE /\ iters' = [iters EXCEPT ![pulled] = [@ EXCEPT !.buf = CurrentChunk, !.cur = First(it.kept)]]
             /\ pc' = "pull"
             /\ UNCHANGED <<file, query, pulled, heap, loaded, popped, ranges, delivered, result, failed>>
    <3>1. iters' = [iters EXCEPT ![pulled] = read] BY <1>1, <1>6, <2>1 DEF first
    <3> QED BY <1>7, <2>1, <3>1
  <2>2. CASE PortFails /\ iters' = IF sdk = "ts" THEN [iters EXCEPT ![pulled].next = @ - Step] ELSE iters
    <3>1. CASE sdk = "ts"
      <4>1. iters' = [iters EXCEPT ![pulled] = back] BY <1>1, <1>6, <2>2, <3>1 DEF at
      <4>2. Becomes(back) BY <1>1, <1>5, <4>1 DEF Becomes, IsWith
      <4>3. ToError(back) BY <1>2, <1>4, <1>5, <2>2, <3>1, <4>2 DEF ToError, IsWith, PortFails
      <4> QED BY <1>5, <2>2, <4>3 DEF PortFails, IsWith
    <3>2. CASE sdk # "ts"
      <4>1. iters' = [iters EXCEPT ![pulled] = it] BY <1>1, <1>2, <2>2, <3>2
      <4>2. Becomes(it) BY <1>1, <4>1 DEF Becomes
      <4>3. ToError(it) BY <1>2, <2>2, <3>2, <4>2 DEF ToError, PortFails
      <4> QED BY <1>1, <2>2, <4>3 DEF PortFails
    <3> QED BY <3>1, <3>2
  <2> QED BY <1>9, <2>1, <2>2 DEF PortLoadDataChunk
<1> QED BY <1>8, <1>9

(* TypeScript without a buffer. *)
LEMMA NoBufferMoves ==
  ASSUME TypeInv, TsNoBuffer
  PROVE  UNCHANGED <<file, query>> /\ \E j \in IterType : ToError(j)
<1> DEFINE j == With(it, it.next, it.kept, it.cur + Step, it.buf)
<1>1. pc = "pull" /\ ~query.costAware /\ it.cur \in DOMAIN it.kept /\ PortFails BY DEF TsNoBuffer
<1>2. /\ pulled \in DOMAIN iters /\ it \in IterType /\ it = iters[pulled] /\ it.next \in Int /\ IterOK(it)
      /\ it.kept \in Seq(KeptMessage) /\ it.cur \in Int /\ it.buf \in Int /\ it.buf \in {-1, 0} \cup ToSet(it.chunks)
      /\ it.cur + Step \in Int
  BY <1>1, ItFacts, StepType
<1>3. IsWith(j, it, it.next, it.kept, it.cur + Step, it.buf) BY <1>2, WithFacts
<1>4. Advanced(it) = j BY <1>2, AdvancedFacts
<1> HIDE DEF j
<1>5. Becomes(j) BY <1>2, <1>3, <1>4 DEF Becomes, IsWith, TsNoBuffer
<1>6. j.next \in 0 .. Len(it.chunks) + 1 BY <1>2, <1>3 DEF IsWith, IterOK
<1>7. ToError(j) BY <1>1, <1>3, <1>5, <1>6 DEF ToError, IsWith, PortFails
<1> QED BY <1>1, <1>3, <1>7 DEF IsWith, PortFails

(* A chunk of a preloaded group cannot be decompressed. *)
LEMMA DecompressMoves ==
  ASSUME TypeInv, sdk = "go" => DecompressFails, sdk # "go" => PortDecompressFails
  PROVE  UNCHANGED <<file, query>> /\ \E j \in IterType : ToError(j)
<1> DEFINE broken == With(it, it.next, it.kept, it.cur, -1)
<1>1. /\ pc = "pull" /\ query.costAware /\ UNCHANGED <<file, query, heap, loaded, delivered>>
      /\ result' = "error" /\ failed' = TRUE /\ popped' = NoMessage /\ pulled' = 0
      /\ pc' = IF sdk = "ts" /\ ~loaded THEN "start" ELSE "idle"
      /\ UNCHANGED iters \/ iters' = [iters EXCEPT ![pulled].buf = -1]
  BY DEF DecompressFails, PortDecompressFails, Failed, PortFails
<1>2. /\ pulled \in DOMAIN iters /\ it \in IterType /\ it = iters[pulled] /\ it.next \in Int
      /\ it.kept \in Seq(KeptMessage) /\ it.cur \in Int /\ it.buf \in Int /\ it.buf \in {-1, 0} \cup ToSet(it.chunks)
  BY <1>1, ItFacts
<1>3. iters \in Seq(IterType) BY DEF TypeInv, ItersOK
<1>4. IsWith(broken, it, it.next, it.kept, it.cur, -1) BY <1>2, WithFacts
<1>5. [it EXCEPT !.buf = -1] = broken
  <2> DEFINE b == -1
  <2>1. \A x \in Int : [it EXCEPT !.buf = x] = With(it, it.next, it.kept, it.cur, x) BY <1>2, AdvancedFacts
  <2>2. b \in Int OBVIOUS
  <2> HIDE DEF b
  <2>3. [it EXCEPT !.buf = b] = With(it, it.next, it.kept, it.cur, b) BY <2>1, <2>2
  <2> QED BY <2>3 DEF b
<1> HIDE DEF broken
<1>6. ASSUME NEW j \in IterType, j.group = it.group, j.chunks = it.chunks, j.kept = it.kept, j.cur = it.cur, j.next = it.next,
             j.buf \in {-1, it.buf}, iters' = [iters EXCEPT ![pulled] = j]
      PROVE  ToError(j)
  <2>1. Becomes(j) BY <1>2, <1>6 DEF Becomes
  <2> QED BY <1>1, <1>6, <2>1 DEF ToError
<1>7. CASE UNCHANGED iters
  <2>1. iters' = [iters EXCEPT ![pulled] = it] BY <1>2, <1>3, <1>7
  <2>2. ToError(it) BY <1>2, <1>6, <2>1
  <2> QED BY <1>1, <1>2, <2>2
<1>8. CASE iters' = [iters EXCEPT ![pulled].buf = -1]
  <2>1. iters' = [iters EXCEPT ![pulled] = broken] BY <1>2, <1>5, <1>8
  <2>2. ToError(broken) BY <1>4, <1>6, <2>1 DEF IsWith
  <2> QED BY <1>1, <1>4, <2>2 DEF IsWith
<1> QED BY <1>1, <1>7, <1>8

(* The next chunk of a preloaded group. *)
LEMMA AdvanceChunkMoves ==
  ASSUME TypeInv, AdvanceChunk
  PROVE  UNCHANGED <<file, query>> /\ \E j \in IterType : ToChunk(j)
<1> DEFINE next == it.next + Step
           kept == IF next \in DOMAIN it.chunks THEN Kept(it.group, it.chunks[next]) ELSE <<>>
           j == With(it, next, kept, First(kept), it.buf)
<1>1. /\ pc = "pull" /\ query.costAware /\ it.cur \notin DOMAIN it.kept /\ it.next \in DOMAIN it.chunks
      /\ UNCHANGED <<file, query, pc, pulled, heap, loaded, popped, ranges, delivered, result, failed>>
      /\ iters' = [iters EXCEPT ![pulled] = [@ EXCEPT !.next = next, !.kept = kept, !.cur = First(kept)]]
  BY DEF AdvanceChunk
<1>2. /\ pulled \in DOMAIN iters /\ it \in IterType /\ IterOK(it) /\ it = iters[pulled] /\ it.next \in Int /\ file \in Files
      /\ it.kept \in Seq(KeptMessage) /\ it.cur \in Int /\ it.buf \in Int /\ it.buf \in {-1, 0} \cup ToSet(it.chunks)
  BY <1>1, ItFacts DEF TypeInv, ItersOK
<1>3. next \in Int /\ kept \in Seq(KeptMessage) /\ First(kept) \in Int
  <2>1. next \in Int BY <1>2, StepType
  <2>2. kept \in Seq(KeptMessage)
    <3> HIDE DEF next
    <3> QED BY <1>2, KeptSeq
  <2> HIDE DEF kept
  <2> QED BY <2>1, <2>2, FirstType
<1>4. /\ kept = <<>> \/ (next \in DOMAIN it.chunks /\ kept = Kept(it.group, it.chunks[next]))
      /\ next \in DOMAIN it.chunks => kept = Kept(it.group, it.chunks[next])
  OBVIOUS
<1> HIDE DEF next, kept
<1>5. IsWith(j, it, next, kept, First(kept), it.buf) BY <1>2, <1>3, WithFacts
<1>6. [it EXCEPT !.next = next, !.kept = kept, !.cur = First(kept)] = j
  <2>1. \A n \in Int : \A k \in Seq(KeptMessage) : \A c \in Int :
          [it EXCEPT !.next = n, !.kept = k, !.cur = c] = With(it, n, k, c, it.buf)
    BY <1>2, AdvancedFacts
  <2> QED BY <1>3, <2>1
<1> HIDE DEF j
<1>7. iters' = [iters EXCEPT ![pulled] = j] BY <1>1, <1>2, <1>6
<1>8. Becomes(j) BY <1>2, <1>5, <1>7 DEF Becomes, IsWith
<1>9. ToChunk(j) BY <1>1, <1>4, <1>5, <1>8 DEF ToChunk, IsWith, KeptAt, next
<1> QED BY <1>1, <1>5, <1>9 DEF IsWith

(* The least item leaves the heap. *)
LEMMA PopMoves ==
  ASSUME TypeInv, HeapInv,
         \/ sdk = "go" /\ Pop
         \/ sdk = "ts" /\ TsPop
         \/ sdk = "py" /\ PyYield
  PROVE  UNCHANGED <<file, query>> /\ \E p \in DOMAIN heap : ToPop(p)
<1>1. /\ heap # <<>> /\ IsSeq(heap) /\ (sdk # "py" => IsHeap(heap)) /\ \A h \in DOMAIN heap : heap[h].key \in Int
  <2>1. heap # <<>> BY DEF Pop, TsPop, PyYield
  <2>2. \A h \in DOMAIN heap : heap[h].key \in Int BY DEF HeapInv, Key
  <2> QED BY <2>1, <2>2 DEF HeapInv
<1>2. CASE sdk # "py"
  <2>1. /\ Drops(heap, Popped(heap), 1) /\ 1 \in DOMAIN heap /\ Head(heap) = heap[1]
        /\ IsHeap(Popped(heap)) /\ \A k \in DOMAIN heap : heap[1].key <= heap[k].key
    BY <1>1, <1>2, PopDrops
  <2>2. /\ pc = "pop" /\ popped'.item = Head(heap) /\ heap' = Popped(heap) /\ pulled' = Head(heap).iter /\ pc' = "pull"
        /\ UNCHANGED <<file, query, iters, loaded, delivered, result, failed>>
    BY <1>2 DEF Pop, TsPop
  <2>4. Returned(popped') = Carried(heap[1])
    <3> DEFINE item == heap[1]
               bytes == IF sdk = "go" THEN Payload(item) ELSE item.bytes
    <3>1. popped' = [item |-> item, bytes |-> bytes]
      <4>1. CASE sdk = "go" BY <2>1, <4>1 DEF Pop
      <4>2. CASE sdk = "ts" BY <2>1, <4>2 DEF TsPop
      <4> QED BY <1>2, <4>1, <4>2
    <3>2. Carried(item) = [id |-> item.id, ts |-> item.ts, bytes |-> bytes] BY DEF Carried
    <3> HIDE DEF item, bytes
    <3>3. Returned(popped') = [id |-> item.id, ts |-> item.ts, bytes |-> bytes] BY <3>1 DEF Returned
    <3> QED BY <3>2, <3>3 DEF item
  <2>3. ToPop(1) BY <1>2, <2>1, <2>2, <2>4 DEF ToPop
  <2> QED BY <2>1, <2>2, <2>3
<1>3. CASE sdk = "py"
  <2> DEFINE item == heap[LeastKey]
             m == [id |-> item.id, ts |-> item.ts, bytes |-> item.bytes]
  <2>1. LeastKey \in DOMAIN heap /\ \A j \in DOMAIN heap : heap[LeastKey].key <= heap[j].key BY <1>1, LeastKeyFacts
  <2>2. Drops(heap, RemoveAt(heap, LeastKey), LeastKey) BY <1>1, <2>1, RemoveDrops
  <2>3. /\ pc = "pop" /\ popped'.item = item /\ heap' = RemoveAt(heap, LeastKey) /\ pulled' = pulled /\ pc' = "idle"
        /\ result' = "message" /\ delivered' = Append(delivered, m)
        /\ UNCHANGED <<file, query, iters, loaded, failed>>
    BY <1>3 DEF PyYield
  <2>4. m.ts = item.ts /\ m = Carried(item) BY <1>3 DEF Carried
  <2>6. Returned(popped') = m
    <3>1. popped' = [item |-> item, bytes |-> item.bytes] BY <1>3 DEF PyYield
    <3> HIDE DEF item
    <3> QED BY <3>1 DEF Returned
  <2> HIDE DEF m
  <2>7. item = heap[LeastKey] OBVIOUS
  <2> HIDE DEF item
  <2>5. ToPop(LeastKey) BY <1>3, <2>1, <2>2, <2>3, <2>4, <2>6, <2>7 DEF ToPop
  <2> QED BY <2>1, <2>3, <2>5
<1> QED BY <1>2, <1>3

(* A call of NextInto, next() or __next__ begins. *)
LEMMA CallMoves ==
  ASSUME TypeInv,
         \/ sdk # "py" /\ Call
         \/ sdk = "py" /\ PyCall
  PROVE  UNCHANGED <<file, query>> /\ (ToCall \/ ToCallAgain \/ ToEof)
<1>1. pc = "idle" /\ loaded \in BOOLEAN /\ failed \in BOOLEAN BY DEF Call, PyCall, TypeInv, ItersOK
<1>2. CASE sdk # "py"
  <2>1. CASE loaded BY <1>1, <1>2, <2>1 DEF Call, ToCallAgain
  <2>2. CASE ~loaded BY <1>1, <1>2, <2>2 DEF Call, ToCall
  <2> QED BY <2>1, <2>2
<1>3. CASE sdk = "py"
  <2>0. PyCall BY <1>3
  <2>1. UNCHANGED <<file, query, iters, heap, popped, delivered, failed>> BY <2>0 DEF PyCall
  <2>2. CASE failed \/ result = "eof" BY <1>1, <1>3, <2>0, <2>1, <2>2 DEF PyCall, ToEof
  <2>3. CASE ~(failed \/ result = "eof")
    <3>1. /\ result' = "none" /\ loaded' = (loaded \/ iters = <<>>)
          /\ pulled' = IF loaded THEN popped.item.iter ELSE IF iters = <<>> THEN 0 ELSE 1
          /\ pc' = IF pulled' = 0 THEN "pop" ELSE "pull"
      BY <2>0, <2>3 DEF PyCall
    <3>2. CASE loaded
      <4>1. loaded' = loaded BY <1>1, <3>1, <3>2
      <4> QED BY <1>1, <1>3, <2>1, <2>3, <3>1, <3>2, <4>1 DEF ToCallAgain
    <3>3. CASE ~loaded
      <4>1. IF iters = <<>> THEN pulled' = 0 /\ pc' = "pop" /\ loaded' = TRUE
            ELSE pulled' = 1 /\ pc' = "pull" /\ loaded' = loaded
        <5>1. CASE iters = <<>> BY <3>1, <3>3, <5>1
        <5>2. CASE iters # <<>> BY <1>1, <3>1, <3>3, <5>2
        <5> QED BY <5>1, <5>2
      <4> QED BY <1>1, <2>1, <2>3, <3>1, <3>3, <4>1 DEF ToCall
    <3> QED BY <3>2, <3>3
  <2> QED BY <2>2, <2>3
<1> QED BY <1>2, <1>3

(* A plan is made, fetched or refused. *)
LEMMA PlanMoves ==
  ASSUME TypeInv, PlanIndexes \/ PlanData \/ FetchFails \/ (sdk = "ts" /\ TsFetchFails)
  PROVE  UNCHANGED <<file, query>> /\ ToPlan
<1>1. pc \in {"start", "indexes", "data"} /\ query.costAware
  BY DEF PlanIndexes, PlanData, FetchFails, TsFetchFails, TypeInv, ItersOK
<1>2. CASE PlanIndexes
  <2>1. pc' = "idle" \/ pc' = "indexes" BY <1>2 DEF PlanIndexes
  <2> QED BY <1>1, <1>2, <2>1 DEF PlanIndexes, ToPlan
<1>3. CASE PlanData BY <1>1, <1>3 DEF PlanData, ToPlan
<1>4. CASE FetchFails BY <1>1, <1>4 DEF FetchFails, ToPlan
<1>5. CASE sdk = "ts" /\ TsFetchFails BY <1>1, <1>5 DEF TsFetchFails, ToPlan
<1> QED BY <1>2, <1>3, <1>4, <1>5

LEMMA ChunksType ==
  ASSUME file \in Files, NEW g \in DOMAIN file
  PROVE  /\ g \in Nat /\ Chunks(g) \in Seq(Nat) /\ KeptChunks(g) \in Seq(Nat)
         /\ First(Chunks(g)) \in Int /\ First(KeptChunks(g)) \in Int
         /\ (KeptChunks(g) # <<>> => First(KeptChunks(g)) \in DOMAIN KeptChunks(g))
<1>1. g \in Nat BY FileFacts
<1>2. Chunks(g) \in Seq(DOMAIN file[g].chunks) /\ KeptChunks(g) \in Seq(DOMAIN file[g].chunks)
  BY ChunksFacts DEF Places
<1>3. DOMAIN file[g].chunks \subseteq Nat
  <2>1. file[g].chunks \in Seq(Chunk) BY FileFacts
  <2> QED BY <2>1
<1>4. Chunks(g) \in Seq(Nat) /\ KeptChunks(g) \in Seq(Nat) BY <1>2, <1>3
<1> QED BY <1>1, <1>4, FirstType

(* The group iterators are made. *)
LEMMA IteratorMoves ==
  ASSUME TypeInv,
         \/ sdk = "go" /\ PrepareLazy
         \/ sdk # "go" /\ PortPrepareLazy
         \/ Preload
  PROVE  UNCHANGED <<file, query>> /\ ToIterators
<1> DEFINE Lazy(g) == [Iterator(g, Chunks(g), <<>>) EXCEPT !.cur = 1]
           c(g) == KeptChunks(g)
           Full(g) == Iterator(g, c(g), Kept(g, c(g)[First(c(g))]))
<1>1. /\ pc' = "idle" /\ UNCHANGED <<file, query, pulled, heap, loaded, popped, delivered, result, failed>>
      /\ file \in Files
      /\ pc \in {"start", "data"}
  BY DEF PrepareLazy, PortPrepareLazy, Preload, TypeInv, ItersOK
<1>2. Planned \in Seq(DOMAIN file) /\ (query.costAware => \A k \in DOMAIN Planned : KeptChunks(Planned[k]) # <<>>)
  BY <1>1, ScopedFacts
<1>3. \A k \in DOMAIN Planned : Planned[k] \in DOMAIN file BY <1>2
<1>4. CASE ~query.costAware
  <2>1. iters' = [k \in DOMAIN Planned |-> Lazy(Planned[k])]
    BY <1>4 DEF PrepareLazy, PortPrepareLazy, Preload, Planned, TypeInv, ItersOK
  <2>2. ASSUME NEW k \in DOMAIN Planned
        PROVE  LET i == Lazy(Planned[k]) IN
               /\ i \in IterType
               /\ i.group = Planned[k] /\ i.buf = 0 /\ i.next = First(i.chunks) /\ Places(i.chunks, i.group)
               /\ i.chunks = Listed(i.group)
               /\ i.kept = <<>> /\ i.cur = 1
    <3> DEFINE g == Planned[k]
               chunks == Chunks(g)
               T == Seq(KeptMessage)
    <3>1. g \in DOMAIN file BY <1>3
    <3> HIDE DEF g
    <3>2. g \in Nat /\ chunks \in Seq(Nat) /\ First(chunks) \in Int /\ Places(chunks, g) BY <1>1, <3>1, ChunksFacts, ChunksType
    <3> DEFINE next == First(chunks)
    <3>3. Lazy(g) = [group |-> g, chunks |-> chunks, next |-> next, kept |-> <<>>, cur |-> 1, buf |-> 0] BY DEF Iterator
    <3>31. <<>> \in T OBVIOUS
    <3>32. IterType = [group : Nat, chunks : Seq(Nat), next : Int, kept : T, cur : Int, buf : Int] BY DEF IterType
    <3> HIDE DEF chunks, Lazy, next, T
    <3>4. Lazy(g) \in IterType BY <3>2, <3>3, <3>31, <3>32 DEF next
    <3>5. chunks = Listed(g) BY <1>4 DEF chunks, Listed
    <3> QED BY <3>2, <3>3, <3>4, <3>5 DEF g, next
  <2> HIDE DEF Lazy
  <2>3. /\ DOMAIN iters' = DOMAIN Planned /\ iters' \in Seq(IterType)
        /\ \A k \in DOMAIN Planned : iters'[k] = Lazy(Planned[k])
    <3>1. \A k \in DOMAIN Planned : Lazy(Planned[k]) \in IterType BY <2>2
    <3>2. DOMAIN Planned = 1 .. Len(Planned) /\ Len(Planned) \in Nat BY <1>2
    <3> QED BY <2>1, <3>1, <3>2
  <2> QED BY <1>1, <1>4, <2>2, <2>3 DEF ToIterators
<1>5. CASE query.costAware
  <2>1. iters' = [k \in DOMAIN Planned |-> Full(Planned[k])]
    BY <1>5 DEF PrepareLazy, PortPrepareLazy, Preload, Planned, TypeInv, ItersOK
  <2>2. ASSUME NEW k \in DOMAIN Planned
        PROVE  LET i == Full(Planned[k]) IN
               /\ i \in IterType
               /\ i.group = Planned[k] /\ i.buf = 0 /\ i.next = First(i.chunks) /\ Places(i.chunks, i.group)
               /\ i.chunks = Listed(i.group)
               /\ KeptAt(i, i.next) /\ i.cur = First(i.kept)
    <3> DEFINE g == Planned[k]
               chunks == KeptChunks(g)
               kept == Kept(g, chunks[First(chunks)])
               T == Seq(KeptMessage)
    <3>1. g \in DOMAIN file /\ chunks # <<>> BY <1>2, <1>3, <1>5
    <3> HIDE DEF g
    <3>2. /\ g \in Nat /\ chunks \in Seq(Nat) /\ First(chunks) \in Int /\ Places(chunks, g) /\ First(chunks) \in DOMAIN chunks
      BY <1>1, <3>1, ChunksFacts, ChunksType
    <3>3. chunks[First(chunks)] \in DOMAIN file[g].chunks
      <4> HIDE DEF chunks
      <4> QED BY <3>2 DEF Places
    <3>4. kept \in T
      <4>1. FromChunk(kept, file[g].chunks[chunks[First(chunks)]], file[g].ids) BY <1>1, <3>1, <3>3, KeptFacts
      <4> QED BY <4>1 DEF FromChunk
    <3>5. First(kept) \in Int
      <4> HIDE DEF kept
      <4> QED BY <3>4, FirstType
    <3> DEFINE next == First(chunks)
               cur == First(kept)
    <3>6. Full(g) = [group |-> g, chunks |-> chunks, next |-> next, kept |-> kept, cur |-> cur, buf |-> 0] BY DEF Iterator
    <3>61. IterType = [group : Nat, chunks : Seq(Nat), next : Int, kept : T, cur : Int, buf : Int] BY DEF IterType
    <3>62. kept = Kept(g, chunks[next]) /\ next = First(chunks) /\ cur = First(kept) OBVIOUS
    <3> HIDE DEF chunks, kept, Full, next, cur, T
    <3>7. Full(g) \in IterType BY <3>2, <3>4, <3>5, <3>6, <3>61, <3>62
    <3>8. chunks = Listed(g) BY <1>5 DEF chunks, Listed
    <3> QED BY <3>2, <3>6, <3>7, <3>8, <3>62 DEF g, KeptAt
  <2> HIDE DEF Full
  <2>3. /\ DOMAIN iters' = DOMAIN Planned /\ iters' \in Seq(IterType)
        /\ \A k \in DOMAIN Planned : iters'[k] = Full(Planned[k])
    <3>1. \A k \in DOMAIN Planned : Full(Planned[k]) \in IterType BY <2>2
    <3>2. DOMAIN Planned = 1 .. Len(Planned) /\ Len(Planned) \in Nat BY <1>2
    <3> QED BY <2>1, <3>1, <3>2
  <2>4. \A k \in DOMAIN Planned : KeptAt(iters'[k], iters'[k].next)
    BY <2>2, <2>3
  <2>5. pc = "data" BY <1>5 DEF PrepareLazy, PortPrepareLazy, Preload
  <2> QED BY <1>1, <1>5, <2>2, <2>3, <2>4, <2>5 DEF ToIterators
<1>6. query.costAware \in BOOLEAN
  <2>1. query \in Queries BY DEF TypeInv, ItersOK
  <2> QED BY <2>1, IteratorAssumption
<1> QED BY <1>4, <1>5, <1>6

(* Only a plan has ranges to set. *)
LEMMA RangesMove ==
  ASSUME [SdkNext]_portVars
  PROVE  UNCHANGED ranges \/ PlanIndexes \/ PlanData
<1> SUFFICES ASSUME ~UNCHANGED ranges PROVE PlanIndexes \/ PlanData OBVIOUS
<1>1. ~PrepareLazy /\ ~Preload /\ ~FetchFails /\ ~Call /\ ~Pop /\ ~Eof /\ ~EndOfGroup /\ ~Panic /\ ~Over
  BY DEF PrepareLazy, Preload, FetchFails, Call, Pop, Eof, EndOfGroup, Panic, Over, vars
<1>2. ~LoadIndexChunk /\ ~LoadDataChunk /\ ~Serve /\ ~AdvanceChunk /\ ~ServePreloaded /\ ~DecompressFails
  BY DEF LoadIndexChunk, LoadDataChunk, Failed, EndsWithEof, Serve, AdvanceChunk, ServePreloaded, DecompressFails
<1>3. ~PortPrepareLazy /\ ~TsFetchFails /\ ~TsPop /\ ~PyCall /\ ~PyYield /\ ~PortEndOfGroup
  BY DEF PortPrepareLazy, TsFetchFails, TsPop, PyCall, PyYield, PortEndOfGroup
<1>4. ~PortLoadIndexChunk /\ ~PortLoadDataChunk /\ ~PortServe /\ ~TsNoBuffer /\ ~PortServePreloaded /\ ~PortDecompressFails
  BY DEF PortLoadIndexChunk, PortLoadDataChunk, PortFails, PortServe, TsNoBuffer, PortServePreloaded, PortDecompressFails
<1>5. SdkNext BY DEF portVars, vars
<1> QED BY <1>1, <1>2, <1>3, <1>4, <1>5
       DEF SdkNext, Next, Prepare, Answer, PortNext, PortPrepare, TsPrepareCostAware, PyPrepareCostAware

(* Every step is one of the moves. *)
LEMMA StepMoves ==
  ASSUME TypeInv, HeapInv, [SdkNext]_portVars
  PROVE  Moves
<1>0. ToPlan \/ UNCHANGED ranges
  <2>1. UNCHANGED ranges \/ PlanIndexes \/ PlanData BY RangesMove
  <2> QED BY <2>1, PlanMoves
<1>1. CASE UNCHANGED portVars BY <1>1 DEF Moves, portVars, vars
<1>2. CASE SdkNext
  <2>1. UNCHANGED sdk /\ sdk \in {"go", "ts", "py"} BY <1>2 DEF SdkNext, PortNext, TypeInv, ItersOK
  <2>2. CASE Over BY <2>1, <2>2 DEF Over, Moves, vars
  <2>3. CASE PlanIndexes \/ PlanData \/ FetchFails \/ (sdk = "ts" /\ TsFetchFails) BY <1>0, <2>1, <2>3, PlanMoves DEF Moves
  <2>4. CASE (sdk = "go" /\ PrepareLazy) \/ (sdk # "go" /\ PortPrepareLazy) \/ Preload BY <1>0, <2>1, <2>4, IteratorMoves DEF Moves
  <2>5. CASE (sdk # "py" /\ Call) \/ (sdk = "py" /\ PyCall) BY <1>0, <2>1, <2>5, CallMoves DEF Moves
  <2>6. CASE (sdk = "go" /\ Pop) \/ (sdk = "ts" /\ TsPop) \/ (sdk = "py" /\ PyYield)
    <3>1. UNCHANGED <<file, query>> /\ \E p \in DOMAIN heap : ToPop(p) BY <2>6, PopMoves
    <3> QED BY <1>0, <2>1, <3>1 DEF Moves
  <2>7. CASE Eof BY <1>0, <2>1, <2>7 DEF Eof, ToEof, Moves
  <2>8. CASE (sdk = "go" /\ EndOfGroup) \/ (sdk # "go" /\ PortEndOfGroup)
    BY <1>0, <2>1, <2>8 DEF EndOfGroup, PortEndOfGroup, PortAnswered, ToEndOfGroup, Moves
  <2>9. CASE (sdk = "go" /\ LoadIndexChunk) \/ (sdk # "go" /\ PortLoadIndexChunk)
    <3>1. UNCHANGED <<file, query>> /\ \E j \in IterType : ToChunk(j) \/ ToError(j) \/ ToCut(j)
      BY <2>9, LoadIndexMoves
    <3> QED BY <1>0, <2>1, <3>1 DEF Moves
  <2>10. CASE (sdk = "go" /\ LoadDataChunk) \/ (sdk # "go" /\ PortLoadDataChunk)
    <3>1. pc = "chunk" BY <2>10 DEF LoadDataChunk, PortLoadDataChunk
    <3>2. UNCHANGED <<file, query>> /\ \E j \in IterType : ToData(j) \/ ToError(j) \/ ToCut(j)
      BY <2>10, <3>1, LoadDataMoves
    <3> QED BY <1>0, <2>1, <3>2 DEF Moves
  <2>11. CASE AdvanceChunk
    <3>1. UNCHANGED <<file, query>> /\ \E j \in IterType : ToChunk(j) BY <2>11, AdvanceChunkMoves
    <3> QED BY <1>0, <2>1, <3>1 DEF Moves
  <2>12. CASE TsNoBuffer
    <3>1. UNCHANGED <<file, query>> /\ \E j \in IterType : ToError(j) BY <2>12, NoBufferMoves
    <3> QED BY <1>0, <2>1, <3>1 DEF Moves
  <2>13. CASE sdk = "go" /\ Panic BY <1>0, <2>1, <2>13 DEF Panic, ToPanic, Moves
  <2>14. CASE (sdk = "go" /\ (Serve \/ ServePreloaded)) \/ (sdk # "go" /\ (PortServe \/ PortServePreloaded))
    <3>1. UNCHANGED <<file, query>> /\ \E j \in IterType : \E x : ToMessage(j, x) BY <1>0, <2>1, <2>14, ServeMoves
    <3> QED BY <1>0, <2>1, <3>1 DEF Moves
  <2>17. CASE (sdk = "go" /\ DecompressFails) \/ (sdk # "go" /\ PortDecompressFails)
    <3>1. UNCHANGED <<file, query>> /\ \E j \in IterType : ToError(j) BY <2>17, DecompressMoves
    <3> QED BY <1>0, <2>1, <3>1 DEF Moves
  <2>15. CASE sdk = "go" /\ Next
    BY <2>2, <2>3, <2>4, <2>5, <2>6, <2>7, <2>8, <2>9, <2>10, <2>11, <2>13, <2>14, <2>15, <2>17 DEF Next, Prepare, Answer
  <2>16. CASE sdk # "go" /\ PortNext
    BY <2>1, <2>2, <2>3, <2>4, <2>5, <2>6, <2>7, <2>8, <2>9, <2>10, <2>11, <2>12, <2>14, <2>16, <2>17
       DEF PortNext, PortPrepare, TsPrepareCostAware, PyPrepareCostAware
  <2> QED BY <1>2, <2>15, <2>16 DEF SdkNext
<1> QED BY <1>1, <1>2
-----------------------------------------------------------------------------
(* The types. *)

LEMMA Frame ==
  ASSUME UNCHANGED <<file, query, sdk>>
  PROVE  /\ Planned' = Planned /\ Step' = Step /\ (TiesInFile' <=> TiesInFile)
         /\ \A i : /\ IterOK(i)' <=> IterOK(i)
                   /\ Serving(i)' = Serving(i)
         /\ \A i, n : KeptAt(i, n)' <=> KeptAt(i, n)
         /\ \A i, cur, x : Passes(i, cur, x)' <=> Passes(i, cur, x)
         /\ \A s : First(s)' = First(s)
         /\ \A t : Key(t)' = Key(t)
<1>1. Planned' = Planned BY DEF Planned, Scoped, Matching, GroupMatches, KeptChunks, Chunks, Kept
<1>2. Step' = Step /\ (TiesInFile' <=> TiesInFile) BY DEF Step, TiesInFile
<1>3. \A i : IterOK(i)' <=> IterOK(i) BY DEF IterOK, Kept
<1>4. \A i : Serving(i)' = Serving(i) BY DEF Serving, Step
<1>5. \A i, n : KeptAt(i, n)' <=> KeptAt(i, n) BY DEF KeptAt, Kept
<1>6. \A i, cur, x : Passes(i, cur, x)' <=> Passes(i, cur, x) BY DEF Passes, Kept, Ahead, NextOf, Key, Step
<1>7. \A s : First(s)' = First(s) BY DEF First
<1>8. \A t : Key(t)' = Key(t) BY DEF Key
<1> QED BY <1>1, <1>2, <1>3, <1>4, <1>5, <1>6, <1>7, <1>8

LEMMA BecomesFacts ==
  ASSUME TypeInv, NEW j, Becomes(j)
  PROVE  /\ iters' \in Seq(IterType) /\ DOMAIN iters' = DOMAIN iters /\ Len(iters') = Len(iters)
         /\ iters'[pulled] = j /\ pulled \in DOMAIN iters
         /\ \A k \in DOMAIN iters : k # pulled => iters'[k] = iters[k]
         /\ \A k \in DOMAIN iters : iters'[k].group = iters[k].group /\ iters'[k].chunks = iters[k].chunks
<1>1. iters \in Seq(IterType) BY DEF TypeInv, ItersOK
<1>2. pulled \in DOMAIN iters /\ iters' = [iters EXCEPT ![pulled] = j] /\ j \in IterType
      /\ j.group = iters[pulled].group /\ j.chunks = iters[pulled].chunks
  BY DEF Becomes, it
<1>3. iters' \in Seq(IterType) /\ DOMAIN iters' = DOMAIN iters /\ Len(iters') = Len(iters) BY <1>1, <1>2
<1> QED BY <1>1, <1>2, <1>3

(* What a group may become. *)
LEMMA BecomesOK ==
  ASSUME TypeInv, UNCHANGED <<file, query, sdk>>, NEW j, Becomes(j),
         j.next \in 0 .. Len(it.chunks) + 1, j.cur \in Int,
         j.kept = it.kept \/ j.kept = <<>> \/ \E n : KeptAt(j, n),
         query.costAware => j.kept = <<>> \/ KeptAt(j, j.next)
  PROVE  ItersOK'
<1>1. /\ iters' \in Seq(IterType) /\ DOMAIN iters' = DOMAIN iters
      /\ iters'[pulled] = j /\ pulled \in DOMAIN iters
      /\ \A k \in DOMAIN iters : k # pulled => iters'[k] = iters[k]
      /\ \A k \in DOMAIN iters : iters'[k].group = iters[k].group
  BY BecomesFacts
<1>2. IterOK(iters[pulled]) /\ \A k \in DOMAIN iters : IterOK(iters[k]) BY <1>1 DEF TypeInv, ItersOK
<1>3. IterOK(j)
  <2>1. j.group = iters[pulled].group /\ j.chunks = iters[pulled].chunks /\ j.buf \in {-1, 0} \cup ToSet(j.chunks)
        /\ j.next \in 0 .. Len(j.chunks) + 1
    BY DEF Becomes, it
  <2>2. j.kept = <<>> \/ \E n \in DOMAIN j.chunks : j.kept = Kept(j.group, j.chunks[n])
    <3>1. CASE j.kept = it.kept BY <1>2, <2>1, <3>1 DEF IterOK, it
    <3>2. CASE j.kept = <<>> BY <3>2
    <3>3. CASE \E n : KeptAt(j, n) BY <3>3 DEF KeptAt
    <3> QED BY <3>1, <3>2, <3>3
  <2> QED BY <1>2, <2>1, <2>2 DEF IterOK
<1>4. \A k \in DOMAIN iters' : IterOK(iters'[k]) BY <1>1, <1>2, <1>3
<1>5. (\A k \in DOMAIN iters : IterOK(iters[k]))' BY <1>4, Frame
<1>6. (iters = <<>> \/ (DOMAIN iters = DOMAIN Planned /\ \A k \in DOMAIN iters : iters[k].group = Planned[k]))'
  <2>1. iters # <<>> BY <1>1
  <2>2. Planned' = Planned BY Frame
  <2> QED BY <1>1, <2>1, <2>2 DEF TypeInv, ItersOK
<1>7. (query.costAware => \A k \in DOMAIN iters : iters[k].kept = <<>> \/ KeptAt(iters[k], iters[k].next))'
  <2>1. query.costAware => \A k \in DOMAIN iters' : iters'[k].kept = <<>> \/ KeptAt(iters'[k], iters'[k].next)
    BY <1>1 DEF TypeInv, ItersOK
  <2> QED BY <2>1, Frame
<1> QED BY <1>1, <1>5, <1>6, <1>7 DEF ItersOK

LEMMA SameItersOK ==
  ASSUME TypeInv, UNCHANGED <<file, query, sdk, iters>>
  PROVE  ItersOK'
<1>1. (\A k \in DOMAIN iters : IterOK(iters[k]))' BY Frame DEF TypeInv, ItersOK
<1>2. (query.costAware => \A k \in DOMAIN iters : iters[k].kept = <<>> \/ KeptAt(iters[k], iters[k].next))'
  BY Frame DEF TypeInv, ItersOK
<1>3. Planned' = Planned BY Frame
<1> QED BY <1>1, <1>2, <1>3 DEF TypeInv, ItersOK

LEMMA NewItersOK ==
  ASSUME TypeInv, UNCHANGED <<file, query, sdk>>, ToIterators
  PROVE  ItersOK' /\ (iters = <<>> \/ DOMAIN iters' = DOMAIN iters)
<1>1. /\ iters' \in Seq(IterType) /\ DOMAIN iters' = DOMAIN Planned /\ file \in Files
      /\ \A k \in DOMAIN iters' : iters'[k].group = Planned[k]
  BY DEF ToIterators, TypeInv
<1>2. Planned \in Seq(DOMAIN file) BY <1>1, ScopedFacts
<1>3. ASSUME NEW i \in IterType, i.group \in DOMAIN file, i.buf = 0, i.next = First(i.chunks), Places(i.chunks, i.group),
             i.kept = <<>> \/ KeptAt(i, i.next)
      PROVE  IterOK(i)
  <2>1. i.chunks \in Seq(DOMAIN file[i.group].chunks) /\ \A m, n \in DOMAIN i.chunks : m < n => i.chunks[m] < i.chunks[n]
    BY <1>3 DEF Places
  <2>2. i.next \in 0 .. Len(i.chunks) + 1 BY <1>3, <2>1, FirstType
  <2>3. i.cur \in Int BY <1>3 DEF IterType
  <2> QED BY <1>3, <2>1, <2>2, <2>3 DEF IterOK, KeptAt
<1>4. \A k \in DOMAIN iters' : IterOK(iters'[k])
  <2> TAKE k \in DOMAIN iters'
  <2> DEFINE i == iters'[k]
  <2>1. i \in IterType /\ i.group \in DOMAIN file BY <1>1, <1>2
  <2>2. i.buf = 0 /\ i.next = First(i.chunks) /\ Places(i.chunks, i.group) /\ (i.kept = <<>> \/ KeptAt(i, i.next))
    BY DEF ToIterators
  <2> HIDE DEF i
  <2>3. IterOK(i) BY <1>3, <2>1, <2>2
  <2> QED BY <2>3 DEF i
<1>5. (\A k \in DOMAIN iters : IterOK(iters[k]))' BY <1>4, Frame
<1>6. (query.costAware => \A k \in DOMAIN iters : iters[k].kept = <<>> \/ KeptAt(iters[k], iters[k].next))'
  <2>1. \A k \in DOMAIN iters' : iters'[k].kept = <<>> \/ KeptAt(iters'[k], iters'[k].next) BY DEF ToIterators
  <2> QED BY <2>1, Frame
<1>7. Planned' = Planned BY Frame
<1>8. iters = <<>> \/ DOMAIN iters' = DOMAIN iters BY <1>1 DEF TypeInv, ItersOK
<1> QED BY <1>1, <1>5, <1>6, <1>7, <1>8 DEF ItersOK

(* Iterators, once made, go on reading the same group. *)
LEMMA GroupsStay ==
  ASSUME TypeInv, Moves
  PROVE  /\ ItersOK'
         /\ \A k \in DOMAIN iters : k \in DOMAIN iters' /\ iters'[k].group = iters[k].group
         /\ Len(iters) \in Nat /\ Len(iters') \in Nat /\ Len(iters) <= Len(iters')
         /\ DOMAIN iters = 1 .. Len(iters) /\ DOMAIN iters' = 1 .. Len(iters')
<1>1. UNCHANGED <<file, query, sdk>> /\ iters \in Seq(IterType) BY DEF Moves, TypeInv, ItersOK
<1>2. CASE UNCHANGED iters BY <1>1, <1>2, SameItersOK
<1>3. CASE ToIterators
  <2>1. ItersOK' /\ (iters = <<>> \/ DOMAIN iters' = DOMAIN iters) BY <1>1, <1>3, NewItersOK
  <2>2. iters' \in Seq(IterType) /\ \A k \in DOMAIN iters' : iters'[k].group = Planned[k] BY <1>3 DEF ToIterators
  <2>3. iters = <<>> \/ \A k \in DOMAIN iters : iters[k].group = Planned[k] BY DEF TypeInv, ItersOK
  <2> QED BY <1>1, <2>1, <2>2, <2>3
<1>4. ASSUME NEW j \in IterType, (\E x : ToMessage(j, x)) \/ ToChunk(j) \/ ToData(j) \/ ToError(j) \/ ToCut(j) PROVE
        /\ ItersOK'
        /\ \A k \in DOMAIN iters : k \in DOMAIN iters' /\ iters'[k].group = iters[k].group
        /\ Len(iters') = Len(iters) /\ iters' \in Seq(IterType)
  <2>1. Becomes(j) /\ pc \in {"pull", "chunk"} BY <1>4 DEF ToMessage, ToChunk, ToData, ToError, ToCut
  <2>2. /\ it \in IterType /\ IterOK(it) /\ it.next \in 0 .. Len(it.chunks) + 1 /\ it.chunks \in Seq(Nat) /\ it.next \in Int
        /\ it.kept \in Seq(KeptMessage) /\ it.cur \in Int
    BY <2>1, ItFacts DEF IterOK
  <2>3. j.cur \in Int BY <1>4 DEF IterType
  <2>4. j.next \in 0 .. Len(it.chunks) + 1
    <3>1. CASE j.next = it.next BY <2>2, <3>1
    <3>2. CASE ToChunk(j)
      <4>1. it.next \in DOMAIN it.chunks /\ j.next = it.next + Step BY <3>2 DEF ToChunk
      <4>2. it.next \in 1 .. Len(it.chunks) /\ Len(it.chunks) \in Int BY <2>2, <4>1
      <4> QED BY <4>1, <4>2, StepType
    <3>3. CASE ToError(j) BY <2>2, <3>3 DEF ToError
    <3> QED BY <1>4, <3>1, <3>2, <3>3 DEF ToMessage, ToData, ToCut
  <2>5. /\ j.kept = it.kept \/ j.kept = <<>> \/ \E n : KeptAt(j, n)
        /\ query.costAware => j.kept = <<>> \/ KeptAt(j, j.next)
    <3>1. CASE ToChunk(j) BY <3>1 DEF ToChunk
    <3>2. CASE ~ToChunk(j)
      <4>1. j.kept = it.kept BY <1>4, <3>2 DEF ToMessage, ToData, ToError, ToCut
      <4>2. query.costAware => j.next = it.next /\ (it.kept = <<>> \/ KeptAt(it, it.next))
        <5>1. pulled \in DOMAIN iters BY <2>1, ItFacts
        <5>2. query.costAware => it.kept = <<>> \/ KeptAt(it, it.next) BY <5>1 DEF TypeInv, ItersOK, it
        <5>3. query.costAware => j.next = it.next BY <1>4, <3>2 DEF ToMessage, ToData, ToError, ToCut
        <5> QED BY <5>2, <5>3
      <4>3. j.group = it.group /\ j.chunks = it.chunks BY <2>1 DEF Becomes
      <4> QED BY <4>1, <4>2, <4>3 DEF KeptAt
    <3> QED BY <3>1, <3>2
  <2>6. ItersOK' BY <1>1, <2>1, <2>3, <2>4, <2>5, BecomesOK
  <2> QED BY <2>1, <2>6, BecomesFacts
<1>5. CASE \E j \in IterType : (\E x : ToMessage(j, x)) \/ ToChunk(j) \/ ToData(j) \/ ToError(j) \/ ToCut(j)
  <2>1. PICK j \in IterType : (\E x : ToMessage(j, x)) \/ ToChunk(j) \/ ToData(j) \/ ToError(j) \/ ToCut(j) BY <1>5
  <2>2. /\ ItersOK'
        /\ \A k \in DOMAIN iters : k \in DOMAIN iters' /\ iters'[k].group = iters[k].group
        /\ Len(iters') = Len(iters) /\ iters' \in Seq(IterType)
    BY <1>4, <2>1
  <2> QED BY <1>1, <2>2
<1>6. CASE UNCHANGED iters \/ ToIterators BY <1>2, <1>3, <1>6
<1>7. UNCHANGED iters \/ ToIterators \/ \E j \in IterType : (\E x : ToMessage(j, x)) \/ ToChunk(j) \/ ToData(j) \/ ToError(j) \/ ToCut(j)
  <2>1. ASSUME NEW p, ToPop(p) PROVE UNCHANGED iters BY <2>1 DEF ToPop
  <2>2. ToPlan \/ ToCall \/ ToCallAgain \/ ToEof \/ ToEndOfGroup \/ ToPanic \/ UNCHANGED vars => UNCHANGED iters
    BY DEF ToPlan, ToCall, ToCallAgain, ToEof, ToEndOfGroup, ToPanic, vars
  <2> QED BY <2>1, <2>2 DEF Moves
<1> QED BY <1>5, <1>6, <1>7

LEMMA AnsweredTypes ==
  ASSUME TypeInv, pc \in {"pull", "chunk"}, PortAnswered, iters' \in Seq(IterType), Len(iters') = Len(iters)
  PROVE  /\ pc' \in {"pull", "pop", "idle"} /\ result' \in {"none", "message", "eof", "error"} /\ loaded' \in BOOLEAN
         /\ pulled' \in 0 .. Len(iters') /\ (pc' = "pull" => pulled' # 0) /\ popped'.item.iter \in 0 .. Len(iters')
<1>1. pulled \in 0 .. Len(iters) /\ loaded \in BOOLEAN /\ popped.item.iter \in 0 .. Len(iters) /\ Len(iters) \in Nat
      /\ result \in {"none", "message", "eof", "error"}
  BY DEF TypeInv, ItersOK
<1>2. NoMessage.item.iter = 0 BY DEF NoMessage, NoItem
<1>3. CASE sdk = "py" /\ loaded BY <1>1, <1>2, <1>3 DEF PortAnswered
<1>4. CASE Answered
  <2>1. CASE /\ ~loaded /\ pulled < Len(iters)
             /\ pulled' = pulled + 1
             /\ pc' = "pull"
             /\ UNCHANGED <<loaded, delivered, popped, result>>
    BY <1>1, <2>1
  <2>2. CASE /\ ~loaded /\ pulled = Len(iters)
             /\ loaded' = TRUE
             /\ pulled' = 0
             /\ pc' = "pop"
             /\ UNCHANGED <<delivered, popped, result>>
    BY <1>1, <2>2
  <2>3. CASE /\ loaded
             /\ delivered' = Append(delivered, Returned(popped))
             /\ popped' = NoMessage
             /\ pulled' = 0
             /\ result' = "message"
             /\ pc' = "idle"
             /\ UNCHANGED loaded
    BY <1>1, <1>2, <2>3
  <2> QED BY <1>4, <2>1, <2>2, <2>3 DEF Answered
<1> QED BY <1>3, <1>4 DEF PortAnswered

LEMMA TypeStep ==
  ASSUME TypeInv, HeapInv, Moves
  PROVE  TypeInv'
<1> DEFINE Scalars ==
      /\ pc' \in {"start", "indexes", "data", "idle", "pull", "chunk", "pop", "refused", "panic"}
      /\ result' \in {"none", "message", "eof", "error"}
      /\ loaded' \in BOOLEAN /\ failed' \in BOOLEAN
      /\ pulled' \in 0 .. Len(iters') /\ popped'.item.iter \in 0 .. Len(iters')
      /\ pc' \in {"pull", "chunk"} => pulled' # 0
      /\ pc' \in {"indexes", "data"} => query.costAware
<1>1. UNCHANGED <<file, query, sdk>> BY DEF Moves
<1>2. /\ ItersOK' /\ Len(iters) \in Nat /\ Len(iters') \in Nat /\ Len(iters) <= Len(iters')
      /\ DOMAIN iters = 1 .. Len(iters) /\ DOMAIN iters' = 1 .. Len(iters')
  BY GroupsStay
<1>3. /\ pc \in {"start", "indexes", "data", "idle", "pull", "chunk", "pop", "refused", "panic"}
      /\ result \in {"none", "message", "eof", "error"}
      /\ loaded \in BOOLEAN /\ failed \in BOOLEAN
      /\ pulled \in 0 .. Len(iters) /\ popped.item.iter \in 0 .. Len(iters)
      /\ pulled \in 0 .. Len(iters') /\ popped.item.iter \in 0 .. Len(iters')
      /\ pc \in {"pull", "chunk"} => pulled # 0
      /\ pc \in {"indexes", "data"} => query.costAware
      /\ iters \in Seq(IterType)
  BY <1>2 DEF TypeInv, ItersOK
<1>31. NoMessage.item.iter = 0 BY DEF NoMessage, NoItem
<1>4. ASSUME ToPlan PROVE Scalars BY <1>2, <1>3, <1>4 DEF ToPlan
<1>5. ASSUME ToIterators PROVE Scalars BY <1>2, <1>3, <1>5 DEF ToIterators
<1>6. ASSUME ToCall PROVE Scalars
  <2>1. CASE iters = <<>> BY <1>2, <1>3, <1>6, <2>1 DEF ToCall
  <2>2. CASE iters # <<>>
    <3>1. 1 \in 0 .. Len(iters') BY <1>2, <1>3, <2>2
    <3> QED BY <1>3, <1>6, <2>2, <3>1 DEF ToCall
  <2> QED BY <2>1, <2>2
<1>7. ASSUME ToCallAgain PROVE Scalars BY <1>2, <1>3, <1>7 DEF ToCallAgain
<1>8. ASSUME ToEof PROVE Scalars BY <1>3, <1>8 DEF ToEof
<1>9. ASSUME ToEndOfGroup PROVE Scalars
  <2>1. pc = "pull" /\ PortAnswered /\ UNCHANGED <<iters, failed>> BY <1>9 DEF ToEndOfGroup
  <2>2. /\ pc' \in {"pull", "pop", "idle"} /\ result' \in {"none", "message", "eof", "error"} /\ loaded' \in BOOLEAN
        /\ pulled' \in 0 .. Len(iters') /\ (pc' = "pull" => pulled' # 0) /\ popped'.item.iter \in 0 .. Len(iters')
    BY <1>3, <2>1, AnsweredTypes
  <2> QED BY <1>3, <2>1, <2>2
<1>10. ASSUME ToPanic PROVE Scalars BY <1>3, <1>10 DEF ToPanic
<1>11. ASSUME NEW p, ToPop(p) PROVE Scalars
  <2>1. heap[p].iter \in DOMAIN iters BY <1>11 DEF ToPop, HeapInv
  <2>2. heap[p].iter \in 0 .. Len(iters') /\ heap[p].iter # 0 BY <1>2, <2>1
  <2> QED BY <1>3, <1>11, <2>2 DEF ToPop
<1>12. ASSUME NEW j \in IterType, ToChunk(j) PROVE Scalars BY <1>3, <1>12 DEF ToChunk
<1>13. ASSUME NEW j \in IterType, ToData(j) PROVE Scalars BY <1>3, <1>13 DEF ToData
<1>14. ASSUME NEW j \in IterType, ToError(j) PROVE Scalars BY <1>2, <1>3, <1>31, <1>14 DEF ToError
<1>15. ASSUME NEW j \in IterType, NEW x, ToMessage(j, x) PROVE Scalars
  <2>1. pc = "pull" /\ PortAnswered /\ Becomes(j) /\ UNCHANGED failed BY <1>15 DEF ToMessage
  <2>2. iters' \in Seq(IterType) /\ Len(iters') = Len(iters) BY <2>1, BecomesFacts
  <2>3. /\ pc' \in {"pull", "pop", "idle"} /\ result' \in {"none", "message", "eof", "error"} /\ loaded' \in BOOLEAN
        /\ pulled' \in 0 .. Len(iters') /\ (pc' = "pull" => pulled' # 0) /\ popped'.item.iter \in 0 .. Len(iters')
    BY <2>1, <2>2, AnsweredTypes
  <2> QED BY <1>3, <2>1, <2>3
<1>16. ASSUME UNCHANGED vars PROVE Scalars BY <1>3, <1>16 DEF vars
<1>20. ASSUME NEW j \in IterType, ToCut(j) PROVE Scalars
  <2>1. pc \in {"pull", "chunk"} /\ PortAnswered /\ Becomes(j) /\ failed' = TRUE BY <1>20 DEF ToCut
  <2>2. iters' \in Seq(IterType) /\ Len(iters') = Len(iters) BY <2>1, BecomesFacts
  <2>3. /\ pc' \in {"pull", "pop", "idle"} /\ result' \in {"none", "message", "eof", "error"} /\ loaded' \in BOOLEAN
        /\ pulled' \in 0 .. Len(iters') /\ (pc' = "pull" => pulled' # 0) /\ popped'.item.iter \in 0 .. Len(iters')
    BY <2>1, <2>2, AnsweredTypes
  <2> QED BY <2>1, <2>3
<1>17. Scalars
  BY <1>4, <1>5, <1>6, <1>7, <1>8, <1>9, <1>10, <1>11, <1>12, <1>13, <1>14, <1>15, <1>16, <1>20 DEF Moves
<1>18. (pc = "chunk" => /\ ~query.costAware
                        /\ KeptAt(it, it.next - Step) /\ it.kept # <<>>
                        /\ sdk # "ts" => it.cur = First(it.kept))'
  <2> SUFFICES ASSUME pc' = "chunk"
               PROVE  /\ ~query.costAware
                      /\ KeptAt(it', it'.next - Step) /\ it'.kept # <<>>
                      /\ sdk # "ts" => it'.cur = First(it'.kept)
    BY <1>1, Frame
  <2>1. (\E j \in IterType : ToChunk(j)) \/ UNCHANGED vars
    <3>1. ~ToPlan /\ ~ToIterators /\ ~ToCall /\ ~ToCallAgain /\ ~ToEof BY DEF ToPlan, ToIterators, ToCall, ToCallAgain, ToEof
    <3>2. ~ToPanic /\ (\A p : ~ToPop(p)) /\ \A j : ~ToData(j) /\ ~ToError(j) BY DEF ToPanic, ToPop, ToData, ToError
    <3>3. ~PortAnswered BY DEF PortAnswered, Answered
    <3>4. ~ToEndOfGroup /\ \A j, x : ~ToMessage(j, x) /\ ~ToCut(j) BY <3>3 DEF ToEndOfGroup, ToMessage, ToCut
    <3> QED BY <3>1, <3>2, <3>4 DEF Moves
  <2>2. CASE UNCHANGED vars
    <3>1. pc = "chunk" /\ it' = it BY <2>2 DEF vars, it
    <3> QED BY <3>1 DEF TypeInv
  <2>3. ASSUME NEW j \in IterType, ToChunk(j)
        PROVE  /\ ~query.costAware
               /\ KeptAt(it', it'.next - Step) /\ it'.kept # <<>>
               /\ sdk # "ts" => it'.cur = First(it'.kept)
    <3>1. Becomes(j) /\ pulled' = pulled /\ pc = "pull" BY <2>3 DEF ToChunk
    <3>2. it' = j BY <3>1, BecomesFacts DEF it
    <3>3. ~query.costAware /\ KeptAt(j, it.next) /\ j.kept # <<>> /\ (sdk # "ts" => j.cur = First(j.kept)) /\ j.next = it.next + Step
      BY <2>3 DEF ToChunk
    <3>4. it.next \in Int BY <3>1, ItFacts
    <3>5. j.next - Step = it.next BY <3>3, <3>4, StepType
    <3> QED BY <3>2, <3>3, <3>5
  <2> QED BY <2>1, <2>2, <2>3
<1>19. file' \in Files /\ query' \in Queries /\ sdk' \in {"go", "ts", "py"} BY <1>1 DEF TypeInv
<1> QED BY <1>1, <1>2, <1>17, <1>18, <1>19 DEF TypeInv

LEMMA HeapStep ==
  ASSUME TypeInv, HeapInv, Moves
  PROVE  HeapInv'
<1> DEFINE Fits(x) == /\ x.ts \in Int /\ x.key = Key(x.ts) /\ x.iter \in DOMAIN iters'
                      /\ x.id \in file[iters'[x.iter].group].ids
<1>1. UNCHANGED <<file, query, sdk>> BY DEF Moves
<1>2. \A k \in DOMAIN iters : k \in DOMAIN iters' /\ iters'[k].group = iters[k].group BY GroupsStay
<1>3. \A h \in DOMAIN heap : Fits(heap[h]) BY <1>2 DEF HeapInv
<1>4. ASSUME IsSeq(heap'), sdk # "py" => IsHeap(heap'), \A h \in DOMAIN heap' : Fits(heap'[h])
      PROVE  HeapInv'
  <2>1. (\A h \in DOMAIN heap : heap[h].key = Key(heap[h].ts))' BY <1>1, <1>4, Frame
  <2> QED BY <1>1, <1>4, <2>1 DEF HeapInv
<1> HIDE DEF Fits
<1>5. CASE UNCHANGED heap BY <1>3, <1>4, <1>5 DEF HeapInv
<1>6. ASSUME NEW p, ToPop(p) PROVE HeapInv'
  <2>1. Drops(heap, heap', p) /\ (sdk # "py" => IsHeap(heap')) BY <1>6 DEF ToPop
  <2>2. IsSeq(heap') /\ \A k \in DOMAIN heap' : \E j \in DOMAIN heap : heap'[k] = heap[j] BY <2>1 DEF Drops
  <2> QED BY <1>3, <1>4, <2>1, <2>2
<1>7. ASSUME NEW j \in IterType, NEW x, ToMessage(j, x) PROVE HeapInv'
  <2>1. /\ Grows(heap, heap', x) /\ (sdk # "py" => IsHeap(heap')) /\ pc = "pull" /\ it.cur \in DOMAIN it.kept
        /\ x.ts = it.kept[it.cur].ts /\ x.key = Key(x.ts) /\ x.id = it.kept[it.cur].id /\ x.iter = pulled
    BY <1>7 DEF ToMessage
  <2>2. IsSeq(heap') /\ \A k \in DOMAIN heap' : heap'[k] = x \/ \E i \in DOMAIN heap : heap'[k] = heap[i] BY <2>1 DEF Grows
  <2>3. pulled \in DOMAIN iters /\ IterOK(it) /\ it = iters[pulled] /\ file \in Files BY <2>1, ItFacts DEF TypeInv
  <2>4. x.ts \in Int BY <2>1, <2>3, KeptTypes
  <2>5. x.id \in file[it.group].ids
    <3>1. PICK n \in DOMAIN it.chunks : it.kept = Kept(it.group, it.chunks[n]) BY <2>1, <2>3 DEF IterOK
    <3>2. it.group \in DOMAIN file /\ it.chunks[n] \in DOMAIN file[it.group].chunks BY <2>3, KeptTypes DEF IterOK
    <3>3. FromChunk(it.kept, file[it.group].chunks[it.chunks[n]], file[it.group].ids) BY <2>3, <3>1, <3>2, KeptFacts
    <3> QED BY <2>1, <3>3 DEF FromChunk
  <2>6. Fits(x) BY <1>2, <2>1, <2>3, <2>4, <2>5 DEF Fits
  <2> QED BY <1>3, <1>4, <2>1, <2>2, <2>6
<1>8. UNCHANGED heap \/ (\E p : ToPop(p)) \/ \E j \in IterType : \E x : ToMessage(j, x)
  <2>1. ToPlan \/ ToIterators \/ ToCall \/ ToCallAgain \/ ToEof \/ ToEndOfGroup \/ ToPanic \/ UNCHANGED vars => UNCHANGED heap
    BY DEF ToPlan, ToIterators, ToCall, ToCallAgain, ToEof, ToEndOfGroup, ToPanic, vars
  <2>2. \A j \in IterType : ToChunk(j) \/ ToData(j) \/ ToError(j) \/ ToCut(j) => UNCHANGED heap
    BY DEF ToChunk, ToData, ToError, ToCut
  <2> QED BY <2>1, <2>2 DEF Moves
<1> QED BY <1>5, <1>6, <1>7, <1>8
-----------------------------------------------------------------------------
(* The phases. *)

(* TypeScript may go back in time after an error. *)
LooseEnd == sdk = "ts" /\ failed

LEMMA LooseEndStays ==
  ASSUME TypeInv, Moves
  PROVE  (failed => failed') /\ (LooseEnd => LooseEnd')
<1>1. UNCHANGED failed \/ failed'
  <2>1. ToPlan => UNCHANGED failed \/ failed' BY DEF ToPlan
  <2>2. ToIterators \/ ToCall \/ ToCallAgain \/ ToEof \/ ToEndOfGroup \/ ToPanic \/ UNCHANGED vars => UNCHANGED failed
    BY DEF ToIterators, ToCall, ToCallAgain, ToEof, ToEndOfGroup, ToPanic, vars
  <2>3. \A p : ToPop(p) => UNCHANGED failed BY DEF ToPop
  <2>4. \A j, x : ToMessage(j, x) => UNCHANGED failed BY DEF ToMessage
  <2>5. \A j : ToChunk(j) \/ ToData(j) => UNCHANGED failed BY DEF ToChunk, ToData
  <2>6. \A j : ToError(j) \/ ToCut(j) => failed' BY DEF ToError, ToCut
  <2> QED BY <2>1, <2>2, <2>3, <2>4, <2>5, <2>6 DEF Moves
<1> QED BY <1>1 DEF LooseEnd, Moves

(* A group whose Next answers. *)
LEMMA AnsweredFacts ==
  ASSUME TypeInv, PortAnswered
  PROVE  \/ /\ sdk = "py" /\ loaded /\ loaded' = loaded /\ pc' = "pop" /\ pulled' = 0 /\ UNCHANGED <<delivered, result>>
         \/ /\ ~loaded /\ loaded' = loaded /\ pc' = "pull" /\ pulled' = pulled + 1 /\ pulled < Len(iters)
            /\ UNCHANGED <<delivered, popped, result>>
         \/ /\ ~loaded /\ loaded' /\ pc' = "pop" /\ pulled = Len(iters) /\ UNCHANGED <<delivered, popped, result>>
         \/ /\ sdk # "py" /\ loaded /\ loaded' = loaded /\ pc' = "idle"
            /\ \E m : m.ts = popped.item.ts /\ m = Returned(popped) /\ delivered' = Append(delivered, m)
<1>1. loaded \in BOOLEAN BY DEF TypeInv
<1>2. CASE sdk = "py" /\ loaded BY <1>1, <1>2 DEF PortAnswered
<1>3. CASE ~(sdk = "py" /\ loaded) /\ Answered
  <2>1. CASE /\ ~loaded /\ pulled < Len(iters)
             /\ pulled' = pulled + 1
             /\ pc' = "pull"
             /\ UNCHANGED <<loaded, delivered, popped, result>>
    BY <1>1, <2>1
  <2>2. CASE /\ ~loaded /\ pulled = Len(iters)
             /\ loaded' = TRUE
             /\ pulled' = 0
             /\ pc' = "pop"
             /\ UNCHANGED <<delivered, popped, result>>
    BY <1>1, <2>2
  <2>3. CASE /\ loaded
             /\ delivered' = Append(delivered, Returned(popped))
             /\ popped' = NoMessage
             /\ pulled' = 0
             /\ result' = "message"
             /\ pc' = "idle"
             /\ UNCHANGED loaded
    <3> DEFINE m == Returned(popped)
    <3>1. m.ts = popped.item.ts BY DEF Returned
    <3>0. m = Returned(popped) OBVIOUS
    <3> HIDE DEF m
    <3>2. delivered' = Append(delivered, m) BY <2>3 DEF m
    <3> QED BY <1>1, <1>3, <2>3, <3>0, <3>1, <3>2
  <2> QED BY <1>3, <2>1, <2>2, <2>3 DEF Answered
<1> QED BY <1>2, <1>3 DEF PortAnswered

LEMMA ServingStep ==
  ASSUME TypeInv, Moves, ~LooseEnd',
         \A k \in DOMAIN iters : iters[k].kept = <<>> \/ KeptAt(iters[k], Serving(iters[k]))
  PROVE  (\A k \in DOMAIN iters : iters[k].kept = <<>> \/ KeptAt(iters[k], Serving(iters[k])))'
<1>1. UNCHANGED <<file, query, sdk>> BY DEF Moves
<1> SUFFICES \A k \in DOMAIN iters' : iters'[k].kept = <<>> \/ KeptAt(iters'[k], Serving(iters'[k]))
  BY <1>1, Frame
<1>2. CASE UNCHANGED iters BY <1>2
<1>3. CASE ToIterators BY <1>3 DEF ToIterators, Serving
<1>4. ASSUME NEW j \in IterType, Becomes(j), j.kept = <<>> \/ KeptAt(j, Serving(j)) PROVE
        \A k \in DOMAIN iters' : iters'[k].kept = <<>> \/ KeptAt(iters'[k], Serving(iters'[k]))
  BY <1>4, BecomesFacts
<1>5. ASSUME NEW j \in IterType, Becomes(j), j.next = it.next, j.kept = it.kept PROVE j.kept = <<>> \/ KeptAt(j, Serving(j))
  <2>1. pulled \in DOMAIN iters /\ j.group = it.group /\ j.chunks = it.chunks /\ it = iters[pulled] BY <1>5 DEF Becomes, it
  <2>2. Serving(j) = Serving(it) BY <1>5 DEF Serving
  <2>3. it.kept = <<>> \/ KeptAt(it, Serving(it)) BY <2>1
  <2> QED BY <1>5, <2>1, <2>2, <2>3 DEF KeptAt
<1>6. ASSUME NEW j \in IterType, NEW x, ToMessage(j, x) PROVE
        \A k \in DOMAIN iters' : iters'[k].kept = <<>> \/ KeptAt(iters'[k], Serving(iters'[k]))
  <2>1. Becomes(j) /\ j.next = it.next /\ j.kept = it.kept BY <1>6 DEF ToMessage
  <2> QED BY <1>4, <1>5, <2>1
<1>7. ASSUME NEW j \in IterType, ToData(j) PROVE
        \A k \in DOMAIN iters' : iters'[k].kept = <<>> \/ KeptAt(iters'[k], Serving(iters'[k]))
  <2>1. Becomes(j) /\ j.next = it.next /\ j.kept = it.kept BY <1>7 DEF ToData
  <2> QED BY <1>4, <1>5, <2>1
<1>8. ASSUME NEW j \in IterType, ToError(j) PROVE
        \A k \in DOMAIN iters' : iters'[k].kept = <<>> \/ KeptAt(iters'[k], Serving(iters'[k]))
  <2>1. Becomes(j) /\ j.next = it.next /\ j.kept = it.kept BY <1>1, <1>8 DEF ToError, LooseEnd
  <2> QED BY <1>4, <1>5, <2>1
<1>9. ASSUME NEW j \in IterType, ToChunk(j) PROVE
        \A k \in DOMAIN iters' : iters'[k].kept = <<>> \/ KeptAt(iters'[k], Serving(iters'[k]))
  <2>1. Becomes(j) /\ pc = "pull" /\ j.next = it.next + Step BY <1>9 DEF ToChunk
  <2>2. it.next \in Int BY <2>1, ItFacts
  <2>3. j.next - Step = it.next BY <2>1, <2>2, StepType
  <2>4. j.kept = <<>> \/ KeptAt(j, Serving(j)) BY <1>9, <2>3 DEF ToChunk, Serving
  <2> QED BY <1>4, <2>1, <2>4
<1>11. ASSUME NEW j \in IterType, ToCut(j) PROVE
        \A k \in DOMAIN iters' : iters'[k].kept = <<>> \/ KeptAt(iters'[k], Serving(iters'[k]))
  <2>1. Becomes(j) /\ j.next = it.next /\ j.kept = it.kept BY <1>11 DEF ToCut
  <2> QED BY <1>4, <1>5, <2>1
<1>10. UNCHANGED iters \/ ToIterators \/ \E j \in IterType : (\E x : ToMessage(j, x)) \/ ToChunk(j) \/ ToData(j) \/ ToError(j) \/ ToCut(j)
  <2>1. ASSUME NEW p, ToPop(p) PROVE UNCHANGED iters BY <2>1 DEF ToPop
  <2>2. ToPlan \/ ToCall \/ ToCallAgain \/ ToEof \/ ToEndOfGroup \/ ToPanic \/ UNCHANGED vars => UNCHANGED iters
    BY DEF ToPlan, ToCall, ToCallAgain, ToEof, ToEndOfGroup, ToPanic, vars
  <2> QED BY <2>1, <2>2 DEF Moves
<1> QED BY <1>2, <1>3, <1>6, <1>7, <1>8, <1>9, <1>10, <1>11

LEMMA PhaseStep ==
  ASSUME TypeInv, HeapInv, PhaseInv, Moves, ~LooseEnd'
  PROVE  PhaseInv'
<1> DEFINE Phases ==
      /\ ~loaded' => delivered' = <<>>
      /\ pc' = "pop" => loaded'
      /\ pc' \in {"start", "indexes", "data", "refused"} => heap' = <<>> /\ ~loaded'
      /\ sdk = "py" /\ loaded' /\ pc' = "idle" /\ ~failed' => result' \in {"message", "eof"}
      /\ sdk = "py" /\ failed' => pc' = "idle" /\ result' \in {"error", "eof"}
<1>1. UNCHANGED <<file, query, sdk>> BY DEF Moves
<1>2. loaded \in BOOLEAN /\ failed \in BOOLEAN /\ (sdk = "ts" => ~failed')
  BY <1>1 DEF TypeInv, LooseEnd
<1>3. /\ ~loaded => delivered = <<>>
      /\ pc = "pop" => loaded
      /\ pc \in {"start", "indexes", "data", "refused"} => heap = <<>> /\ ~loaded
      /\ sdk = "py" /\ loaded /\ pc = "idle" /\ ~failed => result \in {"message", "eof"}
      /\ sdk = "py" /\ failed => pc = "idle" /\ result \in {"error", "eof"}
  BY DEF PhaseInv
<1>4. ASSUME ToPlan PROVE Phases BY <1>2, <1>3, <1>4 DEF ToPlan
<1>5. ASSUME ToIterators PROVE Phases BY <1>2, <1>3, <1>5 DEF ToIterators
<1>6. ASSUME ToCall PROVE Phases BY <1>2, <1>3, <1>6 DEF ToCall
<1>7. ASSUME ToCallAgain PROVE Phases BY <1>2, <1>3, <1>7 DEF ToCallAgain
<1>8. ASSUME ToEof PROVE Phases BY <1>2, <1>3, <1>8 DEF ToEof
<1>9. ASSUME pc = "pull", PortAnswered, UNCHANGED failed PROVE Phases BY <1>2, <1>3, <1>9, AnsweredFacts
<1>10. ASSUME ToPanic PROVE Phases BY <1>2, <1>3, <1>10 DEF ToPanic
<1>11. ASSUME NEW p, ToPop(p) PROVE Phases BY <1>2, <1>3, <1>11 DEF ToPop
<1>12. ASSUME NEW j \in IterType, ToChunk(j) PROVE Phases BY <1>2, <1>3, <1>12 DEF ToChunk
<1>13. ASSUME NEW j \in IterType, ToData(j) PROVE Phases BY <1>2, <1>3, <1>13 DEF ToData
<1>14. ASSUME NEW j \in IterType, ToError(j) PROVE Phases BY <1>2, <1>3, <1>14 DEF ToError
<1>15. ASSUME UNCHANGED vars PROVE Phases BY <1>3, <1>15 DEF vars
<1>16. Phases
  <2>1. ToEndOfGroup => Phases BY <1>9 DEF ToEndOfGroup
  <2>2. \A j, x : ToMessage(j, x) => Phases BY <1>9 DEF ToMessage
  <2>3. \A j \in IterType : ToCut(j) => Phases BY <1>2, <1>3, AnsweredFacts DEF ToCut
  <2> HIDE DEF Phases
  <2> QED BY <1>4, <1>5, <1>6, <1>7, <1>8, <1>10, <1>11, <1>12, <1>13, <1>14, <1>15, <2>1, <2>2, <2>3 DEF Moves
<1>17. (\A k \in DOMAIN iters : iters[k].kept = <<>> \/ KeptAt(iters[k], Serving(iters[k])))' BY ServingStep DEF PhaseInv
<1> QED BY <1>1, <1>16, <1>17 DEF PhaseInv
-----------------------------------------------------------------------------
(* The order of time. *)

LEMMA SamePasses ==
  ASSUME NEW i, NEW j, j.group = i.group, j.chunks = i.chunks, j.kept = i.kept, j.next = i.next, NEW c, NEW x
  PROVE  Passes(j, c, x) <=> Passes(i, c, x)
<1>1. NextOf(j) = NextOf(i) BY DEF NextOf
<1> QED BY <1>1 DEF Passes

(* No step makes a group serve an earlier message. *)
LEMMA PassesStep ==
  ASSUME TypeInv, Moves, ~LooseEnd', pc \notin {"start", "data"},
         NEW k \in DOMAIN iters, NEW x, Passes(iters[k], Cursor(k), x)
  PROVE  Passes(iters[k], Cursor(k), x)'
<1>1. UNCHANGED <<file, query, sdk>> /\ file \in Files BY DEF Moves, TypeInv
<1>2. ASSUME NEW i, NEW c, iters'[k] = i, Cursor(k)' = c, Passes(i, c, x) PROVE Passes(iters[k], Cursor(k), x)'
  BY <1>1, <1>2, Frame
<1>3. ASSUME UNCHANGED iters, pc # "chunk", pc' # "chunk" PROVE Passes(iters[k], Cursor(k), x)'
  <2>1. Cursor(k) = iters[k].cur /\ Cursor(k)' = iters[k].cur BY <1>3 DEF Cursor
  <2> QED BY <1>2, <1>3, <2>1
<1>4. CASE UNCHANGED vars
  <2>1. Cursor(k)' = Cursor(k) /\ iters' = iters
    <3>1. \A s : First(s)' = First(s) BY <1>1, Frame
    <3> QED BY <1>4, <3>1 DEF vars, Cursor
  <2> QED BY <1>2, <2>1
<1>5. ASSUME NEW j \in IterType, Becomes(j), k # pulled, pc' = "chunk" => pulled' = pulled PROVE Passes(iters[k], Cursor(k), x)'
  <2>1. iters'[k] = iters[k] BY <1>5, BecomesFacts
  <2>2. Cursor(k) = iters[k].cur /\ Cursor(k)' = iters[k].cur BY <1>5, <2>1 DEF Cursor
  <2> QED BY <1>2, <2>1, <2>2
<1>6. ASSUME NEW j \in IterType, Becomes(j), k = pulled, j.next = it.next, j.kept = it.kept, pc' # "chunk",
             NEW c, Cursor(k) = c, j.cur = c \/ (c \in DOMAIN it.kept /\ j.cur = c + Step), pc \in {"pull", "chunk"}
      PROVE  Passes(iters[k], Cursor(k), x)'
  <2>1. iters'[k] = j BY <1>6, BecomesFacts
  <2>2. Cursor(k)' = j.cur BY <1>6, <2>1 DEF Cursor
  <2>3. j.group = it.group /\ j.chunks = it.chunks /\ it = iters[k] BY <1>6 DEF Becomes, it
  <2>4. Passes(it, c, x) /\ IterOK(it) BY <1>6, <2>3, ItFacts
  <2>5. Passes(it, j.cur, x) BY <1>1, <1>6, <2>4, PassesOn
  <2>6. Passes(j, j.cur, x) BY <1>6, <2>3, <2>5, SamePasses
  <2> QED BY <1>2, <2>1, <2>2, <2>6
<1>7. ASSUME NEW j \in IterType, NEW y, ToMessage(j, y) PROVE Passes(iters[k], Cursor(k), x)'
  <2>1. Becomes(j) /\ j.next = it.next /\ j.kept = it.kept /\ pc = "pull" /\ it.cur \in DOMAIN it.kept /\ j.cur = it.cur + Step
    BY <1>7 DEF ToMessage
  <2>2. pc' # "chunk" BY <1>7, <2>1, AnsweredFacts DEF ToMessage
  <2>3. CASE k = pulled
    <3>1. Cursor(k) = it.cur BY <2>1, <2>3 DEF Cursor, it
    <3> QED BY <1>6, <2>1, <2>2, <2>3, <3>1
  <2> QED BY <1>5, <2>1, <2>2, <2>3
<1>8. ASSUME NEW j \in IterType, ToData(j) PROVE Passes(iters[k], Cursor(k), x)'
  <2>1. Becomes(j) /\ j.next = it.next /\ j.kept = it.kept /\ pc = "chunk" /\ pc' = "pull" /\ j.cur = First(it.kept)
    BY <1>8 DEF ToData
  <2>2. CASE k = pulled
    <3>1. Cursor(k) = First(it.kept) BY <2>1, <2>2 DEF Cursor, it
    <3> QED BY <1>6, <2>1, <2>2, <3>1
  <2> QED BY <1>5, <2>1, <2>2
<1>9. ASSUME NEW j \in IterType, ToError(j) PROVE Passes(iters[k], Cursor(k), x)'
  <2>1. /\ Becomes(j) /\ j.kept = it.kept /\ pc \in {"pull", "chunk"} /\ pc' # "chunk"
        /\ j.cur = it.cur \/ (it.cur \in DOMAIN it.kept /\ j.cur = it.cur + Step)
    BY <1>9 DEF ToError
  <2>2. sdk # "ts" /\ j.next = it.next BY <1>1, <1>9 DEF ToError, LooseEnd
  <2>3. CASE k = pulled
    <3>1. Cursor(k) = it.cur BY <2>1, <2>2, <2>3 DEF Cursor, it, TypeInv
    <3> QED BY <1>6, <2>1, <2>2, <2>3, <3>1
  <2> QED BY <1>5, <2>1, <2>3
<1>10. ASSUME NEW j \in IterType, ToChunk(j) PROVE Passes(iters[k], Cursor(k), x)'
  <2>1. Becomes(j) /\ j.next = it.next + Step /\ pc = "pull" /\ pulled' = pulled BY <1>10 DEF ToChunk
  <2>2. CASE k = pulled
    <3>1. iters'[k] = j /\ it = iters[k] /\ j.group = it.group /\ j.chunks = it.chunks
      BY <2>1, <2>2, BecomesFacts DEF it, Becomes
    <3>2. Cursor(k)' = First(j.kept)
      <4>1. First(j.kept)' = First(j.kept) BY <1>1, Frame
      <4>2. pc' # "chunk" => j.cur = First(j.kept) BY <1>10 DEF ToChunk
      <4>3. pc' = "chunk" => Cursor(k)' = First(j.kept)
        <5>1. \A s : First(s)' = First(s) BY <1>1, Frame
        <5> QED BY <2>1, <2>2, <3>1, <5>1 DEF Cursor
      <4>4. pc' # "chunk" => Cursor(k)' = j.cur BY <3>1 DEF Cursor
      <4> QED BY <4>2, <4>3, <4>4
    <3>3. NextOf(j) = NextOf(it) + Step
      <4>1. it.next \in Int BY <2>1, ItFacts
      <4> QED BY <2>1, <4>1, StepType DEF NextOf
    <3>4. j.kept = <<>> \/ KeptAt(j, NextOf(it)) BY <1>10, <2>1 DEF ToChunk, NextOf
    <3>5. Passes(it, it.cur, x) /\ IterOK(it) BY <2>1, <3>1, ItFacts DEF Cursor
    <3>6. Passes(j, First(j.kept), x) BY <1>1, <3>1, <3>3, <3>4, <3>5, PassesChunk
    <3> QED BY <1>2, <3>1, <3>2, <3>6
  <2> QED BY <1>5, <2>1, <2>2
<1>12. ASSUME NEW j \in IterType, ToCut(j) PROVE Passes(iters[k], Cursor(k), x)'
  <2>1. /\ Becomes(j) /\ j.next = it.next /\ j.kept = it.kept /\ j.cur = it.cur /\ pc \in {"pull", "chunk"} /\ sdk = "go"
        /\ PortAnswered
    BY <1>12 DEF ToCut
  <2>2. pc' # "chunk" BY <2>1, AnsweredFacts
  <2>3. CASE k = pulled
    <3>1. Cursor(k) = it.cur BY <2>1, <2>3 DEF Cursor, it, TypeInv
    <3> QED BY <1>6, <2>1, <2>2, <2>3, <3>1
  <2> QED BY <1>5, <2>1, <2>2, <2>3
<1>11. \/ UNCHANGED vars
       \/ UNCHANGED iters /\ pc # "chunk" /\ pc' # "chunk"
       \/ \E j \in IterType : (\E y : ToMessage(j, y)) \/ ToChunk(j) \/ ToData(j) \/ ToError(j) \/ ToCut(j)
  <2>1. ~ToIterators BY DEF ToIterators
  <2>2. ToPlan \/ ToCall \/ ToCallAgain \/ ToEof \/ ToPanic => UNCHANGED iters /\ pc # "chunk" /\ pc' # "chunk"
    BY DEF ToPlan, ToCall, ToCallAgain, ToEof, ToPanic
  <2>3. \A p : ToPop(p) => UNCHANGED iters /\ pc # "chunk" /\ pc' # "chunk" BY DEF ToPop
  <2>4. ToEndOfGroup => UNCHANGED iters /\ pc # "chunk" /\ pc' # "chunk" BY AnsweredFacts DEF ToEndOfGroup
  <2> QED BY <2>1, <2>2, <2>3, <2>4 DEF Moves
<1> QED BY <1>3, <1>4, <1>7, <1>8, <1>9, <1>10, <1>11, <1>12

LEMMA HeldStep ==
  ASSUME TypeInv, HeapInv, PhaseInv, HeldInv, TimeInv, Moves, ~LooseEnd'
  PROVE  HeldInv'
<1> DEFINE Holds(q) ==
      /\ q.ts \in Int /\ q.key = Key(q.ts) /\ q.iter \in DOMAIN iters'
      /\ pc' \in {"pull", "chunk"} => pulled' = q.iter
      /\ \A h \in DOMAIN heap' : q.key <= heap'[h].key
      /\ \A d \in DOMAIN delivered' : Key(delivered'[d].ts) <= q.key
<1>1. /\ UNCHANGED <<file, query, sdk>> /\ loaded \in BOOLEAN
      /\ \A k \in DOMAIN iters : k \in DOMAIN iters'
  BY GroupsStay DEF Moves, TypeInv
<1>2. ASSUME NEW q, popped'.item = q, Holds(q), Passes(iters[q.iter], Cursor(q.iter), q.key)' PROVE HeldInv'
  <2>1. \A t : Key(t)' = Key(t) BY <1>1, Frame
  <2> QED BY <1>2, <2>1 DEF HeldInv
<1>3. ASSUME ~Held' PROVE HeldInv' BY <1>3 DEF HeldInv
<1>4. ASSUME Held, UNCHANGED <<heap, popped, delivered>>, pc' \in {"pull", "chunk"} => pulled' = popped.item.iter,
             pc \notin {"start", "data"}
      PROVE  HeldInv'
  <2>1. PICK q : q = popped.item OBVIOUS
  <2>2. /\ q.ts \in Int /\ q.key = Key(q.ts) /\ q.iter \in DOMAIN iters
        /\ \A h \in DOMAIN heap : q.key <= heap[h].key
        /\ \A d \in DOMAIN delivered : Key(delivered[d].ts) <= q.key
        /\ Passes(iters[q.iter], Cursor(q.iter), q.key)
    BY <1>4, <2>1 DEF HeldInv
  <2>3. Passes(iters[q.iter], Cursor(q.iter), q.key)' BY <1>4, <2>2, PassesStep
  <2>4. popped'.item = q /\ Holds(q) BY <1>1, <1>4, <2>1, <2>2
  <2> QED BY <1>2, <2>3, <2>4
<1> HIDE DEF Holds
<1>5. ASSUME UNCHANGED vars PROVE HeldInv'
  <2>1. CASE Held
    <3>1. pc \in {"pull", "chunk"} => pulled = popped.item.iter BY <2>1 DEF HeldInv
    <3>2. pc \notin {"start", "data"} BY <2>1 DEF Held
    <3> QED BY <1>4, <1>5, <2>1, <3>1, <3>2 DEF vars
  <2>2. CASE ~Held
    <3>1. ~Held' BY <1>1, <1>5, <2>2 DEF Held, vars
    <3> QED BY <1>3, <3>1
  <2> QED BY <2>1, <2>2
<1>6. ASSUME ToPlan \/ ToIterators PROVE HeldInv'
  <2>1. ~loaded' BY <1>6 DEF ToPlan, ToIterators, PhaseInv
  <2> QED BY <1>3, <2>1 DEF Held
<1>7. ASSUME ToCall PROVE HeldInv'
  <2>1. ~Held' BY <1>7 DEF ToCall, Held
  <2> QED BY <1>3, <2>1
<1>8. ASSUME ToCallAgain PROVE HeldInv'
  <2>1. CASE sdk = "py"
    <3>1. result = "message" /\ Held
      <4>1. pc = "idle" /\ loaded /\ ~failed /\ result # "eof" BY <1>8, <2>1 DEF ToCallAgain
      <4>2. result = "message" BY <2>1, <4>1 DEF PhaseInv
      <4> QED BY <2>1, <4>1, <4>2 DEF Held
    <3>2. pulled' = popped.item.iter /\ UNCHANGED <<heap, popped, delivered>> /\ pc \notin {"start", "data"}
      BY <1>8, <2>1 DEF ToCallAgain
    <3> QED BY <1>4, <3>1, <3>2
  <2>2. CASE sdk # "py"
    <3>1. ~Held' BY <1>1, <1>8, <2>2 DEF ToCallAgain, Held
    <3> QED BY <1>3, <3>1
  <2> QED BY <2>1, <2>2
<1>9. ASSUME ToEof \/ ToPanic PROVE HeldInv'
  <2>1. ~Held' BY <1>9 DEF ToEof, ToPanic, Held
  <2> QED BY <1>3, <2>1
<1>10. ASSUME PortAnswered PROVE HeldInv'
  <2>1. ~Held' BY <1>1, <1>10, AnsweredFacts DEF Held
  <2> QED BY <1>3, <2>1
<1>11. ASSUME NEW j \in IterType, ToError(j) PROVE HeldInv'
  <2>1. ~Held' BY <1>11 DEF ToError, Held
  <2> QED BY <1>3, <2>1
<1>12. ASSUME NEW j \in IterType, ToChunk(j) \/ ToData(j) PROVE HeldInv'
  <2>1. /\ pc \in {"pull", "chunk"} /\ pc' \in {"pull", "chunk"} /\ UNCHANGED <<pulled, heap, loaded, popped, delivered>>
    BY <1>12 DEF ToChunk, ToData
  <2>2. CASE loaded
    <3>1. Held BY <2>1, <2>2 DEF Held
    <3>2. pulled = popped.item.iter BY <2>1, <3>1 DEF HeldInv
    <3> QED BY <1>4, <2>1, <3>1, <3>2
  <2>3. CASE ~loaded
    <3>1. ~Held' BY <2>1, <2>3 DEF Held
    <3> QED BY <1>3, <3>1
  <2> QED BY <2>2, <2>3
<1>13. ASSUME NEW p, ToPop(p) PROVE HeldInv'
  <2>1. PICK q : q = heap[p] OBVIOUS
  <2>2. /\ pc = "pop" /\ p \in DOMAIN heap /\ popped'.item = q /\ UNCHANGED iters
        /\ \A h \in DOMAIN heap : q.key <= heap[h].key
        /\ Drops(heap, heap', p)
        /\ \/ sdk # "py" /\ pc' = "pull" /\ pulled' = q.iter /\ UNCHANGED delivered
           \/ pc' = "idle" /\ \E m : m.ts = q.ts /\ delivered' = Append(delivered, m)
    BY <1>13, <2>1 DEF ToPop
  <2>3. q.ts \in Int /\ q.key = Key(q.ts) /\ q.iter \in DOMAIN iters BY <2>1, <2>2 DEF HeapInv
  <2>4. Passes(iters[q.iter], Cursor(q.iter), q.key) /\ \A d \in DOMAIN delivered : Key(delivered[d].ts) <= q.key
    BY <2>1, <2>2 DEF TimeInv
  <2>5. Passes(iters[q.iter], Cursor(q.iter), q.key)'
    <3>1. pc \notin {"start", "data"} BY <2>2
    <3> QED BY <2>3, <2>4, <3>1, PassesStep
  <2>6. \A h \in DOMAIN heap' : q.key <= heap'[h].key BY <2>2 DEF Drops
  <2>7. \A d \in DOMAIN delivered' : Key(delivered'[d].ts) <= q.key
    <3>1. CASE UNCHANGED delivered BY <2>4, <3>1
    <3>2. CASE \E m : m.ts = q.ts /\ delivered' = Append(delivered, m)
      <4>1. PICK m : m.ts = q.ts /\ delivered' = Append(delivered, m) BY <3>2
      <4>2. IsSeq(delivered) BY DEF TimeInv, Ordered
      <4>3. \A d \in DOMAIN delivered' : delivered'[d] = m \/ \E c \in DOMAIN delivered : delivered'[d] = delivered[c]
        BY <4>1, <4>2, AppendGrows DEF Grows
      <4>4. Key(m.ts) <= q.key BY <2>3, <4>1 DEF Key
      <4> QED BY <2>4, <4>3, <4>4
    <3> QED BY <2>2, <3>1, <3>2
  <2>8. Holds(q) BY <1>1, <2>2, <2>3, <2>6, <2>7 DEF Holds
  <2> QED BY <1>2, <2>2, <2>5, <2>8
<1>14. (ToEndOfGroup => HeldInv') /\ \A j, x : ToMessage(j, x) \/ ToCut(j) => HeldInv'
  BY <1>10 DEF ToEndOfGroup, ToMessage, ToCut
<1> QED BY <1>5, <1>6, <1>7, <1>8, <1>9, <1>11, <1>12, <1>13, <1>14 DEF Moves

LEMMA AppendOrdered ==
  ASSUME NEW s, Ordered(s), NEW m, m.ts \in Int, \A d \in DOMAIN s : Key(s[d].ts) <= Key(m.ts)
  PROVE  Ordered(Append(s, m))
<1> DEFINE T == {s[k] : k \in DOMAIN s}
           g == Append(s, m)
           n == Len(s)
<1>1. s \in Seq(T) BY DEF Ordered, IsSeq
<1> HIDE DEF T
<1>2. /\ DOMAIN g = 1 .. n + 1 /\ n \in Nat /\ DOMAIN s = 1 .. n
      /\ g[n + 1] = m /\ \A k \in 1 .. n : g[k] = s[k]
  BY <1>1
<1>3. IsSeq(s) BY DEF Ordered
<1>4. IsSeq(g) BY <1>3, AppendGrows DEF Grows
<1> HIDE DEF g, n
<1>5. \A k \in 1 .. n + 1 : k \in 1 .. n \/ k = n + 1 BY <1>2
<1>6. \A d \in DOMAIN g : g[d].ts \in Int
  <2>1. \A d \in DOMAIN s : s[d].ts \in Int BY DEF Ordered
  <2> QED BY <1>2, <1>5, <2>1
<1>7. ASSUME NEW c \in DOMAIN g, NEW d \in DOMAIN g, c < d PROVE Key(g[c].ts) <= Key(g[d].ts)
  <2>1. c \in 1 .. n BY <1>2, <1>7
  <2>2. CASE d \in 1 .. n BY <1>2, <1>7, <2>1, <2>2 DEF Ordered
  <2>3. CASE d = n + 1 BY <1>2, <2>1, <2>3
  <2> QED BY <1>2, <1>5, <2>2, <2>3
<1> QED BY <1>4, <1>6, <1>7 DEF Ordered, g

(* What NextInto returns next is no earlier than what it returned, and no  *)
(* later than the heap.                                                    *)
LEMMA DeliveredStep ==
  ASSUME TypeInv, HeapInv, PhaseInv, HeldInv, TimeInv, Moves
  PROVE  /\ Ordered(delivered')
         /\ \A d \in DOMAIN delivered' : \A h \in DOMAIN heap : Key(delivered'[d].ts) <= heap[h].key
         /\ \/ UNCHANGED delivered
            \/ \E q : /\ \A d \in DOMAIN delivered' : Key(delivered'[d].ts) <= q
                      /\ \A j, x : ToMessage(j, x) => Held /\ q = popped.item.key
<1>1. Ordered(delivered) /\ \A d \in DOMAIN delivered : \A h \in DOMAIN heap : Key(delivered[d].ts) <= heap[h].key
  BY DEF TimeInv
<1>2. ASSUME NEW q, NEW m, m.ts = q.ts, q.ts \in Int, q.key = Key(q.ts), delivered' = Append(delivered, m),
             \A h \in DOMAIN heap : q.key <= heap[h].key, \A d \in DOMAIN delivered : Key(delivered[d].ts) <= q.key
      PROVE  /\ Ordered(delivered')
             /\ \A d \in DOMAIN delivered' : Key(delivered'[d].ts) <= q.key
             /\ \A d \in DOMAIN delivered' : \A h \in DOMAIN heap : Key(delivered'[d].ts) <= heap[h].key
  <2>1. \A d \in DOMAIN delivered : Key(delivered[d].ts) <= Key(m.ts) BY <1>2
  <2>2. Ordered(delivered') BY <1>1, <1>2, <2>1, AppendOrdered
  <2>3. \A d \in DOMAIN delivered' : delivered'[d] = m \/ \E c \in DOMAIN delivered : delivered'[d] = delivered[c]
    <3>1. IsSeq(delivered) BY <1>1 DEF Ordered
    <3> QED BY <1>2, <3>1, AppendGrows DEF Grows
  <2>4. Key(m.ts) = q.key /\ q.key \in Int BY <1>2 DEF Key
  <2>5. \A d \in DOMAIN delivered' : Key(delivered'[d].ts) <= q.key BY <1>2, <2>3, <2>4
  <2>6. \A d \in DOMAIN delivered' : \A h \in DOMAIN heap : Key(delivered'[d].ts) <= heap[h].key
    BY <1>1, <1>2, <2>3, <2>4
  <2> QED BY <2>2, <2>5, <2>6
<1>3. CASE UNCHANGED delivered BY <1>1, <1>3
<1>4. ASSUME NEW p, ToPop(p), delivered' # delivered PROVE
         /\ Ordered(delivered')
         /\ \A d \in DOMAIN delivered' : \A h \in DOMAIN heap : Key(delivered'[d].ts) <= heap[h].key
         /\ \E q : /\ \A d \in DOMAIN delivered' : Key(delivered'[d].ts) <= q
                   /\ \A j, x : ToMessage(j, x) => Held /\ q = popped.item.key
  <2>1. PICK m : m.ts = heap[p].ts /\ delivered' = Append(delivered, m) BY <1>4 DEF ToPop
  <2>2. p \in DOMAIN heap /\ pc = "pop" /\ \A h \in DOMAIN heap : heap[p].key <= heap[h].key BY <1>4 DEF ToPop
  <2>3. heap[p].ts \in Int /\ heap[p].key = Key(heap[p].ts) BY <2>2 DEF HeapInv
  <2>4. \A d \in DOMAIN delivered : Key(delivered[d].ts) <= heap[p].key BY <1>1, <2>2
  <2>5. \A j, x : ~ToMessage(j, x) BY <2>2 DEF ToMessage
  <2> QED BY <1>2, <2>1, <2>2, <2>3, <2>4, <2>5
<1>5. ASSUME pc \in {"pull", "chunk"}, PortAnswered, delivered' # delivered PROVE
         /\ Ordered(delivered')
         /\ \A d \in DOMAIN delivered' : \A h \in DOMAIN heap : Key(delivered'[d].ts) <= heap[h].key
         /\ \E q : /\ \A d \in DOMAIN delivered' : Key(delivered'[d].ts) <= q
                   /\ \A j, x : ToMessage(j, x) => Held /\ q = popped.item.key
  <2>1. loaded /\ \E m : m.ts = popped.item.ts /\ delivered' = Append(delivered, m) BY <1>5, AnsweredFacts
  <2>2. Held BY <1>5, <2>1 DEF Held
  <2>3. PICK q : q = popped.item OBVIOUS
  <2>4. /\ q.ts \in Int /\ q.key = Key(q.ts)
        /\ \A h \in DOMAIN heap : q.key <= heap[h].key
        /\ \A d \in DOMAIN delivered : Key(delivered[d].ts) <= q.key
    BY <2>2, <2>3 DEF HeldInv
  <2>5. PICK m : m.ts = q.ts /\ delivered' = Append(delivered, m) BY <2>1, <2>3
  <2>6. /\ Ordered(delivered')
        /\ \A d \in DOMAIN delivered' : Key(delivered'[d].ts) <= q.key
        /\ \A d \in DOMAIN delivered' : \A h \in DOMAIN heap : Key(delivered'[d].ts) <= heap[h].key
    BY <1>2, <2>4, <2>5
  <2> QED BY <2>2, <2>3, <2>6
<1>6. UNCHANGED delivered \/ (\E p : ToPop(p)) \/ (pc \in {"pull", "chunk"} /\ PortAnswered)
  <2>1. ToPlan \/ ToIterators \/ ToCall \/ ToCallAgain \/ ToEof \/ ToPanic \/ UNCHANGED vars => UNCHANGED delivered
    BY DEF ToPlan, ToIterators, ToCall, ToCallAgain, ToEof, ToPanic, vars
  <2>2. \A j \in IterType : ToChunk(j) \/ ToData(j) \/ ToError(j) => UNCHANGED delivered BY DEF ToChunk, ToData, ToError
  <2>3. ToEndOfGroup => pc = "pull" /\ PortAnswered BY DEF ToEndOfGroup
  <2>4. \A j, x : ToMessage(j, x) \/ ToCut(j) => pc \in {"pull", "chunk"} /\ PortAnswered BY DEF ToMessage, ToCut
  <2> QED BY <2>1, <2>2, <2>3, <2>4 DEF Moves
<1> QED BY <1>3, <1>4, <1>5, <1>6

LEMMA PassesAfter ==
  ASSUME UNCHANGED <<file, query, sdk>>, NEW k, NEW x, NEW i, iters'[k] = i, NEW c, Cursor(k)' = c, Passes(i, c, x)
  PROVE  Passes(iters[k], Cursor(k), x)'
BY Frame

(* A message that goes into the heap. *)
LEMMA MessageInTime ==
  ASSUME TypeInv, HeapInv, PhaseInv, HeldInv, TimeInv, TiesInFile, Moves, NEW j \in IterType, NEW x, ToMessage(j, x)
  PROVE  /\ Passes(iters[x.iter], Cursor(x.iter), x.key)'
         /\ \A d \in DOMAIN delivered' : Key(delivered'[d].ts) <= x.key
<1>1. /\ pc = "pull" /\ it.cur \in DOMAIN it.kept /\ PortAnswered
      /\ Becomes(j) /\ j.next = it.next /\ j.kept = it.kept /\ j.cur = it.cur + Step
      /\ x.key = Key(it.kept[it.cur].ts) /\ x.iter = pulled
  BY DEF ToMessage
<1>2. UNCHANGED <<file, query, sdk>> /\ file \in Files /\ loaded \in BOOLEAN BY DEF Moves, TypeInv
<1>3. pulled \in DOMAIN iters /\ IterOK(it) /\ it = iters[pulled] /\ j.group = it.group /\ j.chunks = it.chunks
  BY <1>1, ItFacts DEF Becomes
<1>4. x.key \in Int
  <2>1. it.kept[it.cur].ts \in Int BY <1>1, <1>2, <1>3, KeptTypes
  <2> QED BY <1>1, <2>1 DEF Key
<1>5. Passes(iters[x.iter], Cursor(x.iter), x.key)'
  <2>1. KeptAt(it, Serving(it))
    <3>1. it.kept # <<>>
      <4>1. CASE it.kept = <<>> BY <1>1, <4>1
      <4> QED BY <4>1
    <3> QED BY <1>3, <3>1 DEF PhaseInv
  <2>2. Passes(it, j.cur, x.key) BY <1>1, <1>2, <1>3, <2>1, ServedFirst
  <2>3. Passes(j, j.cur, x.key) BY <1>1, <1>3, <2>2, SamePasses
  <2>4. iters'[x.iter] = j BY <1>1, BecomesFacts
  <2>5. pc' # "chunk" BY <1>1, AnsweredFacts
  <2>6. Cursor(x.iter)' = j.cur BY <2>4, <2>5 DEF Cursor
  <2> QED BY <1>2, <2>3, <2>4, <2>6, PassesAfter
<1>6. ASSUME Held PROVE LET p == popped.item IN
        p.key \in Int /\ p.key <= x.key /\ \A d \in DOMAIN delivered : Key(delivered[d].ts) <= p.key
  <2>1. PICK p : p = popped.item OBVIOUS
  <2>2. /\ p.ts \in Int /\ p.key = Key(p.ts) /\ pulled = p.iter
        /\ Passes(iters[p.iter], Cursor(p.iter), p.key)
        /\ \A d \in DOMAIN delivered : Key(delivered[d].ts) <= p.key
    BY <1>1, <1>6, <2>1 DEF HeldInv
  <2>3. Cursor(p.iter) = it.cur BY <1>1, <1>3, <2>2 DEF Cursor
  <2>4. p.key <= x.key BY <1>1, <1>2, <1>3, <2>2, <2>3, PassesOn
  <2>5. p.key \in Int BY <2>2 DEF Key
  <2> QED BY <2>1, <2>2, <2>4, <2>5
<1>7. Ordered(delivered') /\ \A d \in DOMAIN delivered' : Key(delivered'[d].ts) \in Int
  <2>1. Ordered(delivered') BY DeliveredStep
  <2> QED BY <2>1 DEF Ordered, Key
<1>8. \A d \in DOMAIN delivered' : Key(delivered'[d].ts) <= x.key
  <2>1. CASE UNCHANGED delivered
    <3>1. CASE loaded
      <4>1. Held BY <1>1, <3>1 DEF Held
      <4>2. PICK q : q = popped.item.key OBVIOUS
      <4>3. q \in Int /\ q <= x.key /\ \A d \in DOMAIN delivered' : Key(delivered'[d].ts) <= q
        BY <1>6, <2>1, <4>1, <4>2
      <4> QED BY <1>4, <1>7, <4>3
    <3>2. CASE ~loaded
      <4>1. delivered' = <<>> BY <2>1, <3>2 DEF PhaseInv
      <4> QED BY <4>1
    <3> QED BY <3>1, <3>2
  <2>2. CASE \E q : /\ \A d \in DOMAIN delivered' : Key(delivered'[d].ts) <= q
                    /\ \A i, y : ToMessage(i, y) => Held /\ q = popped.item.key
    <3>1. PICK q : /\ \A d \in DOMAIN delivered' : Key(delivered'[d].ts) <= q
                   /\ \A i, y : ToMessage(i, y) => Held /\ q = popped.item.key
      BY <2>2
    <3>2. Held /\ q = popped.item.key BY <3>1
    <3>3. q \in Int /\ q <= x.key BY <1>6, <3>2
    <3> QED BY <1>4, <1>7, <3>1, <3>3
  <2> QED BY <2>1, <2>2, DeliveredStep
<1> QED BY <1>5, <1>8

LEMMA TimeStep ==
  ASSUME TypeInv, HeapInv, PhaseInv, HeldInv, TimeInv, TiesInFile, Moves, ~LooseEnd'
  PROVE  TimeInv'
<1>1. UNCHANGED <<file, query, sdk>> /\ (\A t : Key(t)' = Key(t)) /\ file \in Files BY Frame DEF Moves, TypeInv
<1>2. /\ Ordered(delivered')
      /\ \A d \in DOMAIN delivered' : \A h \in DOMAIN heap : Key(delivered'[d].ts) <= heap[h].key
  BY DeliveredStep
<1>3. Ordered(delivered)' BY <1>1, <1>2 DEF Ordered
<1>4. ASSUME \A q : (\E h \in DOMAIN heap' : q = heap'[h]) =>
               /\ Passes(iters[q.iter], Cursor(q.iter), q.key)'
               /\ \A d \in DOMAIN delivered' : Key(delivered'[d].ts) <= q.key
      PROVE  TimeInv'
  BY <1>1, <1>3, <1>4 DEF TimeInv
<1>5. ASSUME NEW q, \E h \in DOMAIN heap : q = heap[h]
      PROVE  /\ Passes(iters[q.iter], Cursor(q.iter), q.key)'
             /\ \A d \in DOMAIN delivered' : Key(delivered'[d].ts) <= q.key
  <2>1. q.iter \in DOMAIN iters BY <1>5 DEF HeapInv
  <2>2. Passes(iters[q.iter], Cursor(q.iter), q.key) BY <1>5 DEF TimeInv
  <2>3. pc \notin {"start", "data"}
    <3>1. heap # <<>>
      <4>1. CASE heap = <<>> BY <1>5, <4>1
      <4> QED BY <4>1
    <3> QED BY <3>1 DEF PhaseInv
  <2> QED BY <1>2, <1>5, <2>1, <2>2, <2>3, PassesStep
<1>6. CASE UNCHANGED heap BY <1>4, <1>5, <1>6
<1>7. ASSUME NEW p, ToPop(p) PROVE TimeInv'
  <2>1. \A k \in DOMAIN heap' : \E i \in DOMAIN heap : heap'[k] = heap[i] BY <1>7 DEF ToPop, Drops
  <2> QED BY <1>4, <1>5, <2>1
<1>8. ASSUME NEW j \in IterType, NEW x, ToMessage(j, x) PROVE TimeInv'
  <2>1. \A k \in DOMAIN heap' : heap'[k] = x \/ \E i \in DOMAIN heap : heap'[k] = heap[i] BY <1>8 DEF ToMessage, Grows
  <2>2. /\ Passes(iters[x.iter], Cursor(x.iter), x.key)'
        /\ \A d \in DOMAIN delivered' : Key(delivered'[d].ts) <= x.key
    BY <1>8, MessageInTime
  <2> QED BY <1>4, <1>5, <2>1, <2>2
<1>9. UNCHANGED heap \/ (\E p : ToPop(p)) \/ \E j \in IterType : \E x : ToMessage(j, x)
  <2>1. ToPlan \/ ToIterators \/ ToCall \/ ToCallAgain \/ ToEof \/ ToEndOfGroup \/ ToPanic \/ UNCHANGED vars => UNCHANGED heap
    BY DEF ToPlan, ToIterators, ToCall, ToCallAgain, ToEof, ToEndOfGroup, ToPanic, vars
  <2>2. \A j \in IterType : ToChunk(j) \/ ToData(j) \/ ToError(j) \/ ToCut(j) => UNCHANGED heap
    BY DEF ToChunk, ToData, ToError, ToCut
  <2> QED BY <2>1, <2>2 DEF Moves
<1> QED BY <1>6, <1>7, <1>8, <1>9
-----------------------------------------------------------------------------
(* The theorem. *)

LEMMA InitFacts ==
  ASSUME SdkInit
  PROVE  TypeInv /\ HeapInv /\ PhaseInv /\ HeldInv /\ TimeInv /\ ItemInv
<1>1. /\ pc = "start" /\ iters = <<>> /\ pulled = 0 /\ heap = <<>> /\ loaded = FALSE /\ popped = NoMessage
      /\ delivered = <<>> /\ result = "none" /\ failed = FALSE
      /\ file \in Files /\ query \in Queries /\ sdk \in {"go", "ts", "py"}
  BY DEF SdkInit, Init, Start
<1>2. \A s : s = <<>> => IsSeq(s) /\ DOMAIN s = {} /\ IsHeap(s) /\ s \in Seq(IterType)
  <2> TAKE s
  <2> HAVE s = <<>>
  <2>1. s \in Seq({}) /\ DOMAIN s = {} /\ s \in Seq(IterType) OBVIOUS
  <2>2. IsSeq(s) BY <2>1, SeqFacts
  <2> QED BY <2>1, <2>2 DEF IsHeap
<1>3. TypeInv
  <2>1. ItersOK BY <1>1, <1>2 DEF ItersOK
  <2>2. pulled \in 0 .. Len(iters) /\ popped.item.iter \in 0 .. Len(iters) BY <1>1 DEF NoMessage, NoItem
  <2> QED BY <1>1, <2>1, <2>2 DEF TypeInv
<1>4. HeapInv BY <1>1, <1>2 DEF HeapInv
<1>5. PhaseInv BY <1>1, <1>2 DEF PhaseInv
<1>6. HeldInv BY <1>1 DEF HeldInv, Held
<1>7. TimeInv BY <1>1, <1>2 DEF TimeInv, Ordered
<1>8. ItemInv BY <1>1, <1>2 DEF ItemInv, Held
<1> QED BY <1>3, <1>4, <1>5, <1>6, <1>7, <1>8

(* What is delivered is in the order of time, whatever calls failed and    *)
(* were made again, in Go and in Python, and in TypeScript until a call    *)
(* fails; provided that, in a chunk, messages of two topics that have one  *)
(* offset have one time.                                                   *)
THEOREM SdkInTimeOrder == SdkSpec => []InTimeOrder
<1> DEFINE Inv == TypeInv /\ HeapInv /\ (~LooseEnd => PhaseInv /\ (TiesInFile => HeldInv /\ TimeInv))
<1>1. SdkInit => Inv BY InitFacts
<1>2. Inv /\ [SdkNext]_portVars => Inv'
  <2> SUFFICES ASSUME Inv, [SdkNext]_portVars PROVE Inv' OBVIOUS
  <2>1. Moves BY StepMoves
  <2>2. TypeInv' /\ HeapInv' BY <2>1, TypeStep, HeapStep
  <2>3. TiesInFile' <=> TiesInFile BY <2>1, Frame DEF Moves
  <2>4. ASSUME ~LooseEnd' PROVE PhaseInv' /\ (TiesInFile' => HeldInv' /\ TimeInv')
    <3>1. ~LooseEnd BY <2>1, <2>4, LooseEndStays
    <3>2. PhaseInv' BY <2>1, <2>4, <3>1, PhaseStep
    <3>3. TiesInFile => HeldInv' /\ TimeInv' BY <2>1, <2>4, <3>1, HeldStep, TimeStep
    <3> QED BY <2>3, <3>2, <3>3
  <2> QED BY <2>2, <2>4
<1>3. Inv => InTimeOrder
  <2> SUFFICES ASSUME Inv, TiesInFile, ~LooseEnd PROVE TimeOrdered BY DEF InTimeOrder, LooseEnd
  <2>1. Ordered(delivered) BY DEF TimeInv
  <2>2. ASSUME NEW k \in 1 .. Len(delivered) - 1 PROVE Key(delivered[k].ts) <= Key(delivered[k + 1].ts)
    <3>1. k \in DOMAIN delivered /\ k + 1 \in DOMAIN delivered /\ k < k + 1
      <4> DEFINE T == {delivered[c] : c \in DOMAIN delivered}
      <4>1. delivered \in Seq(T) BY <2>1 DEF Ordered, IsSeq
      <4> HIDE DEF T
      <4> QED BY <4>1
    <3> DEFINE l == k + 1
    <3> HIDE DEF l
    <3>2. Key(delivered[k].ts) <= Key(delivered[l].ts) BY <2>1, <3>1 DEF Ordered, l
    <3> QED BY <3>2 DEF l
  <2> QED BY <2>2 DEF TimeOrdered
<1> HIDE DEF Inv
<1> QED BY <1>1, <1>2, <1>3, PTL DEF SdkSpec
-----------------------------------------------------------------------------
(* One item of the heap for every group. *)

LEMMA CursorStep ==
  ASSUME TypeInv, Moves, ~failed', \A k \in DOMAIN iters : Cursor(k) \in 0 .. Len(iters[k].kept) + 1
  PROVE  (\A k \in DOMAIN iters : Cursor(k) \in 0 .. Len(iters[k].kept) + 1)'
<1>1. UNCHANGED <<file, query, sdk>> /\ file \in Files BY DEF Moves, TypeInv
<1>2. \A s : First(s)' = First(s) BY <1>1, Frame
<1> SUFFICES ASSUME NEW k \in DOMAIN iters' PROVE (Cursor(k) \in 0 .. Len(iters[k].kept) + 1)' OBVIOUS
<1>3. CASE UNCHANGED iters /\ pc # "chunk" /\ pc' # "chunk" BY <1>3 DEF Cursor
<1>4. CASE UNCHANGED vars
  <2>1. Cursor(k)' = Cursor(k) /\ iters' = iters BY <1>2, <1>4 DEF vars, Cursor
  <2> QED BY <2>1
<1>5. CASE ToIterators
  <2>1. Cursor(k)' = iters'[k].cur BY <1>5 DEF ToIterators, Cursor
  <2>2. iters'[k].kept \in Seq(KeptMessage)
    <3>1. iters'[k] \in IterType BY <1>5 DEF ToIterators
    <3> QED BY <3>1 DEF IterType
  <2>3. \/ iters'[k].kept = <<>> /\ iters'[k].cur = 1
        \/ iters'[k].cur = First(iters'[k].kept)
    BY <1>5 DEF ToIterators
  <2> QED BY <2>1, <2>2, <2>3, FirstType
<1>6. ASSUME NEW j \in IterType, Becomes(j), pc' = "chunk" => pulled' = pulled,
             k = pulled => Cursor(k)' \in 0 .. Len(j.kept) + 1
      PROVE  (Cursor(k) \in 0 .. Len(iters[k].kept) + 1)'
  <2>1. k \in DOMAIN iters BY <1>6, BecomesFacts
  <2>2. CASE k = pulled BY <1>6, <2>2, BecomesFacts
  <2>3. CASE k # pulled
    <3>1. iters'[k] = iters[k] BY <1>6, <2>1, <2>3, BecomesFacts
    <3>2. Cursor(k) = iters[k].cur /\ Cursor(k)' = iters[k].cur BY <1>6, <2>3, <3>1 DEF Cursor
    <3> QED BY <2>1, <3>1, <3>2
  <2> QED BY <2>2, <2>3
<1>7. ASSUME NEW j \in IterType, NEW y, ToMessage(j, y) PROVE (Cursor(k) \in 0 .. Len(iters[k].kept) + 1)'
  <2>1. Becomes(j) /\ j.kept = it.kept /\ pc = "pull" /\ it.cur \in DOMAIN it.kept /\ j.cur = it.cur + Step
    BY <1>7 DEF ToMessage
  <2>2. pc' # "chunk" BY <1>7, <2>1, AnsweredFacts DEF ToMessage
  <2>3. it.kept \in Seq(KeptMessage) BY <2>1, ItFacts
  <2>4. it.cur \in 1 .. Len(it.kept) /\ Len(it.kept) \in Int BY <2>1, <2>3
  <2>5. j.cur \in 0 .. Len(j.kept) + 1 BY <2>1, <2>4, StepType
  <2>6. k = pulled => Cursor(k)' = j.cur BY <2>1, <2>2, BecomesFacts DEF Cursor
  <2> QED BY <1>6, <2>1, <2>2, <2>5, <2>6
<1>8. ASSUME NEW j \in IterType, ToData(j) PROVE (Cursor(k) \in 0 .. Len(iters[k].kept) + 1)'
  <2>1. Becomes(j) /\ j.kept = it.kept /\ pc' = "pull" /\ j.cur = First(it.kept) /\ pc = "chunk" BY <1>8 DEF ToData
  <2>2. it.kept \in Seq(KeptMessage) BY <2>1, ItFacts
  <2>3. j.cur \in 0 .. Len(j.kept) + 1 BY <2>1, <2>2, FirstType
  <2>4. k = pulled => Cursor(k)' = j.cur BY <2>1, BecomesFacts DEF Cursor
  <2> QED BY <1>6, <2>1, <2>3, <2>4
<1>9. ASSUME NEW j \in IterType, ToChunk(j) PROVE (Cursor(k) \in 0 .. Len(iters[k].kept) + 1)'
  <2>1. Becomes(j) /\ pulled' = pulled /\ (pc' # "chunk" => j.cur = First(j.kept)) BY <1>9 DEF ToChunk
  <2>2. j.kept \in Seq(KeptMessage) BY DEF IterType
  <2>3. First(j.kept) \in 0 .. Len(j.kept) + 1 BY <2>2, FirstType
  <2>4. k = pulled => Cursor(k)' = First(j.kept)
    <3> SUFFICES ASSUME k = pulled PROVE Cursor(k)' = First(j.kept) OBVIOUS
    <3>1. iters'[k] = j BY <2>1, BecomesFacts
    <3>2. CASE pc' = "chunk" BY <1>2, <2>1, <3>1, <3>2 DEF Cursor
    <3>3. CASE pc' # "chunk" BY <2>1, <3>1, <3>3 DEF Cursor
    <3> QED BY <3>2, <3>3
  <2> QED BY <1>6, <2>1, <2>3, <2>4
<1>10. \/ UNCHANGED vars \/ ToIterators
       \/ UNCHANGED iters /\ pc # "chunk" /\ pc' # "chunk"
       \/ \E j \in IterType : (\E y : ToMessage(j, y)) \/ ToChunk(j) \/ ToData(j)
  <2>1. \A j : ~ToError(j) /\ ~ToCut(j) BY DEF ToError, ToCut
  <2>2. ToPlan \/ ToCall \/ ToCallAgain \/ ToEof \/ ToPanic => UNCHANGED iters /\ pc # "chunk" /\ pc' # "chunk"
    BY DEF ToPlan, ToCall, ToCallAgain, ToEof, ToPanic
  <2>3. \A p : ToPop(p) => UNCHANGED iters /\ pc # "chunk" /\ pc' # "chunk" BY DEF ToPop
  <2>4. ToEndOfGroup => UNCHANGED iters /\ pc # "chunk" /\ pc' # "chunk" BY AnsweredFacts DEF ToEndOfGroup
  <2> QED BY <2>1, <2>2, <2>3, <2>4 DEF Moves
<1> QED BY <1>3, <1>4, <1>5, <1>7, <1>8, <1>9, <1>10

(* The group that answers has an item in the heap, or nothing left. *)
LEMMA AnswerItems ==
  ASSUME TypeInv, HeapInv, ItemInv, Moves, ~failed', pc = "pull", PortAnswered,
         DOMAIN iters' = DOMAIN iters,
         \A k \in DOMAIN iters : k # pulled => iters'[k] = iters[k],
         NEW l, l = pulled, HasItem(l)' \/ Spent(l)',
         \A k \in DOMAIN iters : HasItem(k) => HasItem(k)',
         \A j, k \in DOMAIN heap' : heap'[j].iter = heap'[k].iter => j = k,
         \A h \in DOMAIN heap' : heap'[h].iter = pulled \/ \E i \in DOMAIN heap : heap'[h] = heap[i]
  PROVE  ItemInv'
<1>1. (\A k \in DOMAIN iters : Cursor(k) \in 0 .. Len(iters[k].kept) + 1)' BY CursorStep DEF ItemInv
<1>2. /\ loaded \in BOOLEAN /\ Len(iters) \in Nat /\ DOMAIN iters = 1 .. Len(iters) /\ pulled \in 1 .. Len(iters)
      /\ UNCHANGED sdk
  BY GroupsStay DEF TypeInv, Moves
<1>3. \A k \in DOMAIN iters : k # pulled /\ Spent(k) => Spent(k)' BY DEF Spent
<1>4. pc' # "panic" /\ ~Held'
  <2>1. loaded' => pc' = "pop" \/ (sdk # "py" /\ pc' = "idle") BY AnsweredFacts
  <2>2. pc' # "panic" BY AnsweredFacts
  <2> QED BY <1>2, <2>1, <2>2 DEF Held
<1>5. \A h \in DOMAIN heap' : heap'[h].iter \in DOMAIN iters
  <2>1. HeapInv' BY HeapStep
  <2> QED BY <2>1 DEF HeapInv
<1>6. CASE loaded
  <2>1. Held BY <1>6 DEF Held
  <2>2. pulled = popped.item.iter BY <2>1 DEF ItemInv
  <2>3. \A k \in DOMAIN iters : HasItem(k) \/ Spent(k) \/ k = pulled BY <1>6, <2>2 DEF ItemInv
  <2>4. \A k \in DOMAIN iters' : HasItem(k)' \/ Spent(k)' BY <1>3, <2>3
  <2>5. loaded' BY <1>6, AnsweredFacts
  <2> QED BY <1>1, <1>4, <2>4, <2>5 DEF ItemInv
<1>7. CASE ~loaded
  <2>1. /\ \A h \in DOMAIN heap : heap[h].iter < pulled
        /\ \A k \in DOMAIN iters : k < pulled => HasItem(k) \/ Spent(k)
    BY <1>7 DEF ItemInv
  <2>2. \A k \in DOMAIN iters' : k < pulled + 1 => HasItem(k)' \/ Spent(k)'
    <3> SUFFICES ASSUME NEW k \in DOMAIN iters, k < pulled + 1 PROVE HasItem(k)' \/ Spent(k)' OBVIOUS
    <3>1. k = pulled \/ k < pulled BY <1>2
    <3>2. CASE k < pulled BY <1>2, <1>3, <2>1, <3>2
    <3> QED BY <3>1, <3>2
  <2>3. CASE /\ loaded' = loaded /\ pc' = "pull" /\ pulled' = pulled + 1
    <3>1. \A h \in DOMAIN heap' : heap'[h].iter < pulled'
      <4> TAKE h \in DOMAIN heap'
      <4>1. CASE heap'[h].iter = pulled BY <1>2, <2>3, <4>1
      <4>2. CASE \E i \in DOMAIN heap : heap'[h] = heap[i]
        <5>1. heap'[h].iter < pulled /\ heap'[h].iter \in Int BY <1>2, <1>5, <2>1, <4>2
        <5> QED BY <1>2, <2>3, <5>1
      <4> QED BY <4>1, <4>2
    <3> QED BY <1>1, <1>4, <1>7, <2>2, <2>3, <3>1 DEF ItemInv
  <2>4. CASE loaded' /\ pc' = "pop" /\ pulled = Len(iters)
    <3>1. \A k \in DOMAIN iters' : k < pulled + 1 BY <1>2, <2>4
    <3>2. \A k \in DOMAIN iters' : HasItem(k)' \/ Spent(k)' BY <2>2, <3>1
    <3> QED BY <1>1, <1>4, <2>4, <3>2 DEF ItemInv
  <2> QED BY <1>7, <2>3, <2>4, AnsweredFacts
<1> QED BY <1>2, <1>6, <1>7

LEMMA ItemStep ==
  ASSUME TypeInv, HeapInv, PhaseInv, ItemInv, Moves, ~failed'
  PROVE  ItemInv'
<1>1. (\A k \in DOMAIN iters : Cursor(k) \in 0 .. Len(iters[k].kept) + 1)' BY CursorStep DEF ItemInv
<1>2. /\ loaded \in BOOLEAN /\ Len(iters) \in Nat /\ DOMAIN iters = 1 .. Len(iters) /\ UNCHANGED sdk
      /\ ~failed /\ ~LooseEnd'
  BY GroupsStay, LooseEndStays DEF TypeInv, Moves, LooseEnd
<1>3. ASSUME heap' = <<>>, ~loaded', pc' \notin {"pull", "chunk"} PROVE ItemInv'
  <2>1. ~Held' /\ DOMAIN heap' = {} BY <1>3 DEF Held
  <2> QED BY <1>1, <1>3, <2>1 DEF ItemInv
<1>4. ASSUME UNCHANGED vars PROVE ItemInv'
  <2>1. \A k : (HasItem(k)' <=> HasItem(k)) /\ (Spent(k)' <=> Spent(k)) BY <1>4 DEF vars, HasItem, Spent
  <2>2. Held' <=> Held BY <1>2, <1>4 DEF vars, Held
  <2>3. (Held => ~HasItem(popped.item.iter))'
    <3>1. popped'.item.iter = popped.item.iter BY <1>4 DEF vars
    <3>2. PICK k : k = popped.item.iter OBVIOUS
    <3>3. Held => ~HasItem(k)' BY <2>1, <3>2 DEF ItemInv
    <3> QED BY <2>2, <3>1, <3>2, <3>3
  <2> QED BY <1>1, <1>4, <2>1, <2>2, <2>3 DEF vars, ItemInv
<1>5. ASSUME ToPlan PROVE ItemInv'
  <2>1. heap' = <<>> /\ ~loaded' BY <1>5 DEF ToPlan, PhaseInv
  <2>2. pc' \notin {"pull", "chunk"} BY <1>5 DEF ToPlan
  <2> QED BY <1>3, <2>1, <2>2
<1>6. ASSUME ToIterators PROVE ItemInv'
  <2>1. heap' = <<>> /\ ~loaded' BY <1>6 DEF ToIterators, PhaseInv
  <2>2. pc' \notin {"pull", "chunk"} BY <1>6 DEF ToIterators
  <2> QED BY <1>3, <2>1, <2>2
<1>7. ASSUME ToCall PROVE ItemInv'
  <2>1. /\ heap = <<>> /\ heap' = heap /\ DOMAIN heap' = {} /\ UNCHANGED iters BY <1>7 DEF ToCall, ItemInv
  <2>2. ~Held' BY <1>7 DEF ToCall, Held
  <2>3. CASE iters = <<>>
    <3>1. pc' = "pop" /\ loaded' /\ DOMAIN iters' = {} BY <1>7, <2>1, <2>3 DEF ToCall
    <3> QED BY <1>1, <2>1, <2>2, <3>1 DEF ItemInv
  <2>4. CASE iters # <<>>
    <3>1. pc' = "pull" /\ ~loaded' /\ pulled' = 1 BY <1>7, <2>4 DEF ToCall
    <3>2. \A k \in DOMAIN iters' : ~(k < pulled') BY <1>2, <2>1, <3>1
    <3> QED BY <1>1, <2>1, <2>2, <3>1, <3>2 DEF ItemInv
  <2> QED BY <2>3, <2>4
<1>8. ASSUME UNCHANGED <<iters, heap, popped, loaded>>, loaded, pc' \notin {"pull", "chunk"} => ~Held, Held => Held',
             Held' => Held /\ pulled' = popped.item.iter
      PROVE  ItemInv'
  <2>1. \A k : (HasItem(k)' <=> HasItem(k)) /\ (Spent(k)' <=> Spent(k)) BY <1>8 DEF HasItem, Spent
  <2>2. PICK k : k = popped.item.iter OBVIOUS
  <2>3. Held' => ~HasItem(k)' /\ k \in DOMAIN iters BY <1>8, <2>1, <2>2 DEF ItemInv
  <2>4. popped'.item.iter = k BY <1>8, <2>2
  <2>5. CASE pc # "panic"
    <3>1. \A l \in DOMAIN iters : HasItem(l) \/ Spent(l) \/ (Held /\ l = k) BY <1>8, <2>2, <2>5 DEF ItemInv
    <3>2. \A l \in DOMAIN iters' : HasItem(l)' \/ Spent(l)' \/ (Held' /\ l = k) BY <1>8, <2>1, <3>1
    <3> QED BY <1>1, <1>8, <2>2, <2>3, <2>4, <3>2 DEF ItemInv
  <2>6. CASE pc = "panic"
    <3>1. ~ToPlan /\ ~ToIterators /\ ~ToCall /\ ~ToCallAgain /\ ~ToEof /\ ~ToEndOfGroup /\ ~ToPanic
      BY <2>6 DEF ToPlan, ToIterators, ToCall, ToCallAgain, ToEof, ToEndOfGroup, ToPanic
    <3>2. \A j, x : ~ToPop(x) /\ ~ToMessage(j, x) /\ ~ToChunk(j) /\ ~ToData(j) /\ ~ToError(j) /\ ~ToCut(j)
      BY <2>6 DEF ToPop, ToMessage, ToChunk, ToData, ToError, ToCut
    <3> QED BY <1>4, <3>1, <3>2 DEF Moves
  <2> QED BY <2>5, <2>6
<1>9. ASSUME ToCallAgain PROVE ItemInv'
  <2>1. /\ pc = "idle" /\ loaded /\ UNCHANGED <<iters, heap, popped, loaded>> BY <1>9 DEF ToCallAgain
  <2>2. CASE sdk = "py"
    <3>1. result = "message" /\ pulled' = popped.item.iter
      <4>1. result # "eof" /\ pulled' = popped.item.iter BY <1>9, <2>2 DEF ToCallAgain
      <4> QED BY <1>2, <2>1, <2>2, <4>1 DEF PhaseInv
    <3>2. Held BY <2>1, <2>2, <3>1 DEF Held
    <3>3. popped.item.iter \in DOMAIN iters BY <3>2 DEF ItemInv
    <3>4. pulled' # 0 BY <1>2, <3>1, <3>3
    <3>5. pc' = "pull" BY <1>9, <3>4 DEF ToCallAgain
    <3>6. Held' BY <2>1, <3>5 DEF Held
    <3> QED BY <1>8, <2>1, <3>1, <3>2, <3>5, <3>6
  <2>3. CASE sdk # "py"
    <3>1. pc' = "pop" BY <1>9, <2>3 DEF ToCallAgain
    <3>2. ~Held /\ ~Held' BY <1>2, <2>1, <2>3, <3>1 DEF Held
    <3> QED BY <1>8, <2>1, <3>2
  <2> QED BY <2>2, <2>3
<1>10. ASSUME ToEof PROVE ItemInv'
  <2>1. UNCHANGED <<iters, heap, popped, loaded>> /\ pc' = "idle" /\ result' = "eof" /\ pc \in {"pop", "idle"}
    BY <1>10 DEF ToEof
  <2>2. ~Held /\ ~Held'
    <3>1. ~Held' BY <2>1 DEF Held
    <3>2. pc = "pop" \/ result = "eof" BY <1>2, <1>10 DEF ToEof
    <3> QED BY <2>1, <3>1, <3>2 DEF Held
  <2>3. CASE loaded BY <1>8, <2>1, <2>2, <2>3
  <2>4. CASE ~loaded
    <3>1. heap = <<>> BY <2>1, <2>4 DEF ItemInv
    <3> QED BY <1>3, <2>1, <2>4, <3>1
  <2> QED BY <2>3, <2>4
<1>11. ASSUME ToPanic PROVE ItemInv'
  <2>1. UNCHANGED <<iters, heap, popped, loaded>> /\ pc' = "panic" BY <1>11 DEF ToPanic
  <2>2. ~Held' BY <2>1 DEF Held
  <2>3. \A j, k \in DOMAIN heap' : heap'[j].iter = heap'[k].iter => j = k BY <2>1 DEF ItemInv
  <2> QED BY <1>1, <2>1, <2>2, <2>3 DEF ItemInv
<1>12. ASSUME NEW p, ToPop(p) PROVE ItemInv'
  <2>1. PICK k : k = heap[p].iter OBVIOUS
  <2>2. /\ pc = "pop" /\ p \in DOMAIN heap /\ popped'.item = heap[p] /\ UNCHANGED <<iters, loaded>>
        /\ Drops(heap, heap', p)
        /\ \/ pc' = "pull" /\ pulled' = k
           \/ sdk = "py" /\ pc' = "idle" /\ result' = "message"
    BY <1>12, <2>1 DEF ToPop
  <2>3. loaded BY <2>2 DEF PhaseInv
  <2>4. Held' /\ ~Held BY <1>2, <2>2, <2>3 DEF Held
  <2>5. k \in DOMAIN iters' BY <2>1, <2>2 DEF HeapInv
  <2>6. \A i, j \in DOMAIN heap : heap[i].iter = heap[j].iter => i = j BY DEF ItemInv
  <2>7. ~HasItem(k)' BY <2>1, <2>2, <2>6 DEF HasItem, Drops
  <2>8. \A i, j \in DOMAIN heap' : heap'[i].iter = heap'[j].iter => i = j BY <2>2, <2>6 DEF Drops
  <2>9. \A l \in DOMAIN iters' : HasItem(l)' \/ Spent(l)' \/ l = k
    <3> SUFFICES ASSUME NEW l \in DOMAIN iters, l # k PROVE HasItem(l)' \/ Spent(l)' BY <2>2
    <3>1. HasItem(l) \/ Spent(l) BY <2>2, <2>3, <2>4 DEF ItemInv
    <3>2. Spent(l) => Spent(l)' BY <2>2 DEF Spent
    <3>3. HasItem(l) => HasItem(l)' BY <2>1, <2>2 DEF HasItem, Drops
    <3> QED BY <3>1, <3>2, <3>3
  <2>10. popped'.item.iter = k BY <2>1, <2>2
  <2> QED BY <1>1, <2>2, <2>3, <2>4, <2>5, <2>7, <2>8, <2>9, <2>10 DEF ItemInv
<1>13. ASSUME ToEndOfGroup PROVE ItemInv'
  <2>1. pc = "pull" /\ it.cur \notin DOMAIN it.kept /\ it.next \notin DOMAIN it.chunks /\ PortAnswered
        /\ UNCHANGED <<iters, heap>>
    BY <1>13 DEF ToEndOfGroup
  <2>2. PICK l : l = pulled OBVIOUS
  <2>3. Spent(l)' BY <2>1, <2>2 DEF Spent, it
  <2>4. \A k : HasItem(k)' <=> HasItem(k) BY <2>1 DEF HasItem
  <2>5. \A j, k \in DOMAIN heap' : heap'[j].iter = heap'[k].iter => j = k BY <2>1 DEF ItemInv
  <2> QED BY <2>1, <2>2, <2>3, <2>4, <2>5, AnswerItems
<1>14. ASSUME NEW j \in IterType, NEW x, ToMessage(j, x) PROVE ItemInv'
  <2>1. pc = "pull" /\ PortAnswered /\ Becomes(j) /\ x.iter = pulled /\ Grows(heap, heap', x) BY <1>14 DEF ToMessage
  <2>2. PICK l : l = pulled OBVIOUS
  <2>3. l \in DOMAIN iters /\ DOMAIN iters' = DOMAIN iters /\ \A k \in DOMAIN iters : k # pulled => iters'[k] = iters[k]
    BY <2>1, <2>2, BecomesFacts
  <2>4. HasItem(l)' BY <2>1, <2>2 DEF HasItem, Grows
  <2>5. \A k \in DOMAIN iters : HasItem(k) => HasItem(k)' BY <2>1 DEF HasItem, Grows
  <2>6. \A h \in DOMAIN heap : heap[h].iter # x.iter
    <3>1. CASE loaded
      <4>1. Held BY <2>1, <3>1 DEF Held
      <4>2. popped.item.iter = pulled /\ ~HasItem(popped.item.iter) BY <2>1, <4>1 DEF ItemInv
      <4> QED BY <2>1, <4>2 DEF HasItem
    <3>2. CASE ~loaded
      <4>1. \A h \in DOMAIN heap : heap[h].iter < pulled /\ heap[h].iter \in DOMAIN iters
        BY <2>1, <3>2 DEF ItemInv, HeapInv
      <4> QED BY <1>2, <2>1, <2>2, <2>3, <4>1
    <3> QED BY <3>1, <3>2
  <2>7. \A i, k \in DOMAIN heap : heap[i].iter = heap[k].iter => i = k BY DEF ItemInv
  <2>8. \A i, k \in DOMAIN heap' : heap'[i].iter = heap'[k].iter => i = k
    <3> SUFFICES ASSUME NEW i \in DOMAIN heap', NEW k \in DOMAIN heap', i # k PROVE heap'[i].iter # heap'[k].iter OBVIOUS
    <3>1. \/ heap'[i] = x /\ \E m \in DOMAIN heap : heap'[k] = heap[m]
          \/ heap'[k] = x /\ \E m \in DOMAIN heap : heap'[i] = heap[m]
          \/ \E m, n \in DOMAIN heap : m # n /\ heap'[i] = heap[m] /\ heap'[k] = heap[n]
      BY <2>1 DEF Grows
    <3> QED BY <2>6, <2>7, <3>1
  <2>9. \A h \in DOMAIN heap' : heap'[h].iter = pulled \/ \E i \in DOMAIN heap : heap'[h] = heap[i] BY <2>1 DEF Grows
  <2> QED BY <2>1, <2>2, <2>3, <2>4, <2>5, <2>8, <2>9, AnswerItems
<1>15. ASSUME NEW j \in IterType, ToChunk(j) \/ ToData(j) PROVE ItemInv'
  <2>1. /\ pc \in {"pull", "chunk"} /\ pc' \in {"pull", "chunk"} /\ Becomes(j)
        /\ UNCHANGED <<pulled, heap, loaded, popped>>
    BY <1>15 DEF ToChunk, ToData
  <2>2. PICK l : l = pulled OBVIOUS
  <2>3. DOMAIN iters' = DOMAIN iters /\ \A k \in DOMAIN iters : k # l => iters'[k] = iters[k]
    BY <2>1, <2>2, BecomesFacts
  <2>4. \A k \in DOMAIN iters : (HasItem(k)' <=> HasItem(k)) /\ (k # l => (Spent(k)' <=> Spent(k)))
    BY <2>1, <2>3 DEF HasItem, Spent
  <2>5. \A i, k \in DOMAIN heap' : heap'[i].iter = heap'[k].iter => i = k BY <2>1 DEF ItemInv
  <2>6. CASE loaded
    <3>1. Held /\ Held' BY <2>1, <2>6 DEF Held
    <3>2. popped.item.iter = l /\ l \in DOMAIN iters /\ ~HasItem(l) BY <2>1, <2>2, <3>1 DEF ItemInv
    <3>3. popped'.item.iter = l /\ pulled' = l BY <2>1, <2>2, <3>2
    <3>4. \A k \in DOMAIN iters : HasItem(k) \/ Spent(k) \/ k = l BY <2>1, <2>6, <3>2 DEF ItemInv
    <3>5. \A k \in DOMAIN iters' : HasItem(k)' \/ Spent(k)' \/ k = l BY <2>3, <2>4, <3>4
    <3>6. ~HasItem(l)' BY <2>4, <3>2
    <3> QED BY <1>1, <2>1, <2>3, <2>5, <2>6, <3>1, <3>2, <3>3, <3>5, <3>6 DEF ItemInv
  <2>7. CASE ~loaded
    <3>1. ~Held' BY <2>1, <2>7 DEF Held
    <3>2. /\ \A h \in DOMAIN heap : heap[h].iter < l
          /\ \A k \in DOMAIN iters : k < l => HasItem(k) \/ Spent(k)
      BY <2>1, <2>2, <2>7 DEF ItemInv
    <3>3. \A k \in DOMAIN iters' : k < l => HasItem(k)' \/ Spent(k)'
      <4> SUFFICES ASSUME NEW k \in DOMAIN iters, k < l PROVE HasItem(k)' \/ Spent(k)' BY <2>3
      <4>1. l \in Int /\ k \in Int BY <1>2, <2>2 DEF TypeInv
      <4>2. k # l BY <4>1
      <4> QED BY <2>4, <3>2, <4>2
    <3> QED BY <1>1, <2>1, <2>2, <2>5, <2>7, <3>1, <3>2, <3>3 DEF ItemInv
  <2> QED BY <1>2, <2>6, <2>7
<1>16. \A j : ~ToError(j) /\ ~ToCut(j) BY DEF ToError, ToCut
<1> QED BY <1>4, <1>5, <1>6, <1>7, <1>9, <1>10, <1>11, <1>12, <1>13, <1>14, <1>15, <1>16 DEF Moves
-----------------------------------------------------------------------------
(* The ranges of the plans. *)

Extent == [offset : Nat, length : Nat]

InFileOrder(s) ==
  /\ s \in Seq(Extent)
  /\ \A m, n \in DOMAIN s : m < n => s[m].offset <= s[n].offset

(* The same of their ends: no two ranges have a byte in common. *)
Until(r, whole) == IF whole THEN r.offset + r.length ELSE r.offset
Apart(s, whole) ==
  /\ s \in Seq(Extent)
  /\ \A m, n \in DOMAIN s : m < n => Until(s[m], whole) <= s[n].offset

LEMMA ApartInOrder ==
  ASSUME NEW s, NEW whole \in BOOLEAN, Apart(s, whole)
  PROVE  InFileOrder(s)
<1>1. s \in Seq(Extent) BY DEF Apart
<1>2. \A m \in DOMAIN s : s[m] \in Extent BY <1>1
<1>3. ASSUME NEW m \in DOMAIN s, NEW n \in DOMAIN s, m < n PROVE s[m].offset <= s[n].offset
  <2>1. Until(s[m], whole) <= s[n].offset BY <1>3 DEF Apart
  <2>2. s[m].offset \in Nat /\ s[m].length \in Nat /\ s[n].offset \in Nat BY <1>2 DEF Extent
  <2> QED BY <2>1, <2>2 DEF Until
<1> QED BY <1>1, <1>3 DEF InFileOrder

(* Lists of ranges, each of which comes after the one before, are one. *)
LEMMA FlattenApart ==
  ASSUME NEW s, NEW c \in Nat, NEW whole \in BOOLEAN, DOMAIN s = 1 .. c, \A i \in 1 .. c : Apart(s[i], whole),
         s = [i \in 1 .. c |-> s[i]],
         \A i, j \in 1 .. c : i < j =>
           \A m \in DOMAIN s[i], n \in DOMAIN s[j] : Until(s[i][m], whole) <= s[j][n].offset
  PROVE  /\ Apart(FlattenSeq(s), whole)
         /\ \A k \in DOMAIN FlattenSeq(s) : \E i \in 1 .. c : \E m \in DOMAIN s[i] : FlattenSeq(s)[k] = s[i][m]
         /\ \A i \in 1 .. c : \A m \in DOMAIN s[i] : \E k \in DOMAIN FlattenSeq(s) : FlattenSeq(s)[k] = s[i][m]
<1> DEFINE f == FlattenSeq(s)
<1>1. s \in Seq(Seq(Extent)) /\ Len(s) = c
  <2>1. \A i \in 1 .. c : s[i] \in Seq(Extent) BY DEF Apart
  <2> DEFINE T == Seq(Extent)
  <2>2. \A i \in 1 .. c : s[i] \in T BY <2>1
  <2> HIDE DEF T
  <2>3. s \in Seq(T) BY <2>2
  <2>4. Len(s) = c BY <2>3
  <2> QED BY <2>3, <2>4 DEF T
<1>2. f \in Seq(Extent) /\ \E g, p : Flattened(f, s, Len(s), g, p) BY <1>1, FlattenFacts
<1>3. PICK g, p : Flattened(f, s, c, g, p) BY <1>1, <1>2
<1> HIDE DEF f
<1>4. ASSUME NEW k \in DOMAIN f
      PROVE  g[k] \in 1 .. c /\ p[k] \in DOMAIN s[g[k]] /\ f[k] = s[g[k]][p[k]] /\ p[k] \in Int
  <2>1. k \in 1 .. Len(f) BY <1>2
  <2>2. g[k] \in 1 .. c /\ p[k] \in 1 .. Len(s[g[k]]) /\ f[k] = s[g[k]][p[k]] BY <1>3, <2>1 DEF Flattened
  <2>3. s[g[k]] \in Seq(Extent) BY <2>2 DEF Apart
  <2>4. p[k] \in DOMAIN s[g[k]] BY <2>2, <2>3
  <2> QED BY <2>2, <2>4
<1>5. ASSUME NEW m \in DOMAIN f, NEW n \in DOMAIN f, m < n PROVE Until(f[m], whole) <= f[n].offset
  <2>1. m \in 1 .. Len(f) /\ n \in 1 .. Len(f) BY <1>2
  <2>2. g[m] < g[n] \/ (g[m] = g[n] /\ p[m] < p[n]) BY <1>3, <1>5, <2>1 DEF Flattened
  <2>3. CASE g[m] < g[n]
    <3>1. \A k \in DOMAIN s[g[m]], l \in DOMAIN s[g[n]] : Until(s[g[m]][k], whole) <= s[g[n]][l].offset
      BY <1>4, <2>3
    <3>2. Until(s[g[m]][p[m]], whole) <= s[g[n]][p[n]].offset BY <1>4, <3>1
    <3> QED BY <1>4, <3>2
  <2>4. CASE g[m] = g[n] /\ p[m] < p[n]
    <3>1. Apart(s[g[m]], whole) /\ p[m] \in DOMAIN s[g[m]] /\ p[n] \in DOMAIN s[g[m]] BY <1>4, <2>4
    <3>2. Until(s[g[m]][p[m]], whole) <= s[g[m]][p[n]].offset BY <2>4, <3>1 DEF Apart
    <3> QED BY <1>4, <2>4, <3>2
  <2> QED BY <2>2, <2>3, <2>4
<1>6. ASSUME NEW i \in 1 .. c, NEW m \in DOMAIN s[i] PROVE \E k \in DOMAIN f : f[k] = s[i][m]
  <2>1. s[i] \in Seq(Extent) BY DEF Apart
  <2>2. m \in 1 .. Len(s[i]) BY <2>1
  <2>3. PICK k \in 1 .. Len(f) : g[k] = i /\ p[k] = m BY <1>3, <2>2 DEF Flattened
  <2>4. k \in DOMAIN f BY <1>2, <2>3
  <2> QED BY <1>4, <2>3, <2>4
<1> QED BY <1>2, <1>4, <1>5, <1>6 DEF f, Apart

(* The range lies in a data chunk of the group. *)
Within(r, c) == c.off <= r.offset /\ r.offset + r.length <= c.off + c.len
WithinGroup(r, g) == \E i \in DOMAIN file[g].chunks : Within(r, file[g].chunks[i])

LEMMA ChunkRangeFacts ==
  ASSUME file \in Files, NEW g \in DOMAIN file, NEW i \in DOMAIN file[g].chunks
  PROVE  ChunkRange(g, i) \in Extent /\ Within(ChunkRange(g, i), file[g].chunks[i])
<1>1. file[g].chunks[i] \in Chunk BY FileFacts
<1>2. file[g].chunks[i].off \in Nat /\ file[g].chunks[i].len \in Nat BY <1>1, ChunkTypes
<1> QED BY <1>2 DEF ChunkRange, Within, Extent

LEMMA MessageRangesFacts ==
  ASSUME file \in Files, NEW g \in DOMAIN file, ~file[g].compressed, NEW i \in DOMAIN file[g].chunks
  PROVE  /\ Apart(MessageRanges(g, i), TRUE)
         /\ \A m \in DOMAIN MessageRanges(g, i) : Within(MessageRanges(g, i)[m], file[g].chunks[i])
<1> DEFINE c == file[g].chunks[i]
           k == Kept(g, i)
           r == MessageRanges(g, i)
<1>1. FromChunk(k, c, file[g].ids) BY KeptFacts
<1>2. c \in Chunk /\ c.len = c.ulen BY FileFacts
<1>3. c.off \in Nat /\ c.len \in Nat /\ c.ulen \in Nat BY <1>2, ChunkTypes
<1>4. r = [m \in DOMAIN k |-> [offset |-> c.off + k[m].off, length |-> k[m].len]] BY DEF MessageRanges
<1>5. /\ k \in Seq(KeptMessage)
      /\ \A m \in DOMAIN k : k[m].off + k[m].len <= c.ulen
      /\ \A m, n \in DOMAIN k : m < n => k[m].off + k[m].len <= k[n].off
  BY <1>1 DEF FromChunk
<1> HIDE DEF c, k, r
<1>6. \A m \in DOMAIN k : k[m].off \in Nat /\ k[m].len \in Nat
  <2>1. \A m \in DOMAIN k : k[m] \in KeptMessage BY <1>5
  <2> QED BY <2>1 DEF KeptMessage
<1>7. DOMAIN r = DOMAIN k /\ \A m \in DOMAIN k : r[m].offset = c.off + k[m].off /\ r[m].length = k[m].len /\ r[m] \in Extent
  BY <1>3, <1>4, <1>6 DEF Extent
<1>8. r \in Seq(Extent)
  <2>1. DOMAIN k = 1 .. Len(k) /\ Len(k) \in Nat BY <1>5
  <2>2. \A m \in 1 .. Len(k) : r[m] \in Extent BY <1>7, <2>1
  <2>3. r = [m \in 1 .. Len(k) |-> r[m]] BY <1>4, <1>7, <2>1
  <2> QED BY <2>1, <2>2, <2>3
<1>9. ASSUME NEW m \in DOMAIN k PROVE c.off <= c.off + k[m].off /\ c.off + k[m].off + k[m].len <= c.off + c.len
  <2>1. k[m].off \in Nat /\ k[m].len \in Nat /\ k[m].off + k[m].len <= c.ulen BY <1>5, <1>6
  <2> QED BY <1>2, <1>3, <2>1
<1>10. ASSUME NEW m \in DOMAIN k, NEW n \in DOMAIN k, m < n PROVE c.off + k[m].off + k[m].len <= c.off + k[n].off
  <2>1. k[m].off \in Nat /\ k[m].len \in Nat /\ k[n].off \in Nat BY <1>6
  <2>2. k[m].off + k[m].len <= k[n].off BY <1>5, <1>10
  <2> QED BY <1>3, <2>1, <2>2
<1>11. Apart(r, TRUE) BY <1>7, <1>8, <1>10 DEF Apart, Until
<1>12. \A m \in DOMAIN r : Within(r[m], c) BY <1>7, <1>9 DEF Within
<1> QED BY <1>11, <1>12 DEF r, c

(* Ranges in a chunk come before those in a later one. *)
LEMMA WithinOrder ==
  ASSUME NEW c \in Chunk, NEW d \in Chunk, c.off + c.len <= d.off,
         NEW r \in Extent, NEW s \in Extent, Within(r, c), Within(s, d)
  PROVE  Until(r, TRUE) <= s.offset
<1>1. c.off \in Nat /\ c.len \in Nat /\ d.off \in Nat /\ d.len \in Nat BY ChunkTypes
<1>2. r.offset \in Nat /\ r.length \in Nat /\ s.offset \in Nat BY DEF Extent
<1> QED BY <1>1, <1>2 DEF Within, Until

LEMMA RangesOfFacts ==
  ASSUME file \in Files, NEW g \in DOMAIN file
  PROVE  /\ Apart(RangesOf(g), TRUE)
         /\ \A m \in DOMAIN RangesOf(g) : WithinGroup(RangesOf(g)[m], g)
         /\ ~file[g].compressed => \A i \in ToSet(KeptChunks(g)) : \A m \in DOMAIN MessageRanges(g, i) :
              \E k \in DOMAIN RangesOf(g) : RangesOf(g)[k] = MessageRanges(g, i)[m]
<1> DEFINE c == KeptChunks(g)
           n == Len(c)
           d == file[g].chunks
<1>1. /\ c \in Seq(DOMAIN d) /\ \A i, j \in DOMAIN c : i < j => c[i] < c[j]
  BY ChunksFacts DEF Places
<1>2. n \in Nat /\ DOMAIN c = 1 .. n /\ \A i \in 1 .. n : c[i] \in DOMAIN d BY <1>1
<1>3. /\ \A i \in DOMAIN d : d[i] \in Chunk
      /\ \A i, j \in DOMAIN d : i < j => d[i].off + d[i].len <= d[j].off
  BY FileFacts
<1> HIDE DEF c, n, d
<1>4. CASE file[g].compressed
  <2> DEFINE r == [i \in 1 .. n |-> ChunkRange(g, c[i])]
  <2>1. RangesOf(g) = r BY <1>2, <1>4 DEF RangesOf, c
  <2>2. \A i \in 1 .. n : r[i] \in Extent /\ Within(r[i], d[c[i]]) BY <1>2, ChunkRangeFacts DEF d
  <2>3. r \in Seq(Extent) /\ DOMAIN r = 1 .. n
    <3>1. \A i \in 1 .. n : ChunkRange(g, c[i]) \in Extent BY <2>2
    <3> QED BY <1>2, <3>1
  <2>4. ASSUME NEW i \in DOMAIN r, NEW j \in DOMAIN r, i < j PROVE Until(r[i], TRUE) <= r[j].offset
    <3>1. i \in 1 .. n /\ j \in 1 .. n BY <2>3
    <3>2. c[i] < c[j] /\ c[i] \in DOMAIN d /\ c[j] \in DOMAIN d BY <1>1, <1>2, <2>4, <3>1
    <3>3. d[c[i]].off + d[c[i]].len <= d[c[j]].off /\ d[c[i]] \in Chunk /\ d[c[j]] \in Chunk BY <1>3, <3>2
    <3> HIDE DEF r
    <3> QED BY <2>2, <3>1, <3>3, WithinOrder
  <2>5. \A i \in DOMAIN r : \E k \in DOMAIN d : Within(r[i], d[k]) BY <1>2, <2>2, <2>3
  <2> HIDE DEF r
  <2>6. Apart(r, TRUE) BY <2>3, <2>4 DEF Apart
  <2> QED BY <1>4, <2>1, <2>5, <2>6 DEF WithinGroup, d
<1>5. CASE ~file[g].compressed
  <2> DEFINE s == [i \in 1 .. n |-> MessageRanges(g, c[i])]
  <2>1. RangesOf(g) = FlattenSeq(s) BY <1>2, <1>5 DEF RangesOf, c
  <2>2. \A i \in 1 .. n : Apart(s[i], TRUE) /\ \A m \in DOMAIN s[i] : Within(s[i][m], d[c[i]])
    BY <1>2, <1>5, MessageRangesFacts DEF d
  <2>3. DOMAIN s = 1 .. n /\ s = [i \in 1 .. n |-> s[i]] OBVIOUS
  <2> HIDE DEF s
  <2>4. ASSUME NEW i \in 1 .. n, NEW j \in 1 .. n, i < j, NEW k \in DOMAIN s[i], NEW l \in DOMAIN s[j]
        PROVE  Until(s[i][k], TRUE) <= s[j][l].offset
    <3>1. c[i] < c[j] /\ c[i] \in DOMAIN d /\ c[j] \in DOMAIN d BY <1>1, <1>2, <2>4
    <3>2. d[c[i]].off + d[c[i]].len <= d[c[j]].off /\ d[c[i]] \in Chunk /\ d[c[j]] \in Chunk BY <1>3, <3>1
    <3>3. s[i] \in Seq(Extent) /\ s[j] \in Seq(Extent) BY <2>2 DEF Apart
    <3>4. s[i][k] \in Extent /\ s[j][l] \in Extent BY <3>3
    <3> QED BY <2>2, <3>2, <3>4, WithinOrder
  <2>5. /\ Apart(FlattenSeq(s), TRUE)
        /\ \A k \in DOMAIN FlattenSeq(s) : \E i \in 1 .. n : \E m \in DOMAIN s[i] : FlattenSeq(s)[k] = s[i][m]
        /\ \A i \in 1 .. n : \A m \in DOMAIN s[i] : \E k \in DOMAIN FlattenSeq(s) : FlattenSeq(s)[k] = s[i][m]
    BY <1>2, <2>2, <2>3, <2>4, FlattenApart
  <2>6. ASSUME NEW k \in DOMAIN FlattenSeq(s) PROVE \E i \in DOMAIN d : Within(FlattenSeq(s)[k], d[i])
    <3>1. PICK i \in 1 .. n : \E m \in DOMAIN s[i] : FlattenSeq(s)[k] = s[i][m] BY <2>5
    <3> QED BY <1>2, <2>2, <3>1
  <2>7. ASSUME NEW i \in ToSet(KeptChunks(g)), NEW m \in DOMAIN MessageRanges(g, i)
        PROVE  \E k \in DOMAIN RangesOf(g) : RangesOf(g)[k] = MessageRanges(g, i)[m]
    <3>1. PICK a \in 1 .. n : i = c[a] BY <1>2 DEF ToSet, c
    <3>2. s[a] = MessageRanges(g, i) BY <3>1 DEF s
    <3> QED BY <2>1, <2>5, <3>2
  <2> QED BY <2>1, <2>5, <2>6, <2>7 DEF WithinGroup, d
<1> QED BY <1>4, <1>5

LEMMA DataRangesFacts ==
  ASSUME file \in Files
  PROVE  /\ Apart(DataRanges, TRUE)
         /\ \A g \in ToSet(Scoped) : ~file[g].compressed =>
              \A i \in ToSet(KeptChunks(g)) : \A m \in DOMAIN MessageRanges(g, i) :
                \E k \in DOMAIN DataRanges : DataRanges[k] = MessageRanges(g, i)[m]
<1> DEFINE n == Len(Scoped)
           s == [k \in 1 .. n |-> RangesOf(Scoped[k])]
<1>1. Scoped \in Seq(DOMAIN file) /\ \A i, j \in DOMAIN Scoped : i < j => Scoped[i] < Scoped[j] BY ScopedFacts
<1>2. n \in Nat /\ DOMAIN Scoped = 1 .. n /\ \A k \in 1 .. n : Scoped[k] \in DOMAIN file BY <1>1
<1>3. DataRanges = FlattenSeq(s) BY <1>2 DEF DataRanges
<1>4. DOMAIN s = 1 .. n /\ s = [i \in 1 .. n |-> s[i]] /\ \A k \in 1 .. n : s[k] = RangesOf(Scoped[k]) OBVIOUS
<1> HIDE DEF n, s
<1>5. ASSUME NEW k \in 1 .. n
      PROVE  Apart(s[k], TRUE) /\ \A m \in DOMAIN s[k] : WithinGroup(s[k][m], Scoped[k])
  <2>1. Scoped[k] \in DOMAIN file /\ s[k] = RangesOf(Scoped[k]) BY <1>2, <1>4
  <2> QED BY <2>1, RangesOfFacts
<1>6. ASSUME NEW i \in 1 .. n, NEW j \in 1 .. n, i < j, NEW k \in DOMAIN s[i], NEW l \in DOMAIN s[j]
      PROVE  Until(s[i][k], TRUE) <= s[j][l].offset
  <2> DEFINE g == Scoped[i]
             h == Scoped[j]
  <2>1. g < h /\ g \in DOMAIN file /\ h \in DOMAIN file BY <1>1, <1>2, <1>6
  <2>2. WithinGroup(s[i][k], g) /\ WithinGroup(s[j][l], h) BY <1>5
  <2> HIDE DEF g, h
  <2>3. PICK a \in DOMAIN file[g].chunks : Within(s[i][k], file[g].chunks[a]) BY <2>2 DEF WithinGroup
  <2>4. PICK b \in DOMAIN file[h].chunks : Within(s[j][l], file[h].chunks[b]) BY <2>2 DEF WithinGroup
  <2>5. file[g].chunks[a] \in Chunk /\ file[h].chunks[b] \in Chunk BY <2>1, FileFacts
  <2>6. file[g].chunks[a] \in ToSet(file[g].chunks) /\ file[h].chunks[b] \in ToSet(file[h].chunks) BY DEF ToSet
  <2>7. file[g].chunks[a].off + file[g].chunks[a].len <= file[h].chunks[b].off BY <2>1, <2>6, FileFacts
  <2>8. s[i] \in Seq(Extent) /\ s[j] \in Seq(Extent) BY <1>5 DEF Apart
  <2>9. s[i][k] \in Extent /\ s[j][l] \in Extent BY <2>8
  <2> QED BY <2>3, <2>4, <2>5, <2>7, <2>9, WithinOrder
<1>7. Apart(DataRanges, TRUE) BY <1>2, <1>3, <1>4, <1>5, <1>6, FlattenApart
<1>8. \A i \in 1 .. n : \A m \in DOMAIN s[i] : \E k \in DOMAIN DataRanges : DataRanges[k] = s[i][m]
  <2> DEFINE f == FlattenSeq(s)
  <2>1. \A i \in 1 .. n : \A m \in DOMAIN s[i] : \E k \in DOMAIN f : f[k] = s[i][m]
    BY <1>2, <1>4, <1>5, <1>6, FlattenApart
  <2> HIDE DEF f
  <2> QED BY <1>3, <2>1 DEF f
<1>9. ASSUME NEW g \in ToSet(Scoped), ~file[g].compressed,
             NEW i \in ToSet(KeptChunks(g)), NEW m \in DOMAIN MessageRanges(g, i)
      PROVE  \E k \in DOMAIN DataRanges : DataRanges[k] = MessageRanges(g, i)[m]
  <2>1. PICK a \in 1 .. n : g = Scoped[a] BY <1>2 DEF ToSet
  <2>2. s[a] = RangesOf(g) BY <1>4, <2>1
  <2>3. g \in DOMAIN file BY <1>2, <2>1
  <2>4. PICK l \in DOMAIN RangesOf(g) : RangesOf(g)[l] = MessageRanges(g, i)[m] BY <1>9, <2>3, RangesOfFacts
  <2> QED BY <1>8, <2>2, <2>4
<1> QED BY <1>7, <1>9

LEMMA IndexRangesFacts ==
  ASSUME file \in Files
  PROVE  InFileOrder(IndexRanges)
<1> DEFINE n == Len(Scoped)
           Found(g) == [i \in DOMAIN Chunks(g) |-> [offset |-> file[g].chunks[Chunks(g)[i]].index, length |-> 1]]
           s == [k \in 1 .. n |-> Found(Scoped[k])]
<1>1. Scoped \in Seq(DOMAIN file) /\ \A i, j \in DOMAIN Scoped : i < j => Scoped[i] < Scoped[j] BY ScopedFacts
<1>2. n \in Nat /\ DOMAIN Scoped = 1 .. n /\ \A k \in 1 .. n : Scoped[k] \in DOMAIN file BY <1>1
<1>3. IndexRanges = FlattenSeq(s) BY <1>2 DEF IndexRanges
<1>4. DOMAIN s = 1 .. n /\ s = [i \in 1 .. n |-> s[i]] /\ \A k \in 1 .. n : s[k] = Found(Scoped[k]) OBVIOUS
<1> HIDE DEF n, s
<1>5. ASSUME NEW g \in DOMAIN file
      PROVE  /\ Apart(Found(g), FALSE)
             /\ \A m \in DOMAIN Found(g) : \E c \in ToSet(file[g].chunks) : Found(g)[m].offset = c.index
  <2> DEFINE a == Chunks(g)
             d == file[g].chunks
             r == [i \in DOMAIN a |-> [offset |-> d[a[i]].index, length |-> 1]]
  <2>1. a \in Seq(DOMAIN d) /\ \A i, j \in DOMAIN a : i < j => a[i] < a[j] BY ChunksFacts DEF Places
  <2>2. \A i \in DOMAIN d : d[i] \in Chunk /\ d[i] \in ToSet(d) BY FileFacts DEF ToSet
  <2>3. \A i \in DOMAIN d : d[i].index \in Nat BY <2>2, ChunkTypes
  <2>4. \A i, j \in DOMAIN d : i < j => d[i].index <= d[j].index BY FileFacts
  <2>5. Found(g) = r OBVIOUS
  <2> HIDE DEF a, d
  <2>6. \A i \in DOMAIN a : a[i] \in DOMAIN d BY <2>1
  <2>7. \A i \in DOMAIN a : [offset |-> d[a[i]].index, length |-> 1] \in Extent BY <2>3, <2>6 DEF Extent
  <2>8. r \in Seq(Extent)
    <3>1. DOMAIN a = 1 .. Len(a) /\ Len(a) \in Nat BY <2>1
    <3> QED BY <2>7, <3>1
  <2>9. DOMAIN r = DOMAIN a /\ \A i \in DOMAIN a : r[i].offset = d[a[i]].index OBVIOUS
  <2> HIDE DEF r
  <2>10. \A i, j \in DOMAIN r : i < j => r[i].offset <= r[j].offset BY <2>1, <2>4, <2>6, <2>9
  <2>11. Apart(r, FALSE) BY <2>8, <2>10 DEF Apart, Until
  <2>12. \A m \in DOMAIN r : \E c \in ToSet(d) : r[m].offset = c.index BY <2>2, <2>6, <2>9
  <2> HIDE DEF Found
  <2> QED BY <2>5, <2>11, <2>12 DEF d
<1> HIDE DEF Found
<1>6. ASSUME NEW i \in 1 .. n, NEW j \in 1 .. n, i < j, NEW k \in DOMAIN s[i], NEW l \in DOMAIN s[j]
      PROVE  Until(s[i][k], FALSE) <= s[j][l].offset
  <2> DEFINE g == Scoped[i]
             h == Scoped[j]
  <2>1. g < h /\ g \in DOMAIN file /\ h \in DOMAIN file BY <1>1, <1>2, <1>6
  <2>2. s[i] = Found(g) /\ s[j] = Found(h) BY <1>4
  <2> HIDE DEF g, h
  <2>3. PICK c \in ToSet(file[g].chunks) : s[i][k].offset = c.index BY <1>5, <2>1, <2>2
  <2>4. PICK d \in ToSet(file[h].chunks) : s[j][l].offset = d.index BY <1>5, <2>1, <2>2
  <2>5. c.index <= d.index BY <2>1, FileFacts
  <2> QED BY <2>3, <2>4, <2>5 DEF Until
<1>7. \A i \in 1 .. n : Apart(s[i], FALSE) BY <1>2, <1>4, <1>5
<1>8. Apart(IndexRanges, FALSE) BY <1>2, <1>3, <1>4, <1>6, <1>7, FlattenApart
<1> QED BY <1>8, ApartInOrder

LEMMA RangesStep ==
  ASSUME file \in Files, [SdkNext]_portVars
  PROVE  UNCHANGED ranges \/ InFileOrder(ranges')
<1> SUFFICES ASSUME ~UNCHANGED ranges PROVE InFileOrder(ranges') OBVIOUS
<1>1. PlanIndexes \/ PlanData BY RangesMove
<1>2. CASE PlanIndexes BY <1>2, IndexRangesFacts DEF PlanIndexes
<1>3. CASE PlanData BY <1>3, DataRangesFacts, ApartInOrder DEF PlanData
<1> QED BY <1>1, <1>2, <1>3
-----------------------------------------------------------------------------
(* What holds in every state. *)

IteratorInv ==
  /\ TypeInv /\ HeapInv /\ InFileOrder(ranges)
  /\ ~LooseEnd => PhaseInv
  /\ ~failed => ItemInv

LEMMA IteratorInvHolds == SdkSpec => []IteratorInv
<1>1. SdkInit => IteratorInv
  <2> SUFFICES ASSUME SdkInit PROVE IteratorInv OBVIOUS
  <2>1. InFileOrder(ranges) BY DEF SdkInit, Init, Start, InFileOrder
  <2> QED BY <2>1, InitFacts DEF IteratorInv
<1>2. IteratorInv /\ [SdkNext]_portVars => IteratorInv'
  <2> SUFFICES ASSUME IteratorInv, [SdkNext]_portVars PROVE IteratorInv' OBVIOUS
  <2>1. TypeInv /\ HeapInv BY DEF IteratorInv
  <2>2. Moves BY <2>1, StepMoves
  <2>3. TypeInv' /\ HeapInv' BY <2>1, <2>2, TypeStep, HeapStep
  <2>4. InFileOrder(ranges)'
    <3>1. file \in Files BY <2>1 DEF TypeInv
    <3>2. UNCHANGED ranges \/ InFileOrder(ranges') BY <3>1, RangesStep
    <3> QED BY <3>2 DEF IteratorInv, InFileOrder
  <2>5. ~LooseEnd' => PhaseInv' BY <2>1, <2>2, LooseEndStays, PhaseStep DEF IteratorInv
  <2>6. ~failed' => ItemInv'
    <3> SUFFICES ASSUME ~failed' PROVE ItemInv' OBVIOUS
    <3>1. ~failed BY <2>1, <2>2, LooseEndStays
    <3>2. ~LooseEnd BY <3>1 DEF LooseEnd
    <3> QED BY <2>1, <2>2, <3>1, <3>2, ItemStep DEF IteratorInv
  <2> QED BY <2>3, <2>4, <2>5, <2>6 DEF IteratorInv
<1> QED BY <1>1, <1>2, PTL DEF SdkSpec

(* A group that is read has one item in the heap at the most, and when a   *)
(* message is popped every group that has messages left has one, so that   *)
(* the payload of an item is still in the buffer of its group.             *)
THEOREM SdkOneItemPerGroup == SdkSpec => []OneItemPerGroup
<1>1. IteratorInv => OneItemPerGroup
  <2> SUFFICES ASSUME IteratorInv, ~failed PROVE
        /\ \A j, k \in DOMAIN heap : heap[j].iter = heap[k].iter => j = k
        /\ pc = "pop" /\ loaded =>
             \A k \in DOMAIN iters :
               (\E j \in DOMAIN heap : heap[j].iter = k) \/ iters[k].cur \notin DOMAIN iters[k].kept
    BY DEF OneItemPerGroup
  <2>1. ItemInv BY DEF IteratorInv
  <2>2. pc = "pop" => ~Held BY DEF Held
  <2> QED BY <2>1, <2>2 DEF ItemInv, HasItem, Spent
<1> QED BY <1>1, IteratorInvHolds, PTL

(* The ranges that are given to Plan, of the index chunks and then of the  *)
(* data, are in the order of their offsets, forward and in reverse.        *)
THEOREM SdkPlanPrecondition == SdkSpec => []PlanPrecondition
<1>1. IteratorInv => PlanPrecondition
  <2> SUFFICES ASSUME InFileOrder(ranges), NEW k \in 1 .. Len(ranges) - 1
               PROVE  ranges[k].offset <= ranges[k + 1].offset
    BY DEF PlanPrecondition, IteratorInv
  <2> DEFINE l == k + 1
  <2>1. k \in DOMAIN ranges /\ l \in DOMAIN ranges /\ k < l BY DEF InFileOrder
  <2> HIDE DEF l
  <2>2. ranges[k].offset <= ranges[l].offset BY <2>1 DEF InFileOrder
  <2> QED BY <2>2 DEF l
<1> QED BY <1>1, IteratorInvHolds, PTL

(* The cursors of an iterator stay within one place of what they walk      *)
(* over, and its buffer, its heap and its ranges have their types.         *)
THEOREM SdkTypeOK == SdkSpec => []TypeOK
<1>1. IteratorInv => TypeOK
  <2> SUFFICES ASSUME IteratorInv PROVE TypeOK OBVIOUS
  <2>1. TypeInv /\ HeapInv /\ InFileOrder(ranges) BY DEF IteratorInv
  <2>2. ASSUME NEW k \in DOMAIN iters
        PROVE  /\ iters[k].group \in DOMAIN file
               /\ ToSet(iters[k].chunks) \subseteq DOMAIN file[iters[k].group].chunks
               /\ iters[k].next \in 0 .. Len(iters[k].chunks) + 1
               /\ iters[k].buf \in {-1, 0} \cup ToSet(iters[k].chunks)
    <3>1. IterOK(iters[k]) BY <2>1 DEF TypeInv, ItersOK
    <3> QED BY <3>1 DEF IterOK, ToSet
  <2>3. ASSUME NEW k \in DOMAIN iters, ~failed, pc # "chunk" PROVE iters[k].cur \in 0 .. Len(iters[k].kept) + 1
    <3>1. ItemInv BY <2>3 DEF IteratorInv
    <3>2. Cursor(k) = iters[k].cur BY <2>3 DEF Cursor
    <3>3. Cursor(k) \in 0 .. Len(iters[k].kept) + 1 BY <3>1 DEF ItemInv
    <3> QED BY <3>2, <3>3
  <2>4. \A k \in DOMAIN heap : heap[k].iter \in DOMAIN iters /\ heap[k].id \in file[iters[heap[k].iter].group].ids
    BY <2>1 DEF HeapInv
  <2>5. \A k \in DOMAIN ranges : ranges[k].offset \in Nat /\ ranges[k].length \in Nat
    <3>1. \A k \in DOMAIN ranges : ranges[k] \in Extent BY <2>1 DEF InFileOrder
    <3> QED BY <3>1 DEF Extent
  <2> QED BY <2>1, <2>2, <2>3, <2>4, <2>5 DEF TypeOK, TypeInv
<1> QED BY <1>1, IteratorInvHolds, PTL
-----------------------------------------------------------------------------
(* What a group has to give: what is kept of its chunks are the messages   *)
(* the query asks for, each with its own bytes.                            *)

(* No message is empty.  Messages of no bytes have the place of the next   *)
(* one, and the merge by places does not know their order.                 *)
NoEmptyMessages == \A g \in DOMAIN file : \A c \in ToSet(file[g].chunks) : \A m \in ToSet(c.msgs) : m.len > 0

(* The messages of a chunk and their places in its bytes. *)
LEMMA MessageTypes ==
  ASSUME NEW c \in Chunk, IsTrue(c)
  PROVE  /\ Len(c.msgs) \in Nat \ {0} /\ DOMAIN c.msgs = 1 .. Len(c.msgs) /\ DOMAIN c.data = 1 .. Len(c.msgs)
         /\ \A q \in DOMAIN c.msgs :
              /\ c.msgs[q].id \in Nat /\ c.msgs[q].ts \in Int /\ c.msgs[q].n \in Nat /\ c.msgs[q].len \in Nat
              /\ c.msgs[q].key \in BOOLEAN
              /\ c.data[q].at \in Nat /\ c.data[q].len = c.msgs[q].len /\ c.data[q].n = c.msgs[q].n
              /\ c.data[q].at + c.msgs[q].len = IF q = Len(c.msgs) THEN c.ulen ELSE c.data[q + 1].at
<1> DEFINE M == [id : Nat, ts : Int, n : Nat, len : Nat, key : BOOLEAN]
           D == [n : Nat, at : Nat, len : Nat]
<1>1. c.msgs \in Seq(M) /\ c.data \in Seq(D) BY DEF Chunk
<1>2. \A x \in M : x.id \in Nat /\ x.ts \in Int /\ x.n \in Nat /\ x.len \in Nat /\ x.key \in BOOLEAN OBVIOUS
<1>3. \A x \in D : x.at \in Nat OBVIOUS
<1> HIDE DEF M, D
<1>4. /\ c.msgs # <<>> /\ DOMAIN c.data = DOMAIN c.msgs
      /\ \A q \in DOMAIN c.msgs :
           /\ c.data[q].n = c.msgs[q].n /\ c.data[q].len = c.msgs[q].len
           /\ c.data[q].at + c.data[q].len = IF q = Len(c.msgs) THEN c.ulen ELSE c.data[q + 1].at
  BY DEF IsTrue
<1>5. Len(c.msgs) \in Nat \ {0} /\ DOMAIN c.msgs = 1 .. Len(c.msgs) BY <1>1, <1>4
<1>6. \A q \in DOMAIN c.msgs : c.msgs[q] \in M /\ c.data[q] \in D BY <1>1, <1>4
<1> QED BY <1>2, <1>3, <1>4, <1>5, <1>6

(* A message ends where the next begins or before. *)
LEMMA BytesFollow ==
  ASSUME NEW c \in Chunk, IsTrue(c)
  PROVE  \A q \in DOMAIN c.msgs :
           /\ c.data[q].at + c.msgs[q].len <= c.ulen
           /\ \A r \in DOMAIN c.msgs : q < r => c.data[q].at + c.msgs[q].len <= c.data[r].at
<1> DEFINE l == Len(c.msgs)
           at(q) == c.data[q].at
           len(q) == c.msgs[q].len
<1>1. /\ l \in Nat \ {0} /\ DOMAIN c.msgs = 1 .. l
      /\ \A q \in 1 .. l : /\ at(q) \in Nat /\ len(q) \in Nat
                           /\ at(q) + len(q) = IF q = l THEN c.ulen ELSE at(q + 1)
  BY MessageTypes
<1>2. c.ulen \in Nat BY ChunkTypes
<1> HIDE DEF l, at, len
<1>3. ASSUME NEW q \in 1 .. l, NEW r \in 1 .. l, q < r PROVE at(q) + len(q) <= at(r)
  <2> DEFINE S == {d \in Nat : q + 1 + d <= l => at(q) + len(q) <= at(q + 1 + d)}
  <2>1. 0 \in S
    <3> SUFFICES ASSUME q + 1 <= l PROVE at(q) + len(q) <= at(q + 1) OBVIOUS
    <3>1. q # l /\ q + 1 \in 1 .. l BY <1>1
    <3> DEFINE t == q + 1
    <3>2. at(t) \in Nat /\ at(q) + len(q) = at(t) BY <1>1, <3>1
    <3> HIDE DEF t
    <3> QED BY <3>2 DEF t
  <2>2. ASSUME NEW d \in Nat, d \in S PROVE d + 1 \in S
    <3> SUFFICES ASSUME q + 1 + (d + 1) <= l PROVE at(q) + len(q) <= at(q + 1 + (d + 1)) OBVIOUS
    <3> DEFINE s == q + 1 + d
               t == s + 1
    <3>1. s \in 1 .. l /\ t \in 1 .. l /\ s # l BY <1>1
    <3>2. q + 1 + (d + 1) = t /\ s <= l BY <1>1
    <3>3. at(q) + len(q) <= at(s) BY <2>2, <3>2
    <3> HIDE DEF s
    <3>4. at(s) + len(s) = at(t) BY <1>1, <3>1
    <3>5. at(s) \in Nat /\ len(s) \in Nat /\ at(t) \in Nat /\ at(q) \in Nat /\ len(q) \in Nat BY <1>1, <3>1
    <3> HIDE DEF t
    <3>6. at(q) + len(q) <= at(t) BY <3>3, <3>4, <3>5
    <3> QED BY <3>2, <3>6
  <2> HIDE DEF S
  <2>3. Nat \subseteq S BY <2>1, <2>2, AllNumbers
  <2> DEFINE d == r - q - 1
  <2>4. d \in Nat /\ q + 1 + d = r BY <1>1, <1>3
  <2> HIDE DEF d
  <2> DEFINE s == q + 1 + d
  <2>5. s <= l => at(q) + len(q) <= at(s) BY <2>3, <2>4 DEF S
  <2>6. s = r BY <2>4
  <2>7. s <= l BY <1>1, <2>6
  <2> HIDE DEF s
  <2> QED BY <2>5, <2>6, <2>7
<1>4. ASSUME NEW q \in 1 .. l PROVE at(q) + len(q) <= c.ulen
  <2>0. at(q) \in Nat /\ len(q) \in Nat /\ l \in 1 .. l BY <1>1
  <2>1. CASE q = l BY <1>1, <1>2, <2>1
  <2>2. CASE q # l
    <3>1. at(q) + len(q) <= at(l) BY <1>1, <1>3, <2>0, <2>2
    <3>2. at(l) + len(l) = c.ulen /\ at(l) \in Nat /\ len(l) \in Nat BY <1>1, <2>0
    <3> QED BY <1>2, <2>0, <3>1, <3>2
  <2> QED BY <2>1, <2>2
<1> QED BY <1>1, <1>3, <1>4 DEF at, len

(* The bytes at a message's place are its own. *)
LEMMA OwnBytes ==
  ASSUME NEW c \in Chunk, IsTrue(c), NEW q \in DOMAIN c.msgs
  PROVE  Bytes(c.data, c.data[q].at, c.msgs[q].len) = Own(c.msgs[q].n, c.msgs[q].len)
<1> DEFINE d == c.data
           a == d[q].at
           len == c.msgs[q].len
           n == c.msgs[q].n
           Part(p) == {<<p.n, x - p.at>> : x \in (p.at .. p.at + p.len - 1) \cap (a .. a + len - 1)}
<1>1. /\ DOMAIN d = DOMAIN c.msgs /\ DOMAIN d \subseteq Int
      /\ \A r \in DOMAIN d : d[r].at \in Nat /\ d[r].len = c.msgs[r].len /\ c.msgs[r].len \in Nat /\ d[r].n = c.msgs[r].n
  BY MessageTypes
<1>2. \A r, s \in DOMAIN d : r < s => d[r].at + d[r].len <= d[s].at BY <1>1, BytesFollow
<1>3. Bytes(d, a, len) = UNION {Part(p) : p \in ToSet(d)} BY DEF Bytes
<1>4. a \in Nat /\ len \in Nat /\ d[q].n = n /\ d[q].len = len /\ q \in DOMAIN d BY <1>1
<1>5. ASSUME NEW p \in ToSet(d), p # d[q] PROVE Part(p) = {}
  <2>1. PICK r \in DOMAIN d : p = d[r] BY DEF ToSet
  <2>2. r < q \/ q < r BY <1>1, <1>4, <1>5, <2>1
  <2>3. p.at \in Nat /\ p.len \in Nat /\ (p.at + p.len <= a \/ a + len <= p.at) BY <1>1, <1>2, <1>4, <2>1, <2>2
  <2> HIDE DEF a, len
  <2>4. (p.at .. p.at + p.len - 1) \cap (a .. a + len - 1) = {} BY <1>4, <2>3
  <2> QED BY <2>4
<1>6. Part(d[q]) = Own(n, len)
  <2> HIDE DEF n, len
  <2>1. Part(d[q]) = {<<n, x - a>> : x \in a .. a + len - 1} BY <1>4
  <2>2. ASSUME NEW x \in a .. a + len - 1 PROVE x - a \in 0 .. len - 1 BY <1>4
  <2>3. ASSUME NEW y \in 0 .. len - 1 PROVE a + y \in a .. a + len - 1 /\ (a + y) - a = y BY <1>4
  <2> HIDE DEF a, Part
  <2> QED BY <2>1, <2>2, <2>3 DEF Own
<1>7. d[q] \in ToSet(d) BY <1>4 DEF ToSet
<1> HIDE DEF Part
<1>8. UNION {Part(p) : p \in ToSet(d)} = Part(d[q]) BY <1>5, <1>7
<1> QED BY <1>3, <1>6, <1>8

(* The places of the messages of a topic, in their order. *)
LEMMA MessagesOfFacts ==
  ASSUME NEW c \in Chunk, IsTrue(c), NEW id
  PROVE  LET mine == MessagesOf(c, id) IN
         /\ \A k \in DOMAIN mine : mine[k] \in DOMAIN c.msgs /\ c.msgs[mine[k]].id = id
         /\ \A k, n \in DOMAIN mine : k < n => mine[k] < mine[n]
         /\ \A q \in DOMAIN c.msgs : c.msgs[q].id = id => \E k \in DOMAIN mine : mine[k] = q
         /\ DOMAIN mine \subseteq Nat \ {0}
<1> DEFINE S == {q \in DOMAIN c.msgs : c.msgs[q].id = id}
           mine == MessagesOf(c, id)
<1>1. S \in SUBSET (1 .. Len(c.msgs)) /\ Len(c.msgs) \in Int BY MessageTypes
<1>2. mine = Arranged(S) BY DEF MessagesOf
<1>3. \A q \in S : q \in DOMAIN c.msgs /\ c.msgs[q].id = id OBVIOUS
<1>4. \A q \in DOMAIN c.msgs : c.msgs[q].id = id => q \in S OBVIOUS
<1> HIDE DEF S, mine
<1>5. IsFiniteSet(S) /\ S \subseteq Int
  <2> DEFINE l == Len(c.msgs)
  <2>1. S \in SUBSET (1 .. l) /\ l \in Int BY <1>1
  <2> HIDE DEF l
  <2>2. 1 \in Int OBVIOUS
  <2>3. IsFiniteSet(1 .. l) BY <2>1, <2>2, FS_Interval
  <2>4. IsFiniteSet(S) BY <2>1, <2>3, FS_Subset
  <2> QED BY <2>1, <2>4
<1>6. /\ mine \in Seq(S)
      /\ \A i, j \in DOMAIN mine : i < j => mine[i] < mine[j]
      /\ \A x \in S : \E i \in DOMAIN mine : mine[i] = x
  BY <1>2, <1>5, ArrangedFacts
<1>7. \A k \in DOMAIN mine : mine[k] \in S BY <1>6
<1>8. DOMAIN mine \subseteq Nat \ {0} BY <1>6
<1> QED BY <1>3, <1>4, <1>6, <1>7, <1>8 DEF mine

(* What the index of a chunk tells of its messages. *)
LEMMA EntriesTrue ==
  ASSUME NEW c \in Chunk, IsTrue(c), NEW e \in EntriesOf(c.topics)
  PROVE  LET mine == MessagesOf(c, e.id) IN
         /\ e.k \in DOMAIN mine /\ mine[e.k] \in DOMAIN c.msgs
         /\ e.id = c.msgs[mine[e.k]].id /\ e.ts = c.msgs[mine[e.k]].ts /\ e.off = c.data[mine[e.k]].at
<1> DEFINE topics == c.topics
           t == topics[e.topic]
           mine == MessagesOf(c, e.id)
<1>1. topics \in Seq(TopicIndex) BY ChunkTypes
<1>2. e.topic \in DOMAIN topics /\ e.k \in DOMAIN t.msgs /\ e = Entry(topics, e.topic, e.k) BY <1>1, EntryFacts
<1>3. e.id = t.id /\ e.ts = t.msgs[e.k].ts /\ e.off = t.msgs[e.k].off BY <1>2 DEF Entry
<1>4. t \in ToSet(topics) BY <1>2 DEF ToSet
<1>5. t.msgs = [k \in DOMAIN mine |-> [ts |-> c.msgs[mine[k]].ts, off |-> c.data[mine[k]].at]]
  <2> DEFINE yours == MessagesOf(c, t.id)
  <2>1. t.msgs = [k \in DOMAIN yours |-> [ts |-> c.msgs[yours[k]].ts, off |-> c.data[yours[k]].at]] BY <1>4 DEF IsTrue
  <2>2. yours = mine BY <1>3
  <2> HIDE DEF yours, mine, t
  <2> QED BY <2>1, <2>2
<1>6. \A k \in DOMAIN mine : mine[k] \in DOMAIN c.msgs /\ c.msgs[mine[k]].id = e.id BY MessagesOfFacts
<1> HIDE DEF mine, t
<1>7. e.k \in DOMAIN mine BY <1>2, <1>5
<1>8. t.msgs[e.k] = [ts |-> c.msgs[mine[e.k]].ts, off |-> c.data[mine[e.k]].at] BY <1>5, <1>7
<1> QED BY <1>3, <1>6, <1>7, <1>8 DEF mine

(* The merge of an index chunk gives back the chunk's messages, as they    *)
(* were written.                                                           *)
LEMMA MergedIsWritten ==
  ASSUME NEW c \in Chunk, NEW ids, ChunkInOrder(c, ids), IsTrue(c), \A m \in ToSet(c.msgs) : m.len > 0
  PROVE  LET all == WithLengths(Merged(c.topics), c.ulen) IN
         /\ DOMAIN all = DOMAIN c.msgs
         /\ \A q \in DOMAIN c.msgs : all[q] = [id |-> c.msgs[q].id, ts |-> c.msgs[q].ts,
                                               off |-> c.data[q].at, len |-> c.msgs[q].len]
<1> DEFINE topics == c.topics
           E == EntriesOf(topics)
           m == Merged(topics)
           l == Len(c.msgs)
           k == Len(m)
           a == [i \in 1 .. k |-> m[i].off]
           b == [q \in 1 .. l |-> c.data[q].at]
           len(q) == c.msgs[q].len
           Is(e, q) == e.id = c.msgs[q].id /\ e.ts = c.msgs[q].ts /\ e.off = c.data[q].at
<1>1. topics \in Seq(TopicIndex) /\ c.ulen \in Nat BY ChunkTypes
<1>2. OffsetsAscend(topics)
  <2>1. \A t \in DOMAIN topics : topics[t] \in ToSet(topics) BY DEF ToSet
  <2> QED BY <2>1 DEF OffsetsAscend, ChunkInOrder
<1>3. /\ m \in Seq(E)
      /\ \A i, j \in DOMAIN m : i < j => Precedes(m[i], m[j])
      /\ \A e \in E : \E i \in DOMAIN m : m[i] = e
  BY <1>1, <1>2, MergedFacts
<1>4. /\ l \in Nat /\ DOMAIN c.msgs = 1 .. l
      /\ \A q \in 1 .. l : /\ b[q] \in Nat /\ len(q) \in Nat /\ len(q) > 0
                           /\ b[q] + len(q) = IF q = l THEN c.ulen ELSE c.data[q + 1].at
                           /\ \A r \in 1 .. l : q < r => b[q] + len(q) <= b[r]
  <2>1. \A q \in DOMAIN c.msgs : c.msgs[q] \in ToSet(c.msgs) BY DEF ToSet
  <2> QED BY <2>1, MessageTypes, BytesFollow
<1>5. ASSUME NEW q \in 1 .. l, NEW r \in 1 .. l, b[q] = b[r] PROVE q = r
  <2>1. q < r \/ q = r \/ r < q BY <1>4
  <2> HIDE DEF b, len
  <2> QED BY <1>4, <1>5, <2>1
<1>6. Climbs(b, l)
  <2>1. ASSUME NEW q \in 1 .. l, NEW r \in 1 .. l, q < r PROVE b[q] < b[r]
    <3> HIDE DEF b, len
    <3>1. b[q] + len(q) <= b[r] /\ b[q] \in Nat /\ b[r] \in Nat /\ len(q) \in Nat /\ len(q) > 0 BY <1>4, <2>1
    <3> QED BY <3>1
  <2> HIDE DEF b, len
  <2>2. \A q \in 1 .. l : b[q] \in Int BY <1>4
  <2> QED BY <2>1, <2>2 DEF Climbs
<1>7. k \in Nat /\ DOMAIN m = 1 .. k /\ \A i \in 1 .. k : m[i] \in E BY <1>3
<1>8. ASSUME NEW e \in E
      PROVE  LET q == MessagesOf(c, e.id)[e.k] IN q \in 1 .. l /\ Is(e, q) /\ e.off = b[q] /\ e.key = e.off /\ e.k \in DOMAIN MessagesOf(c, e.id)
  <2>1. e.key = e.off BY <1>1, EntryTypes
  <2> QED BY <1>4, <2>1, EntriesTrue
<1>9. ASSUME NEW q \in 1 .. l PROVE \E e \in E : Is(e, q) /\ e.off = b[q]
  <2>1. PICK x \in ToSet(topics) : x.id = c.msgs[q].id BY <1>4 DEF IsTrue
  <2>2. PICK t \in DOMAIN topics : x = topics[t] BY DEF ToSet
  <2> DEFINE mine == MessagesOf(c, x.id)
  <2>6. PICK n \in DOMAIN mine : mine[n] = q BY <1>4, <2>1, MessagesOfFacts
  <2>7. x.msgs = [i \in DOMAIN mine |-> [ts |-> c.msgs[mine[i]].ts, off |-> c.data[mine[i]].at]] BY DEF IsTrue
  <2> HIDE DEF mine
  <2>8. n \in DOMAIN x.msgs /\ x.msgs[n] = [ts |-> c.msgs[q].ts, off |-> c.data[q].at] BY <2>6, <2>7
  <2> DEFINE e == Entry(topics, t, n)
  <2>9. e \in E BY <1>1, <2>2, <2>8, EntryFacts
  <2>10. e.id = x.id /\ e.ts = x.msgs[n].ts /\ e.off = x.msgs[n].off BY <2>2 DEF Entry
  <2>11. Is(e, q) /\ e.off = b[q] BY <2>1, <2>8, <2>10
  <2> HIDE DEF e
  <2> QED BY <2>9, <2>11
<1>10. Climbs(a, k)
  <2>1. ASSUME NEW i \in 1 .. k PROVE a[i] \in Int
    <3>1. m[i].off \in Nat BY <1>1, <1>7, EntryTypes
    <3> QED BY <3>1
  <2>2. ASSUME NEW i \in 1 .. k, NEW j \in 1 .. k, i < j PROVE a[i] < a[j]
    <3> DEFINE e == m[i]
               f == m[j]
               q == MessagesOf(c, e.id)[e.k]
               r == MessagesOf(c, f.id)[f.k]
    <3>1. e \in E /\ f \in E /\ Precedes(e, f) BY <1>3, <1>7, <2>2
    <3>2. q \in 1 .. l /\ Is(e, q) /\ e.off = b[q] /\ r \in 1 .. l /\ Is(f, r) /\ f.off = b[r] BY <1>8, <3>1
    <3>3. e.key = e.off /\ f.key = f.off /\ e.off \in Nat /\ f.off \in Nat /\ e.k \in Int /\ f.k \in Int BY <1>1, <3>1, EntryTypes
    <3>4. e.off <= f.off BY <3>1, <3>3 DEF Precedes
    <3>5. CASE e.off = f.off
      <4>1. q = r BY <1>5, <3>2, <3>5
      <4>2. e.id = f.id BY <3>2, <4>1
      <4>3. e.topic = f.topic
        <5>1. /\ e.topic \in DOMAIN topics /\ f.topic \in DOMAIN topics
              /\ e.id = topics[e.topic].id /\ f.id = topics[f.topic].id
          BY <1>1, <3>1, EntryFacts, EntryTypes
        <5> HIDE DEF e, f
        <5> QED BY <4>2, <5>1 DEF IsTrue
      <4>4. e.k < f.k BY <3>1, <4>3 DEF Precedes
      <4> DEFINE mine == MessagesOf(c, e.id)
      <4>7. \A x, y \in DOMAIN mine : x < y => mine[x] < mine[y] BY MessagesOfFacts
      <4>8. e.k \in DOMAIN mine /\ f.k \in DOMAIN mine BY <1>8, <3>1, <4>2
      <4>9. mine[e.k] < mine[f.k] /\ mine[e.k] = q /\ mine[f.k] = r BY <4>2, <4>4, <4>7, <4>8
      <4> HIDE DEF q, r, mine
      <4> QED BY <3>2, <4>1, <4>9
    <3>6. a[i] = e.off /\ a[j] = f.off OBVIOUS
    <3> HIDE DEF e, f, a
    <3> QED BY <3>3, <3>4, <3>5, <3>6
  <2> HIDE DEF a
  <2> QED BY <2>1, <2>2 DEF Climbs
<1>11. \A i \in 1 .. k : \E q \in 1 .. l : b[q] = a[i] /\ Is(m[i], q)
  <2> TAKE i \in 1 .. k
  <2>1. m[i] \in E /\ a[i] = m[i].off BY <1>7
  <2> QED BY <1>8, <2>1
<1>12. \A q \in 1 .. l : \E i \in 1 .. k : a[i] = b[q]
  <2> TAKE q \in 1 .. l
  <2>1. PICK e \in E : e.off = b[q] BY <1>9
  <2>2. PICK i \in DOMAIN m : m[i] = e BY <1>3
  <2> QED BY <1>7, <2>1, <2>2
<1>13. k = l /\ \A i \in 1 .. l : a[i] = b[i]
  <2> HIDE DEF a, b, k, l, Is
  <2>1. \A i \in 1 .. k : \E q \in 1 .. l : b[q] = a[i] BY <1>11
  <2>5. \A i \in 1 .. k : \A q \in 1 .. l : b[q] < a[i] => \E j \in 1 .. k : a[j] = b[q] BY <1>12
  <2>6. \A q \in 1 .. l : \A i \in 1 .. k : a[i] < b[q] => \E r \in 1 .. l : b[r] = a[i] BY <2>1
  <2>7. l \in Nat /\ k \in Nat BY <1>4, <1>7
  <2>2. k <= l /\ \A i \in 1 .. k : a[i] = b[i] BY <1>6, <1>10, <2>1, <2>5, <2>7, SameStart
  <2>3. l <= k BY <1>6, <1>10, <1>12, <2>6, <2>7, SameStart
  <2>4. k = l BY <1>4, <1>7, <2>2, <2>3
  <2> QED BY <2>2, <2>4
<1>14. ASSUME NEW q \in 1 .. l PROVE Is(m[q], q) /\ EndOf(m, q, c.ulen) - m[q].off = len(q)
  <2>1. PICK r \in 1 .. l : b[r] = a[q] /\ Is(m[q], r) BY <1>11, <1>13
  <2>2. r = q BY <1>5, <1>13, <2>1
  <2>3. EndOf(m, q, c.ulen) = b[q] + len(q)
    <3>1. CASE q = l
      <4>1. ~(q < Len(m)) BY <1>4, <1>13, <3>1
      <4> QED BY <1>4, <3>1, <4>1 DEF EndOf
    <3>2. CASE q # l
      <4>1. q < Len(m) /\ q + 1 \in 1 .. l BY <1>4, <1>13, <3>2
      <4>2. EndOf(m, q, c.ulen) = m[q + 1].off BY <4>1 DEF EndOf
      <4> DEFINE r1 == q + 1
      <4>3. r1 \in 1 .. l /\ r1 \in 1 .. k BY <1>13, <4>1
      <4>4. b[q] + len(q) = c.data[r1].at BY <1>4, <3>2
      <4> HIDE DEF r1
      <4>5. m[r1].off = a[r1] /\ a[r1] = b[r1] /\ b[r1] = c.data[r1].at BY <1>13, <4>3
      <4> QED BY <4>2, <4>4, <4>5 DEF r1
    <3> QED BY <3>1, <3>2
  <2>4. m[q].off = b[q] /\ b[q] \in Nat /\ len(q) \in Nat BY <1>4, <2>1, <2>2
  <2> HIDE DEF b, len
  <2>5. EndOf(m, q, c.ulen) - m[q].off = len(q) BY <2>3, <2>4
  <2> QED BY <2>1, <2>2, <2>5
<1> DEFINE all == WithLengths(m, c.ulen)
<1>15. DOMAIN all = 1 .. l BY <1>7, <1>13 DEF WithLengths
<1>16. ASSUME NEW q \in 1 .. l
       PROVE  all[q] = [id |-> c.msgs[q].id, ts |-> c.msgs[q].ts, off |-> c.data[q].at, len |-> c.msgs[q].len]
  <2>1. all[q] = [id |-> m[q].id, ts |-> m[q].ts, off |-> m[q].off, len |-> EndOf(m, q, c.ulen) - m[q].off]
    BY <1>7, <1>13 DEF WithLengths
  <2> HIDE DEF m
  <2> QED BY <1>14, <2>1
<1> QED BY <1>4, <1>15, <1>16

(* A message's topic is the group's, its time in the range of the chunk,   *)
(* and it has an entry in the index.                                       *)
LEMMA MessageTimes ==
  ASSUME NEW c \in Chunk, NEW ids, ChunkInOrder(c, ids), IsTrue(c), NEW q \in DOMAIN c.msgs
  PROVE  /\ c.msgs[q].id \in ids /\ c.start <= c.msgs[q].ts /\ c.msgs[q].ts <= c.end
         /\ \E t \in ToSet(c.topics) : \E k \in DOMAIN MessagesOf(c, t.id) : MessagesOf(c, t.id)[k] = q
<1>1. PICK t \in ToSet(c.topics) : t.id = c.msgs[q].id BY DEF IsTrue
<1> DEFINE mine == MessagesOf(c, t.id)
<1>2. PICK k \in DOMAIN mine : mine[k] = q
  <2>1. \A r \in DOMAIN c.msgs : c.msgs[r].id = t.id => \E k \in DOMAIN mine : mine[k] = r BY MessagesOfFacts
  <2> HIDE DEF mine
  <2> QED BY <1>1, <2>1
<1>3. t.msgs = [n \in DOMAIN mine |-> [ts |-> c.msgs[mine[n]].ts, off |-> c.data[mine[n]].at]] BY DEF IsTrue
<1> HIDE DEF mine
<1>4. k \in DOMAIN t.msgs /\ t.msgs[k].ts = c.msgs[q].ts BY <1>2, <1>3
<1>5. t.id \in ids /\ c.start <= t.msgs[k].ts /\ t.msgs[k].ts <= c.end BY <1>4 DEF ChunkInOrder
<1> QED BY <1>1, <1>2, <1>4, <1>5 DEF mine

(* The messages of a chunk of one topic have its id and rise in time. *)
LEMMA TimesRise ==
  ASSUME NEW c \in Chunk, NEW ids, ChunkInOrder(c, ids), IsTrue(c), Len(c.topics) = 1
  PROVE  \A r, s \in DOMAIN c.msgs : /\ c.msgs[r].id = c.msgs[s].id
                                     /\ r <= s => c.msgs[r].ts <= c.msgs[s].ts
<1> DEFINE topics == c.topics
           t == topics[1]
           mine == MessagesOf(c, t.id)
           ts(r) == c.msgs[r].ts
<1>1. topics \in Seq(TopicIndex) /\ Len(topics) = 1 BY ChunkTypes
<1>2. t \in ToSet(topics) /\ ToSet(topics) = {t}
  <2>1. DOMAIN topics = 1 .. 1 BY <1>1
  <2> HIDE DEF topics
  <2> QED BY <1>1, <2>1 DEF ToSet
<1>3. /\ \A k \in DOMAIN mine : mine[k] \in DOMAIN c.msgs
      /\ \A k, m \in DOMAIN mine : k < m => mine[k] < mine[m]
      /\ DOMAIN mine \subseteq Nat \ {0}
  BY MessagesOfFacts
<1>4. \A r \in DOMAIN c.msgs : c.msgs[r].id = t.id
  <2>1. \A r \in DOMAIN c.msgs : \E u \in ToSet(c.topics) : u.id = c.msgs[r].id BY DEF IsTrue
  <2> HIDE DEF t
  <2> QED BY <1>2, <2>1 DEF topics
<1>5. \A r \in DOMAIN c.msgs : \E k \in DOMAIN mine : mine[k] = r BY <1>2, MessageTimes
<1>6. t.msgs = [k \in DOMAIN mine |-> [ts |-> ts(mine[k]), off |-> c.data[mine[k]].at]] BY <1>2 DEF IsTrue
<1>7. Ascending(Stamps(t.msgs)) BY <1>2 DEF ChunkInOrder
<1>8. DOMAIN c.msgs \subseteq Nat \ {0} /\ \A r \in DOMAIN c.msgs : ts(r) \in Int BY MessageTypes
<1> HIDE DEF mine, topics, t
<1>9. DOMAIN Stamps(t.msgs) = DOMAIN mine /\ \A k \in DOMAIN mine : Stamps(t.msgs)[k] = ts(mine[k])
  BY <1>6 DEF Stamps
<1>10. \A k, m \in DOMAIN mine : k <= m => ts(mine[k]) <= ts(mine[m])
  <2> HIDE DEF ts
  <2> QED BY <1>7, <1>9 DEF Ascending
<1>11. ASSUME NEW r \in DOMAIN c.msgs, NEW s \in DOMAIN c.msgs, r <= s PROVE ts(r) <= ts(s)
  <2>1. PICK k \in DOMAIN mine : mine[k] = r BY <1>5
  <2>2. PICK m \in DOMAIN mine : mine[m] = s BY <1>5
  <2>3. k \in Nat /\ m \in Nat /\ r \in Nat /\ s \in Nat BY <1>3, <1>8
  <2>4. ~(m < k) BY <1>3, <1>11, <2>1, <2>2, <2>3
  <2>5. k <= m BY <2>3, <2>4
  <2> QED BY <1>10, <2>1, <2>2, <2>5
<1> QED BY <1>4, <1>11

(* The range of a query begins with the last key frame before it. *)
LEMMA KeyFrameFacts ==
  ASSUME NEW c \in Chunk, NEW ids, ChunkInOrder(c, ids), IsTrue(c),
         Len(c.topics) = 1, c.msgs[1].key, NEW start \in Int, NEW q \in DOMAIN c.msgs
  PROVE  KeyFrameStart(c.topics, start) <= c.msgs[q].ts <=>
           \/ c.msgs[q].ts >= start
           \/ \A k \in DOMAIN c.msgs : c.msgs[k].key /\ c.msgs[k].ts <= start => c.msgs[k].ts <= c.msgs[q].ts
<1> DEFINE topics == c.topics
           t == topics[1]
           mine == MessagesOf(c, t.id)
           keys == IF topics = <<>> THEN <<>> ELSE topics[1].keys
           ts(r) == c.msgs[r].ts
           Stamp(k) == t.msgs[keys[k] + 1].ts
           before == {k \in DOMAIN keys : \A j \in 1 .. k : Stamp(j) <= start}
           n == Len(keys)
           place(k) == mine[keys[k] + 1]
<1>1. topics \in Seq(TopicIndex) /\ topics # <<>>
  <2>1. topics \in Seq(TopicIndex) /\ Len(topics) = 1 BY ChunkTypes
  <2> HIDE DEF topics
  <2>2. topics # <<>>
    <3>1. Len(topics) = 1 BY <2>1
    <3>2. Len(<<>>) = 0 OBVIOUS
    <3> QED BY <3>1, <3>2
  <2> QED BY <2>1, <2>2
<1>2. t \in ToSet(topics) /\ ToSet(topics) = {t} /\ t \in TopicIndex
  <2>1. DOMAIN topics = 1 .. 1 BY <1>1
  <2> HIDE DEF topics
  <2> QED BY <1>1, <2>1 DEF ToSet
<1>3. keys \in Seq(Nat) /\ keys = t.keys
  <2>1. keys = t.keys BY <1>1
  <2>2. t.keys \in Seq(Nat) BY <1>2 DEF TopicIndex
  <2> HIDE DEF keys, t
  <2> QED BY <2>1, <2>2
<1>4. /\ \A k \in DOMAIN mine : mine[k] \in DOMAIN c.msgs
      /\ \A k, m \in DOMAIN mine : k < m => mine[k] < mine[m]
      /\ DOMAIN mine \subseteq Nat \ {0}
  BY MessagesOfFacts
<1>5. \A r \in DOMAIN c.msgs : \E k \in DOMAIN mine : mine[k] = r BY <1>2, MessageTimes
<1>6. /\ t.msgs = [k \in DOMAIN mine |-> [ts |-> ts(mine[k]), off |-> c.data[mine[k]].at]]
      /\ Ascending(keys)
      /\ {key + 1 : key \in ToSet(keys)} = {k \in DOMAIN mine : c.msgs[mine[k]].key}
  <2>1. /\ t.msgs = [k \in DOMAIN mine |-> [ts |-> ts(mine[k]), off |-> c.data[mine[k]].at]]
        /\ Ascending(t.keys)
        /\ {key + 1 : key \in ToSet(t.keys)} = {k \in DOMAIN mine : c.msgs[mine[k]].key}
    BY <1>2 DEF IsTrue
  <2> HIDE DEF keys, t
  <2> QED BY <1>3, <2>1
<1>7. Ascending(Stamps(t.msgs)) BY <1>2 DEF ChunkInOrder
<1>8. \A r \in DOMAIN c.msgs : ts(r) \in Int BY MessageTypes
<1>9. 1 \in DOMAIN c.msgs /\ DOMAIN c.msgs \subseteq Nat \ {0} BY MessageTypes
<1>10. n \in Nat /\ DOMAIN keys = 1 .. n /\ \A k \in 1 .. n : keys[k] \in Nat BY <1>3
<1>11. KeyFrameStart(topics, start) = IF before = {} THEN start ELSE Stamp(CHOOSE k \in before : \A j \in before : j <= k)
  BY DEF KeyFrameStart
<1> HIDE DEF keys, mine, n, topics, t
<1>12. \A k \in DOMAIN mine : k \in DOMAIN t.msgs /\ t.msgs[k].ts = ts(mine[k]) BY <1>6
<1>13. \A k, m \in DOMAIN mine : k <= m => ts(mine[k]) <= ts(mine[m])
  <2>1. DOMAIN Stamps(t.msgs) = DOMAIN mine /\ \A k \in DOMAIN mine : Stamps(t.msgs)[k] = ts(mine[k])
    BY <1>6, <1>12 DEF Stamps
  <2> HIDE DEF ts
  <2> QED BY <1>7, <2>1 DEF Ascending
<1>14. ASSUME NEW r \in DOMAIN c.msgs, NEW s \in DOMAIN c.msgs, r <= s PROVE ts(r) <= ts(s)
  <2>1. c.msgs[r].ts <= c.msgs[s].ts BY <1>14, TimesRise
  <2> QED BY <2>1
<1>15. ASSUME NEW k \in 1 .. n
       PROVE  keys[k] + 1 \in DOMAIN mine /\ place(k) \in DOMAIN c.msgs /\ c.msgs[place(k)].key /\ Stamp(k) = ts(place(k))
  <2>1. keys[k] \in ToSet(keys) BY <1>10 DEF ToSet
  <2>2. keys[k] + 1 \in DOMAIN mine /\ c.msgs[mine[keys[k] + 1]].key BY <1>6, <2>1
  <2> QED BY <1>4, <1>12, <2>2
<1>16. ASSUME NEW r \in DOMAIN c.msgs, c.msgs[r].key PROVE \E k \in 1 .. n : place(k) = r
  <2>1. PICK m \in DOMAIN mine : mine[m] = r BY <1>5
  <2>2. PICK key \in ToSet(keys) : m = key + 1 BY <1>6, <1>16, <2>1
  <2>3. PICK k \in DOMAIN keys : key = keys[k] BY <2>2 DEF ToSet
  <2> QED BY <1>10, <2>1, <2>2, <2>3
<1>17. ASSUME NEW j \in 1 .. n, NEW k \in 1 .. n, j <= k PROVE Stamp(j) <= Stamp(k)
  <2>1. keys[j] <= keys[k] BY <1>6, <1>10, <1>17 DEF Ascending
  <2>2. keys[j] + 1 <= keys[k] + 1 BY <1>10, <2>1
  <2> DEFINE x == keys[j] + 1
             y == keys[k] + 1
  <2>3. x \in DOMAIN mine /\ y \in DOMAIN mine /\ x <= y /\ Stamp(j) = ts(mine[x]) /\ Stamp(k) = ts(mine[y])
    BY <1>15, <2>2
  <2> HIDE DEF x, y, Stamp, ts
  <2> QED BY <1>13, <2>3
<1> DEFINE Key1(r) == c.msgs[r].key /\ ts(r) <= start
           from == KeyFrameStart(topics, start)
<1>18. CASE before = {}
  <2>1. from = start BY <1>11, <1>18
  <2>2. PICK k \in 1 .. n : place(k) = 1 BY <1>9, <1>16
  <2>3. 1 \in 1 .. n BY <1>10, <2>2
  <2>4. Stamp(1) > start
    <3>1. 1 \notin before BY <1>18
    <3>2. ~(Stamp(1) <= start)
      <4>1. \A j \in 1 .. 1 : j = 1 OBVIOUS
      <4> HIDE DEF Stamp
      <4> QED BY <1>10, <2>3, <3>1, <4>1
    <3>3. Stamp(1) \in Int BY <1>8, <1>15, <2>3
    <3> HIDE DEF Stamp
    <3> QED BY <3>2, <3>3
  <2>5. Stamp(1) <= Stamp(k) BY <1>10, <1>17, <2>2, <2>3
  <2>6. Stamp(k) = ts(1) /\ Stamp(1) \in Int BY <1>8, <1>15, <2>2, <2>3
  <2>7. ts(1) <= ts(q) /\ ts(q) \in Int /\ ts(1) \in Int BY <1>8, <1>9, <1>14
  <2> HIDE DEF Stamp, ts, from
  <2>8. ts(q) >= start BY <2>4, <2>5, <2>6, <2>7
  <2> QED BY <2>1, <2>8 DEF ts, from, topics
<1>19. CASE before # {}
  <2> DEFINE k == CHOOSE k \in before : \A j \in before : j <= k
  <2>1. k \in before /\ \A j \in before : j <= k
    <3>1. before \subseteq Int /\ (\A j \in before : j <= n) /\ n \in Int BY <1>10
    <3>2. \E m \in before : \A j \in before : j <= m
      <4> HIDE DEF before
      <4> QED BY <1>19, <3>1, GreatestExists
    <3> HIDE DEF before
    <3> QED BY <3>2
  <2>2. from = Stamp(k) BY <1>11, <1>19
  <2>3. k \in 1 .. n /\ Stamp(k) <= start
    <3>1. k \in 1 .. n BY <1>10, <2>1
    <3>2. k \in 1 .. k BY <3>1
    <3> HIDE DEF Stamp, k
    <3> QED BY <2>1, <3>1, <3>2
  <2> HIDE DEF k
  <2>4. ASSUME NEW r \in DOMAIN c.msgs, Key1(r) PROVE ts(r) <= from
    <3>1. PICK m \in 1 .. n : place(m) = r BY <1>16, <2>4
    <3>2. Stamp(m) = ts(r) BY <1>15, <3>1
    <3>3. m \in before
      <4> SUFFICES ASSUME NEW j \in 1 .. m PROVE Stamp(j) <= start BY <1>10
      <4>1. j \in 1 .. n /\ j <= m BY <1>10
      <4>2. Stamp(j) <= Stamp(m) BY <1>17, <4>1
      <4>3. Stamp(j) \in Int /\ Stamp(m) \in Int BY <1>8, <1>15, <4>1
      <4> HIDE DEF Stamp
      <4> QED BY <2>4, <3>2, <4>2, <4>3
    <3>4. m <= k BY <2>1, <3>3
    <3>5. Stamp(m) <= Stamp(k) BY <1>17, <2>3, <3>4
    <3> QED BY <2>2, <3>2, <3>5
  <2>5. place(k) \in DOMAIN c.msgs /\ c.msgs[place(k)].key /\ Stamp(k) = ts(place(k)) BY <1>15, <2>3
  <2>6. Key1(place(k)) BY <2>3, <2>5
  <2>7. from \in Int /\ from <= start /\ ts(q) \in Int BY <1>8, <2>2, <2>3, <2>5
  <2>8. ASSUME from <= ts(q) PROVE \A r \in DOMAIN c.msgs : Key1(r) => ts(r) <= ts(q)
    <3> TAKE r \in DOMAIN c.msgs
    <3>1. Key1(r) => ts(r) <= from BY <2>4
    <3>2. ts(r) \in Int BY <1>8
    <3> HIDE DEF from, ts
    <3> QED BY <2>7, <2>8, <3>1, <3>2
  <2>9. ASSUME ts(q) >= start PROVE from <= ts(q)
    <3> HIDE DEF from, ts
    <3> QED BY <2>7, <2>9
  <2>10. ASSUME \A r \in DOMAIN c.msgs : Key1(r) => ts(r) <= ts(q) PROVE from <= ts(q)
    <3>1. ts(place(k)) <= ts(q) BY <2>5, <2>6, <2>10
    <3> QED BY <2>2, <2>5, <3>1
  <2> QED BY <2>8, <2>9, <2>10 DEF topics
<1> QED BY <1>18, <1>19

(* What index chunks tell is true. *)
LEMMA TruthFacts ==
  ASSUME file \in Files
  PROVE  /\ \A g \in DOMAIN file : \A i \in DOMAIN file[g].chunks :
              /\ IsTrue(file[g].chunks[i])
              /\ file[g].video => file[g].chunks[i].msgs[1].key /\ Len(file[g].chunks[i].topics) = 1
         /\ \A g \in DOMAIN file : \A i, j \in DOMAIN file[g].chunks :
              \A q \in DOMAIN file[g].chunks[i].msgs, r \in DOMAIN file[g].chunks[j].msgs :
                i < j \/ (i = j /\ q < r) => file[g].chunks[i].msgs[q].n < file[g].chunks[j].msgs[r].n
         /\ \A g \in DOMAIN file : file[g].video => \A i, j \in file[g].ids : i = j
         /\ \A g, h \in DOMAIN file : g # h => file[g].ids \cap file[h].ids = {}
<1>1. Truthful(file) BY IteratorAssumption
<1> QED BY <1>1 DEF Truthful

(* What the code keeps of a chunk: the range, from the latest key frame of *)
(* the chunk at or before its start on; and by the messages' places.       *)
Reached(g, c, m) ==
  /\ m.id \in query.ids /\ m.ts <= query.end
  /\ \/ m.ts >= query.start
     \/ /\ query.videoDecodable /\ file[g].video /\ c.end >= query.start
        /\ \A k \in DOMAIN c.msgs : c.msgs[k].key /\ c.msgs[k].ts <= query.start => c.msgs[k].ts <= m.ts
AskedAt(g, i) == {q \in DOMAIN file[g].chunks[i].msgs : Reached(g, file[g].chunks[i], file[g].chunks[i].msgs[q])}

(* The parts of a query. *)
LEMMA QueryTypes ==
  ASSUME query \in Queries
  PROVE  /\ query.start \in Int /\ query.end \in Int /\ query.reverse \in BOOLEAN
         /\ query.videoDecodable \in BOOLEAN /\ query.costAware \in BOOLEAN
BY IteratorAssumption

(* What is kept of a chunk in the range are the messages asked for. *)
LEMMA KeptAsked ==
  ASSUME file \in Files, query \in Queries, NoEmptyMessages,
         NEW g \in DOMAIN file, NEW i \in DOMAIN file[g].chunks, query.start <= file[g].chunks[i].end
  PROVE  LET c == file[g].chunks[i]
             place == Arranged(AskedAt(g, i))
         IN  /\ DOMAIN Kept(g, i) = DOMAIN place
             /\ \A m \in DOMAIN place :
                  Kept(g, i)[m] = [id |-> c.msgs[place[m]].id, ts |-> c.msgs[place[m]].ts,
                                   off |-> c.data[place[m]].at, len |-> c.msgs[place[m]].len]
<1> DEFINE c == file[g].chunks[i]
           all == WithLengths(Merged(c.topics), c.ulen)
           v == query.videoDecodable /\ file[g].video
           from == IF v THEN KeyFrameStart(c.topics, query.start) ELSE query.start
           S == {k \in DOMAIN all : all[k].id \in query.ids /\ from <= all[k].ts /\ all[k].ts <= query.end}
           A == AskedAt(g, i)
<1>1. c \in Chunk /\ ChunkInOrder(c, file[g].ids) /\ IsTrue(c) BY FileFacts, TruthFacts
<1>2. \A m \in ToSet(c.msgs) : m.len > 0
  <2>1. c \in ToSet(file[g].chunks) BY DEF ToSet
  <2> HIDE DEF c
  <2> QED BY <2>1 DEF NoEmptyMessages
<1>3. Kept(g, i) = Picked(all, S) BY DEF Kept, SortAndFilter
<1>4. A = {q \in DOMAIN c.msgs : Reached(g, c, c.msgs[q])} BY DEF AskedAt
<1>5. query.start \in Int /\ query.end \in Int /\ query.start <= c.end /\ c.end \in Int BY <1>1, ChunkTypes, QueryTypes
<1>6. v => c.msgs[1].key /\ Len(c.topics) = 1 BY TruthFacts
<1> HIDE DEF c, A
<1>7. /\ DOMAIN all = DOMAIN c.msgs
      /\ \A q \in DOMAIN c.msgs : all[q] = [id |-> c.msgs[q].id, ts |-> c.msgs[q].ts,
                                            off |-> c.data[q].at, len |-> c.msgs[q].len]
  BY <1>1, <1>2, MergedIsWritten
<1>8. ASSUME NEW q \in DOMAIN c.msgs
      PROVE  (all[q].id \in query.ids /\ from <= all[q].ts /\ all[q].ts <= query.end) <=> Reached(g, c, c.msgs[q])
  <2> HIDE DEF all, from, S, v
  <2>0. all[q] = [id |-> c.msgs[q].id, ts |-> c.msgs[q].ts, off |-> c.data[q].at, len |-> c.msgs[q].len] BY <1>7
  <2>1. all[q].id = c.msgs[q].id /\ all[q].ts = c.msgs[q].ts BY <2>0
  <2> USE DEF all, from, S, v
  <2>2. c.msgs[q].ts \in Int BY <1>1, MessageTypes
  <2>3. from <= c.msgs[q].ts <=>
          \/ c.msgs[q].ts >= query.start
          \/ v /\ \A k \in DOMAIN c.msgs : c.msgs[k].key /\ c.msgs[k].ts <= query.start => c.msgs[k].ts <= c.msgs[q].ts
    <3>1. CASE v
      <4>1. KeyFrameStart(c.topics, query.start) <= c.msgs[q].ts <=>
              \/ c.msgs[q].ts >= query.start
              \/ \A k \in DOMAIN c.msgs : c.msgs[k].key /\ c.msgs[k].ts <= query.start => c.msgs[k].ts <= c.msgs[q].ts
        BY <1>1, <1>5, <1>6, <3>1, KeyFrameFacts
      <4> QED BY <3>1, <4>1
    <3>2. CASE ~v
      <4>1. from = query.start BY <3>2
      <4> HIDE DEF from
      <4> QED BY <1>5, <2>2, <3>2, <4>1
    <3> QED BY <3>1, <3>2
  <2> HIDE DEF all, from
  <2> QED BY <1>5, <2>1, <2>3 DEF Reached
<1>9. S = A
  <2> HIDE DEF all, from
  <2> QED BY <1>4, <1>7, <1>8
<1>10. /\ DOMAIN Picked(all, A) = DOMAIN Arranged(A)
       /\ \A m \in DOMAIN Arranged(A) : Arranged(A)[m] \in A /\ Picked(all, A)[m] = all[Arranged(A)[m]]
  <2>1. FromChunk(all, c, file[g].ids) BY <1>1, AllFromChunk
  <2>2. all \in Seq(KeptMessage) BY <2>1 DEF FromChunk
  <2>3. A \subseteq DOMAIN all BY <1>4, <1>7
  <2> HIDE DEF all
  <2> QED BY <2>2, <2>3, PickedFacts
<1>11. \A q \in A : q \in DOMAIN c.msgs BY <1>4
<1> HIDE DEF all, S
<1>12. Kept(g, i) = Picked(all, A) BY <1>3, <1>9
<1> DEFINE place == Arranged(A)
           k == Kept(g, i)
<1>13. DOMAIN k = DOMAIN place BY <1>10, <1>12
<1>14. ASSUME NEW m \in DOMAIN place
       PROVE  k[m] = [id |-> c.msgs[place[m]].id, ts |-> c.msgs[place[m]].ts,
                      off |-> c.data[place[m]].at, len |-> c.msgs[place[m]].len]
  <2>1. place[m] \in DOMAIN c.msgs /\ k[m] = all[place[m]] BY <1>10, <1>11, <1>12
  <2> QED BY <1>7, <2>1
<1> QED BY <1>13, <1>14 DEF A, c

(* Chunks and groups that are passed by have no message asked for. *)
LEMMA ArrangedSet ==
  ASSUME file \in Files, NEW g \in DOMAIN file, NEW S, S \subseteq DOMAIN file[g].chunks
  PROVE  ToSet(Arranged(S)) = S
<1> DEFINE l == Len(file[g].chunks)
<1>1. S \in SUBSET (1 .. l) /\ l \in Int /\ 1 \in Int
  <2>1. file[g].chunks \in Seq(Chunk) BY FileFacts
  <2> QED BY <2>1
<1> HIDE DEF l
<1>2. IsFiniteSet(1 .. l) BY <1>1, FS_Interval
<1>21. IsFiniteSet(S) BY <1>1, <1>2, FS_Subset
<1>3. IsFiniteSet(S) /\ S \subseteq Int BY <1>1, <1>21
<1>4. Arranged(S) \in Seq(S) /\ \A x \in S : \E n \in DOMAIN Arranged(S) : Arranged(S)[n] = x BY <1>3, ArrangedFacts
<1> QED BY <1>4 DEF ToSet

(* The chunks of a group that overlap the range, and those with messages. *)
LEMMA ChunksSet ==
  ASSUME file \in Files, NEW g \in DOMAIN file
  PROVE  /\ ToSet(Chunks(g)) = {i \in DOMAIN file[g].chunks :
                                  /\ query.start <= file[g].chunks[i].end
                                  /\ \A j \in 1 .. i : query.start <= file[g].chunks[j].end => file[g].chunks[j].start <= query.end}
         /\ ToSet(KeptChunks(g)) = {i \in ToSet(Chunks(g)) : Kept(g, i) # <<>>}
<1> DEFINE S == {i \in DOMAIN file[g].chunks :
                   /\ query.start <= file[g].chunks[i].end
                   /\ \A j \in 1 .. i : query.start <= file[g].chunks[j].end => file[g].chunks[j].start <= query.end}
           K == {i \in ToSet(Chunks(g)) : Kept(g, i) # <<>>}
<1>1. Chunks(g) = Arranged(S) /\ S \subseteq DOMAIN file[g].chunks BY DEF Chunks
<1> HIDE DEF S
<1>2. ToSet(Chunks(g)) = S BY <1>1, ArrangedSet
<1>3. KeptChunks(g) = Arranged(K) /\ K \subseteq DOMAIN file[g].chunks BY <1>1, <1>2 DEF KeptChunks
<1> HIDE DEF K
<1>4. ToSet(KeptChunks(g)) = K BY <1>3, ArrangedSet
<1> QED BY <1>2, <1>4 DEF S, K

(* A chunk or group that is passed over has no message that is asked for. *)
LEMMA PassedBy ==
  ASSUME file \in Files, query \in Queries, NoEmptyMessages, NEW g \in DOMAIN file, NEW i \in DOMAIN file[g].chunks
  PROVE  /\ i \notin ToSet(Listed(g)) => AskedAt(g, i) = {}
         /\ file[g].ids \cap query.ids = {} => AskedAt(g, i) = {}
         /\ i \in ToSet(Listed(g)) => query.start <= file[g].chunks[i].end
<1> DEFINE c(j) == file[g].chunks[j]
           D == DOMAIN file[g].chunks
<1>1. \A j \in D : /\ c(j) \in Chunk /\ ChunkInOrder(c(j), file[g].ids) /\ IsTrue(c(j))
                   /\ c(j).start \in Int /\ c(j).end \in Int
  BY FileFacts, TruthFacts, ChunkTypes
<1>2. \A j, k \in D : j < k => c(j).end <= c(k).start BY FileFacts
<1>3. query.start \in Int /\ query.end \in Int BY QueryTypes
<1>4. D \subseteq Nat /\ 1 .. i \subseteq D
  <2>1. file[g].chunks \in Seq(Chunk) BY FileFacts
  <2>2. D = 1 .. Len(file[g].chunks) /\ Len(file[g].chunks) \in Nat BY <2>1
  <2> HIDE DEF D
  <2> QED BY <2>2
<1> HIDE DEF D
<1>5. \A j \in D : \A q \in DOMAIN c(j).msgs :
        /\ c(j).msgs[q].ts \in Int /\ c(j).start <= c(j).msgs[q].ts /\ c(j).msgs[q].ts <= c(j).end
        /\ c(j).msgs[q].id \in file[g].ids
  <2> TAKE j \in D
  <2> DEFINE d == c(j)
  <2>1. d \in Chunk /\ ChunkInOrder(d, file[g].ids) /\ IsTrue(d) BY <1>1
  <2> HIDE DEF d
  <2>2. \A q \in DOMAIN d.msgs : d.msgs[q].ts \in Int /\ d.start <= d.msgs[q].ts /\ d.msgs[q].ts <= d.end /\ d.msgs[q].id \in file[g].ids
    BY <2>1, MessageTypes, MessageTimes
  <2> QED BY <2>2 DEF d
<1>6. \A j \in D : c(j).start <= c(j).end
  <2> TAKE j \in D
  <2>1. 1 \in DOMAIN c(j).msgs
    <3> DEFINE d == c(j)
    <3>1. d \in Chunk /\ IsTrue(d) BY <1>1
    <3> HIDE DEF d
    <3>2. 1 \in DOMAIN d.msgs BY <3>1, MessageTypes
    <3> QED BY <3>2 DEF d
  <2>2. c(j).start <= c(j).msgs[1].ts /\ c(j).msgs[1].ts <= c(j).end /\ c(j).msgs[1].ts \in Int BY <1>5, <2>1
  <2> HIDE DEF c
  <2> QED BY <1>1, <2>2
<1>7. i \in D BY DEF D
<1> DEFINE t(q) == c(i).msgs[q].ts
<1>8. ASSUME NEW q \in AskedAt(g, i)
      PROVE  /\ q \in DOMAIN c(i).msgs /\ c(i).msgs[q].id \in query.ids /\ t(q) <= query.end
             /\ t(q) >= query.start \/ c(i).end >= query.start
  BY DEF AskedAt, Reached
<1>9. ASSUME i \notin ToSet(Chunks(g)), NEW q \in AskedAt(g, i) PROVE FALSE
  <2>1. /\ t(q) \in Int /\ c(i).start <= t(q) /\ t(q) <= c(i).end /\ c(i).start \in Int /\ c(i).end \in Int
        /\ t(q) <= query.end /\ (t(q) >= query.start \/ c(i).end >= query.start)
    BY <1>1, <1>5, <1>7, <1>8
  <2>2. PICK j \in 1 .. i : query.start <= c(j).end /\ ~(c(j).start <= query.end)
    <3>1. query.start <= c(i).end
      <4> HIDE DEF t, c
      <4> QED BY <1>3, <2>1
    <3>2. ~(\A j \in 1 .. i : query.start <= c(j).end => c(j).start <= query.end)
      BY <1>7, <1>9, <3>1, ChunksSet DEF D
    <3> QED BY <3>2
  <2>3. j \in D /\ j \in Nat /\ i \in Nat BY <1>4, <1>7
  <2>4. c(j).start \in Int /\ c(j).end \in Int /\ c(j).start <= c(j).end BY <1>1, <1>6, <2>3
  <2>5. c(j).start <= c(i).start
    <3>1. CASE j = i BY <2>4, <3>1
    <3>2. CASE j # i
      <4>1. j < i BY <2>3, <3>2
      <4>2. c(j).end <= c(i).start BY <1>2, <1>7, <2>3, <4>1
      <4> HIDE DEF c
      <4> QED BY <2>1, <2>4, <4>2
    <3> QED BY <3>1, <3>2
  <2> HIDE DEF c, t
  <2> QED BY <1>3, <2>1, <2>2, <2>4, <2>5
<1>10. ASSUME i \in ToSet(Chunks(g)), Kept(g, i) = <<>> PROVE AskedAt(g, i) = {}
  <2>1. query.start <= file[g].chunks[i].end BY <1>10, ChunksSet
  <2>2. DOMAIN Arranged(AskedAt(g, i)) = {} BY <1>10, <2>1, KeptAsked
  <2> DEFINE l == Len(c(i).msgs)
  <2>3. AskedAt(g, i) \in SUBSET (1 .. l) /\ l \in Int /\ 1 \in Int
    <3> DEFINE d == c(i)
    <3>1. d \in Chunk /\ IsTrue(d) BY <1>1, <1>7
    <3> HIDE DEF d
    <3>2. DOMAIN d.msgs = 1 .. Len(d.msgs) /\ Len(d.msgs) \in Int BY <3>1, MessageTypes
    <3> QED BY <3>2 DEF d, AskedAt
  <2> HIDE DEF l
  <2>4. IsFiniteSet(1 .. l) BY <2>3, FS_Interval
  <2>5. IsFiniteSet(AskedAt(g, i)) /\ AskedAt(g, i) \subseteq Int BY <2>3, <2>4, FS_Subset
  <2>6. \A x \in AskedAt(g, i) : \E n \in DOMAIN Arranged(AskedAt(g, i)) : Arranged(AskedAt(g, i))[n] = x
    BY <2>5, ArrangedFacts
  <2> QED BY <2>2, <2>6
<1>11. i \notin ToSet(Listed(g)) => AskedAt(g, i) = {}
  <2> SUFFICES ASSUME i \notin ToSet(Listed(g)) PROVE AskedAt(g, i) = {} OBVIOUS
  <2>1. CASE i \notin ToSet(Chunks(g)) BY <1>9, <2>1
  <2>2. CASE i \in ToSet(Chunks(g))
    <3>1. Kept(g, i) = <<>> BY <2>2, ChunksSet DEF Listed
    <3> QED BY <1>10, <2>2, <3>1
  <2> QED BY <2>1, <2>2
<1>12. file[g].ids \cap query.ids = {} => AskedAt(g, i) = {} BY <1>5, <1>7, <1>8
<1>13. i \in ToSet(Listed(g)) => query.start <= file[g].chunks[i].end BY ChunksSet DEF Listed
<1> QED BY <1>11, <1>12, <1>13

(* Bytes outside of a chunk are no message's. *)
LEMMA NoBytes ==
  ASSUME NEW c \in Chunk, IsTrue(c), NEW off \in Int, NEW len \in Nat, off + len <= 0 \/ off >= c.ulen
  PROVE  Bytes(c.data, off, len) = {}
<1> DEFINE d == c.data
           Part(p) == {<<p.n, x - p.at>> : x \in (p.at .. p.at + p.len - 1) \cap (off .. off + len - 1)}
<1>1. DOMAIN d = DOMAIN c.msgs /\ c.ulen \in Nat BY MessageTypes, ChunkTypes
<1>2. ASSUME NEW p \in ToSet(d) PROVE Part(p) = {}
  <2>1. PICK q \in DOMAIN d : p = d[q] BY DEF ToSet
  <2>2. /\ c.data[q].at \in Nat /\ c.msgs[q].len \in Nat /\ c.data[q].len = c.msgs[q].len
        /\ c.data[q].at + c.msgs[q].len <= c.ulen
    BY <1>1, MessageTypes, BytesFollow
  <2>3. p.at \in Nat /\ p.len \in Nat /\ p.at + p.len <= c.ulen BY <2>1, <2>2
  <2>4. (p.at .. p.at + p.len - 1) \cap (off .. off + len - 1) = {} BY <1>1, <2>3
  <2> QED BY <2>4
<1>3. Bytes(d, off, len) = UNION {Part(p) : p \in ToSet(d)} BY DEF Bytes
<1> HIDE DEF Part, d
<1>4. UNION {Part(p) : p \in ToSet(d)} = {} BY <1>2
<1> QED BY <1>3, <1>4 DEF d

(* The bytes of a message are read back from its place in the file. *)
LEMMA FileBytesFacts ==
  ASSUME file \in Files, NEW g \in DOMAIN file, ~file[g].compressed, NEW i \in DOMAIN file[g].chunks,
         NEW q \in DOMAIN file[g].chunks[i].msgs
  PROVE  LET c == file[g].chunks[i] IN
         FileBytes([offset |-> c.off + c.data[q].at, length |-> c.msgs[q].len]) = Own(c.msgs[q].n, c.msgs[q].len)
<1> DEFINE c == file[g].chunks[i]
           at == c.data[q].at
           len == c.msgs[q].len
           off == c.off + at
           own == Own(c.msgs[q].n, len)
           D == {h \in DOMAIN file : ~file[h].compressed}
           In(e) == Bytes(e.data, off - e.off, len)
           Part(h) == UNION {In(e) : e \in ToSet(file[h].chunks)}
<1>1. \A h \in DOMAIN file : \A j \in DOMAIN file[h].chunks :
        /\ file[h].chunks[j] \in Chunk /\ IsTrue(file[h].chunks[j])
        /\ file[h].chunks[j].off \in Nat /\ file[h].chunks[j].len \in Nat /\ file[h].chunks[j].ulen \in Nat
        /\ ~file[h].compressed => file[h].chunks[j].len = file[h].chunks[j].ulen
  BY FileFacts, TruthFacts, ChunkTypes
<1>2. c \in Chunk /\ IsTrue(c) /\ c.off \in Nat /\ c.len = c.ulen /\ c.ulen \in Nat BY <1>1
<1>3. at \in Nat /\ len \in Nat /\ at + len <= c.ulen
  <2> HIDE DEF c
  <2>1. q \in DOMAIN c.msgs BY DEF c
  <2> QED BY <1>2, <2>1, MessageTypes, BytesFollow
<1>4. Bytes(c.data, at, len) = own
  <2> HIDE DEF c
  <2>1. q \in DOMAIN c.msgs BY DEF c
  <2> QED BY <1>2, <2>1, OwnBytes
<1>5. off \in Nat /\ off - c.off = at BY <1>2, <1>3
<1>6. ASSUME NEW h \in D, NEW e \in ToSet(file[h].chunks) PROVE In(e) \in {own, {}}
  <2>1. PICK j \in DOMAIN file[h].chunks : e = file[h].chunks[j] BY DEF ToSet
  <2>2. e \in Chunk /\ IsTrue(e) /\ e.off \in Nat /\ e.len = e.ulen /\ e.ulen \in Nat BY <1>1, <2>1
  <2>3. CASE h = g /\ j = i
    <3>1. e = c BY <2>1, <2>3
    <3> HIDE DEF c, own, at, off
    <3>2. In(e) = own BY <1>4, <1>5, <3>1
    <3> QED BY <3>2
  <2>4. CASE ~(h = g /\ j = i)
    <3>1. c.off + c.len <= e.off \/ e.off + e.len <= c.off
      <4>1. CASE h = g
        <5>1. i \in Nat /\ j \in Nat
          <6>1. file[g].chunks \in Seq(Chunk) BY FileFacts
          <6>2. DOMAIN file[g].chunks \subseteq Nat BY <6>1
          <6> QED BY <2>1, <4>1, <6>2
        <5>2. i < j \/ j < i BY <2>4, <4>1, <5>1
        <5> QED BY <2>1, <4>1, <5>2, FileFacts
      <4>2. CASE h # g
        <5>1. h \in Nat /\ g \in Nat /\ h \in DOMAIN file BY FileFacts
        <5>2. h < g \/ g < h BY <4>2, <5>1
        <5>3. c \in ToSet(file[g].chunks) BY DEF ToSet
        <5> HIDE DEF c
        <5> QED BY <5>1, <5>2, <5>3, FileFacts
      <4> QED BY <4>1, <4>2
    <3> DEFINE o == off - e.off
    <3> HIDE DEF at, len, c
    <3>2. o \in Int /\ (o + len <= 0 \/ o >= e.ulen) BY <1>2, <1>3, <2>2, <3>1
    <3> HIDE DEF off, o
    <3>3. Bytes(e.data, o, len) = {} BY <1>3, <2>2, <3>2, NoBytes
    <3> QED BY <3>3 DEF o
  <2> QED BY <2>3, <2>4
<1>7. In(c) = own
  <2> HIDE DEF c, own, at, off
  <2> QED BY <1>4, <1>5
<1>8. FileBytes([offset |-> off, length |-> len]) = UNION {Part(h) : h \in D}
  <2> DEFINE r == [offset |-> off, length |-> len]
  <2>1. r.offset = off /\ r.length = len OBVIOUS
  <2> HIDE DEF r, off, len
  <2>2. FileBytes(r) = UNION {UNION {Bytes(e.data, r.offset - e.off, r.length) : e \in ToSet(file[h].chunks)}
           : h \in {h \in DOMAIN file : ~file[h].compressed}}
    BY DEF FileBytes
  <2> QED BY <2>1, <2>2 DEF r
<1>9. g \in D /\ c \in ToSet(file[g].chunks) BY DEF ToSet
<1> HIDE DEF c, own, In, D
<1>10. \A h \in D : Part(h) \in {own, {}} BY <1>6
<1>11. Part(g) = own BY <1>6, <1>7, <1>9
<1> HIDE DEF Part
<1>12. UNION {Part(h) : h \in D} = own BY <1>9, <1>10, <1>11
<1> QED BY <1>8, <1>12 DEF own, c

(* What was registered last at the offset of a message is the message. *)
LEMMA LoadedFacts ==
  ASSUME file \in Files, ranges = DataRanges, NEW g \in ToSet(Scoped), ~file[g].compressed,
         NEW i \in ToSet(KeptChunks(g)), NEW m \in DOMAIN Kept(g, i), Kept(g, i)[m].len > 0,
         Kept(g, i)[m].len \in Nat, Kept(g, i)[m].off \in Nat, file[g].chunks[i].off \in Nat
  PROVE  Loaded(file[g].chunks[i].off + Kept(g, i)[m].off) =
           [offset |-> file[g].chunks[i].off + Kept(g, i)[m].off, length |-> Kept(g, i)[m].len]
<1> DEFINE off == file[g].chunks[i].off + Kept(g, i)[m].off
           r == [offset |-> off, length |-> Kept(g, i)[m].len]
           at == {k \in DOMAIN ranges : ranges[k].offset = off}
<1>1. Apart(ranges, TRUE) BY DataRangesFacts
<1>2. m \in DOMAIN MessageRanges(g, i) /\ MessageRanges(g, i)[m] = r BY DEF MessageRanges
<1>3. PICK k \in DOMAIN ranges : ranges[k] = r BY <1>2, DataRangesFacts
<1>4. r.offset = off /\ Until(r, TRUE) = off + Kept(g, i)[m].len BY DEF Until
<1>5. off \in Nat OBVIOUS
<1>6. DOMAIN ranges \subseteq Int BY <1>1 DEF Apart
<1> DEFINE len == Kept(g, i)[m].len
<1>13. len > 0 /\ len \in Nat /\ Until(r, TRUE) = off + len BY <1>4
<1> HIDE DEF r, off, len
<1>7. ASSUME NEW j \in at PROVE j <= k
  <2> SUFFICES ASSUME k < j PROVE FALSE BY <1>3, <1>6
  <2>1. Until(r, TRUE) <= off BY <1>1, <1>3 DEF Apart
  <2>2. \A a, b \in Nat : b > 0 => ~(a + b <= a) OBVIOUS
  <2>3. ~(off + len <= off) BY <1>5, <1>13, <2>2
  <2> QED BY <1>13, <2>1, <2>3
<1>8. k \in at BY <1>3, <1>4
<1> DEFINE last == CHOOSE l \in at : \A j \in at : j <= l
<1>9. Loaded(off) = ranges[last] BY DEF Loaded
<1>10. at \subseteq Int BY <1>6
<1> HIDE DEF at
<1>11. last \in at /\ \A j \in at : j <= last BY <1>7, <1>8
<1>12. last = k
  <2> HIDE DEF last
  <2>1. last <= k /\ k <= last /\ last \in Int /\ k \in Int BY <1>7, <1>8, <1>10, <1>11
  <2> QED BY <2>1
<1> QED BY <1>3, <1>9, <1>12 DEF r, off

(* The messages a group has to give: the m-th that is kept of chunk i. *)
Message(g, i, m) == file[g].chunks[i].msgs[Arranged(AskedAt(g, i))[m]]

(* The places of the messages asked for, in their order. *)
LEMMA AskedPlaces ==
  ASSUME file \in Files, NEW g \in DOMAIN file, NEW i \in DOMAIN file[g].chunks
  PROVE  LET place == Arranged(AskedAt(g, i)) IN
         /\ place \in Seq(AskedAt(g, i)) /\ AskedAt(g, i) \subseteq DOMAIN file[g].chunks[i].msgs
         /\ \A m, n \in DOMAIN place : m < n => place[m] < place[n]
         /\ \A q \in AskedAt(g, i) : \E m \in DOMAIN place : place[m] = q
<1> DEFINE c == file[g].chunks[i]
           S == AskedAt(g, i)
           l == Len(c.msgs)
<1>1. S \in SUBSET (1 .. l) /\ l \in Int /\ 1 \in Int /\ S \subseteq DOMAIN c.msgs
  <2>1. c \in Chunk /\ IsTrue(c) BY FileFacts, TruthFacts
  <2>2. S \subseteq DOMAIN c.msgs BY DEF AskedAt
  <2> HIDE DEF c, S
  <2>3. DOMAIN c.msgs = 1 .. Len(c.msgs) /\ Len(c.msgs) \in Int BY <2>1, MessageTypes
  <2> QED BY <2>2, <2>3
<1> HIDE DEF c, S, l
<1>2. IsFiniteSet(1 .. l) BY <1>1, FS_Interval
<1>3. IsFiniteSet(S) BY <1>1, <1>2, FS_Subset
<1>4. S \subseteq Int BY <1>1
<1>5. /\ Arranged(S) \in Seq(S)
      /\ \A m, n \in DOMAIN Arranged(S) : m < n => Arranged(S)[m] < Arranged(S)[n]
      /\ \A q \in S : \E m \in DOMAIN Arranged(S) : Arranged(S)[m] = q
  BY <1>3, <1>4, ArrangedFacts
<1> QED BY <1>1, <1>5 DEF S, c

(* A kept message is one that is asked for, with its own bytes, wherever   *)
(* they are read from.                                                     *)
LEMMA KeptIsOwn ==
  ASSUME file \in Files, query \in Queries, NoEmptyMessages, NEW g \in DOMAIN file,
         NEW i \in ToSet(Listed(g)), NEW m \in DOMAIN Kept(g, i)
  PROVE  LET c == file[g].chunks[i]
             k == Kept(g, i)[m]
             x == Message(g, i, m)
         IN  /\ k.id = x.id /\ k.ts = x.ts /\ k.len = x.len /\ k.off + k.len <= c.ulen
             /\ x.len \in Nat \ {0} /\ x.n \in Nat /\ k.off \in Nat /\ x.id \in file[g].ids
             /\ Bytes(c.data, k.off, k.len) = Own(x.n, x.len)
             /\ query.costAware /\ ~file[g].compressed /\ g \in ToSet(Scoped) /\ ranges = DataRanges =>
                  FileBytes(Loaded(c.off + k.off)) = Own(x.n, x.len)
<1> DEFINE c == file[g].chunks[i]
           k == Kept(g, i)[m]
           q == Arranged(AskedAt(g, i))[m]
<1>1. i \in DOMAIN file[g].chunks
  <2>1. Places(Chunks(g), g) /\ Places(KeptChunks(g), g) BY ChunksFacts
  <2> QED BY <2>1 DEF Listed, Places, ToSet
<1>2. c \in Chunk /\ IsTrue(c) /\ ChunkInOrder(c, file[g].ids) /\ c.off \in Nat /\ c.ulen \in Nat
  BY <1>1, FileFacts, TruthFacts, ChunkTypes
<1>3. query.start <= c.end BY <1>1, PassedBy
<1>4. /\ m \in DOMAIN Arranged(AskedAt(g, i))
      /\ k = [id |-> c.msgs[q].id, ts |-> c.msgs[q].ts, off |-> c.data[q].at, len |-> c.msgs[q].len]
  BY <1>1, <1>3, KeptAsked
<1>5. q \in DOMAIN c.msgs BY <1>1, <1>4, AskedPlaces
<1>6. c.msgs[q].len > 0
  <2>1. c \in ToSet(file[g].chunks) BY <1>1 DEF ToSet
  <2> HIDE DEF c, q
  <2>2. c.msgs[q] \in ToSet(c.msgs) BY <1>5 DEF ToSet
  <2> QED BY <2>1, <2>2 DEF NoEmptyMessages
<1>7. ~file[g].compressed =>
        FileBytes([offset |-> c.off + c.data[q].at, length |-> c.msgs[q].len]) = Own(c.msgs[q].n, c.msgs[q].len)
  BY <1>1, <1>5, FileBytesFacts
<1> DEFINE x == Message(g, i, m)
<1>8. x = c.msgs[q] BY DEF Message
<1> HIDE DEF q
<1>9. k.id = x.id /\ k.ts = x.ts /\ k.len = x.len /\ k.off = c.data[q].at
  <2> HIDE DEF c, k, x
  <2> QED BY <1>4, <1>8
<1> HIDE DEF c
<1>10. /\ x.len \in Nat /\ x.n \in Nat /\ c.data[q].at \in Nat /\ c.data[q].at + x.len <= c.ulen
       /\ x.id \in file[g].ids
  <2>1. c.msgs[q].id \in file[g].ids BY <1>2, <1>5, MessageTimes
  <2> HIDE DEF x
  <2> QED BY <1>2, <1>5, <1>8, <2>1, MessageTypes, BytesFollow
<1>11. Bytes(c.data, c.data[q].at, c.msgs[q].len) = Own(c.msgs[q].n, c.msgs[q].len) BY <1>2, <1>5, OwnBytes
<1>12. ASSUME query.costAware, ~file[g].compressed, g \in ToSet(Scoped), ranges = DataRanges
       PROVE  FileBytes(Loaded(c.off + k.off)) = Own(x.n, x.len)
  <2>1. i \in ToSet(KeptChunks(g)) BY <1>12 DEF Listed
  <2>2. k.len > 0 /\ k.len \in Nat /\ k.off \in Nat BY <1>6, <1>8, <1>9, <1>10
  <2>3. Loaded(c.off + k.off) = [offset |-> c.off + k.off, length |-> k.len]
    BY <1>2, <1>12, <2>1, <2>2, LoadedFacts DEF c
  <2> HIDE DEF k, x
  <2> QED BY <1>7, <1>8, <1>9, <1>12, <2>3
<1>13. x.len > 0 BY <1>6, <1>8
<1> HIDE DEF k, x
<1>14. Bytes(c.data, k.off, k.len) = Own(x.n, x.len) BY <1>8, <1>9, <1>11
<1>15. k.off \in Nat /\ k.off + k.len <= c.ulen /\ x.len \in Nat \ {0} BY <1>9, <1>10, <1>13
<1> QED BY <1>9, <1>10, <1>12, <1>14, <1>15 DEF k, x, c
-----------------------------------------------------------------------------
(* What a group promises, and the order of it.  A message is known by its  *)
(* number, which its bytes carry.                                          *)
Promise(g, i, m) == Record(Message(g, i, m))

NumberOf(bytes) == CHOOSE n \in Nat : \E x : <<n, x>> \in bytes
Rank(e) == IF query.reverse THEN -NumberOf(e.bytes) ELSE NumberOf(e.bytes)
Sooner(a, b) == IF query.reverse THEN b < a ELSE a < b

(* The bytes of a message that is not empty tell its number. *)
LEMMA NumberFacts ==
  ASSUME NEW n \in Nat, NEW len \in Nat \ {0}
  PROVE  NumberOf(Own(n, len)) = n
<1> DEFINE b == Own(n, len)
<1>1. <<n, 0>> \in b BY DEF Own
<1>2. \A k, x : <<k, x>> \in b => k = n BY DEF Own
<1> HIDE DEF b
<1>3. \E k \in Nat : \E x : <<k, x>> \in b BY <1>1
<1>4. NumberOf(b) \in Nat /\ \E x : <<NumberOf(b), x>> \in b BY <1>3 DEF NumberOf
<1>5. NumberOf(b) = n BY <1>2, <1>4
<1> QED BY <1>5 DEF b

(* A message as the caller gets it, and its rank. *)
LEMMA RecordFacts ==
  ASSUME NEW x, x.n \in Nat, x.len \in Nat \ {0}
  PROVE  /\ Record(x).id = x.id /\ Record(x).ts = x.ts /\ Record(x).bytes = Own(x.n, x.len)
         /\ Rank(Record(x)) = IF query.reverse THEN -x.n ELSE x.n
         /\ Rank(Record(x)) \in Int
<1>1. Record(x).id = x.id /\ Record(x).ts = x.ts /\ Record(x).bytes = Own(x.n, x.len) BY DEF Record
<1>2. NumberOf(Own(x.n, x.len)) = x.n BY NumberFacts
<1>3. Rank(Record(x)) = IF query.reverse THEN -x.n ELSE x.n BY <1>1, <1>2 DEF Rank
<1> QED BY <1>1, <1>3

(* What a group promises are messages the query asks for. *)
LEMMA PromiseFacts ==
  ASSUME file \in Files, query \in Queries, NoEmptyMessages, NEW g \in DOMAIN file,
         NEW i \in ToSet(Listed(g)), NEW m \in DOMAIN Kept(g, i)
  PROVE  /\ i \in DOMAIN file[g].chunks
         /\ m \in DOMAIN Arranged(AskedAt(g, i)) /\ Arranged(AskedAt(g, i))[m] \in AskedAt(g, i)
         /\ Arranged(AskedAt(g, i))[m] \in DOMAIN file[g].chunks[i].msgs
         /\ Message(g, i, m).n \in Nat /\ Message(g, i, m).len \in Nat \ {0}
         /\ Promise(g, i, m).id = Message(g, i, m).id /\ Promise(g, i, m).id \in file[g].ids
         /\ Promise(g, i, m).ts = Message(g, i, m).ts
         /\ Rank(Promise(g, i, m)) = IF query.reverse THEN -Message(g, i, m).n ELSE Message(g, i, m).n
         /\ Rank(Promise(g, i, m)) \in Int
<1>1. i \in DOMAIN file[g].chunks
  <2>1. Places(Chunks(g), g) /\ Places(KeptChunks(g), g) BY ChunksFacts
  <2> QED BY <2>1 DEF Listed, Places, ToSet
<1>2. query.start <= file[g].chunks[i].end BY <1>1, PassedBy
<1>3. m \in DOMAIN Arranged(AskedAt(g, i)) BY <1>1, <1>2, KeptAsked
<1>4. Arranged(AskedAt(g, i))[m] \in AskedAt(g, i) /\ Arranged(AskedAt(g, i))[m] \in DOMAIN file[g].chunks[i].msgs
  BY <1>1, <1>3, AskedPlaces
<1> DEFINE x == Message(g, i, m)
<1>5. x.n \in Nat /\ x.len \in Nat \ {0} /\ x.id \in file[g].ids BY KeptIsOwn
<1> HIDE DEF x
<1>6. Record(x).id = x.id /\ Record(x).ts = x.ts /\ Rank(Record(x)) = (IF query.reverse THEN -x.n ELSE x.n) /\ Rank(Record(x)) \in Int
  BY <1>5, RecordFacts
<1>7. Promise(g, i, m) = Record(x) BY DEF Promise, x
<1> QED BY <1>1, <1>3, <1>4, <1>5, <1>6, <1>7 DEF x

(* What is given sooner has the lower rank. *)
LEMMA RankMono ==
  ASSUME file \in Files, query \in Queries, NoEmptyMessages, NEW g \in DOMAIN file, NEW c, c = Listed(g),
         NEW p \in DOMAIN c, NEW r \in DOMAIN c,
         NEW m \in DOMAIN Kept(g, c[p]), NEW n \in DOMAIN Kept(g, c[r]),
         Sooner(p, r) \/ (p = r /\ Sooner(m, n))
  PROVE  Rank(Promise(g, c[p], m)) < Rank(Promise(g, c[r], n))
<1> DEFINE d == file[g].chunks
           Place(i, k) == Arranged(AskedAt(g, i))[k]
           a == c[p]
           b == c[r]
           x == Message(g, a, m)
           y == Message(g, b, n)
<1>1. c \in Seq(DOMAIN d) /\ \A u, v \in DOMAIN c : u < v => c[u] < c[v]
  BY ChunksFacts DEF Listed, Places
<1>2. a \in ToSet(Listed(g)) /\ b \in ToSet(Listed(g)) BY DEF ToSet
<1> HIDE DEF a, b
<1>3. /\ a \in DOMAIN d /\ m \in DOMAIN Arranged(AskedAt(g, a)) /\ Place(a, m) \in DOMAIN d[a].msgs
      /\ x.n \in Nat /\ Rank(Promise(g, a, m)) = IF query.reverse THEN -x.n ELSE x.n
  <2>1. m \in DOMAIN Kept(g, a) BY DEF a
  <2> QED BY <1>2, <2>1, PromiseFacts
<1>4. /\ b \in DOMAIN d /\ n \in DOMAIN Arranged(AskedAt(g, b)) /\ Place(b, n) \in DOMAIN d[b].msgs
      /\ y.n \in Nat /\ Rank(Promise(g, b, n)) = IF query.reverse THEN -y.n ELSE y.n
  <2>1. n \in DOMAIN Kept(g, b) BY DEF b
  <2> QED BY <1>2, <2>1, PromiseFacts
<1>5. x = d[a].msgs[Place(a, m)] /\ y = d[b].msgs[Place(b, n)] BY DEF Message
<1>6. \A i, j \in DOMAIN d : \A q \in DOMAIN d[i].msgs, s \in DOMAIN d[j].msgs :
        i < j \/ (i = j /\ q < s) => d[i].msgs[q].n < d[j].msgs[s].n
  BY TruthFacts
<1>7. \A u, v \in DOMAIN Arranged(AskedAt(g, a)) : u < v => Place(a, u) < Place(a, v) BY <1>3, AskedPlaces
<1> HIDE DEF d, Place, x, y
<1>8. CASE query.reverse
  <2>1. r < p \/ (p = r /\ n < m) BY <1>8 DEF Sooner
  <2>2. b < a \/ (a = b /\ Place(b, n) < Place(a, m))
    <3>1. CASE r < p BY <1>1, <3>1 DEF a, b
    <3>2. CASE p = r /\ n < m
      <4>1. a = b BY <3>2 DEF a, b
      <4> QED BY <1>3, <1>4, <1>7, <3>2, <4>1
    <3> QED BY <2>1, <3>1, <3>2
  <2>3. y.n < x.n BY <1>3, <1>4, <1>5, <1>6, <2>2
  <2>4. Rank(Promise(g, a, m)) < Rank(Promise(g, b, n)) BY <1>3, <1>4, <1>8, <2>3
  <2> QED BY <2>4 DEF a, b
<1>9. CASE ~query.reverse
  <2>1. p < r \/ (p = r /\ m < n) BY <1>9 DEF Sooner
  <2>2. a < b \/ (a = b /\ Place(a, m) < Place(b, n))
    <3>1. CASE p < r BY <1>1, <3>1 DEF a, b
    <3>2. CASE p = r /\ m < n
      <4>1. a = b BY <3>2 DEF a, b
      <4> QED BY <1>3, <1>4, <1>7, <3>2, <4>1
    <3> QED BY <2>1, <3>1, <3>2
  <2>3. x.n < y.n BY <1>3, <1>4, <1>5, <1>6, <2>2
  <2>4. Rank(Promise(g, a, m)) < Rank(Promise(g, b, n)) BY <1>3, <1>4, <1>9, <2>3
  <2> QED BY <2>4 DEF a, b
<1> QED BY <1>8, <1>9

(* The groups that get an iterator are those that have something to give.  *)
LEMMA GroupsSet ==
  ASSUME file \in Files, NEW S \in SUBSET DOMAIN file
  PROVE  ToSet(Arranged(S)) = S
<1>1. DOMAIN file = 1 .. Len(file) /\ Len(file) \in Int /\ 1 \in Int BY FileFacts
<1>2. IsFiniteSet(1 .. Len(file)) BY <1>1, FS_Interval
<1>3. IsFiniteSet(S) BY <1>1, <1>2, FS_Subset
<1>4. S \subseteq Int BY <1>1
<1>5. Arranged(S) \in Seq(S) /\ \A x \in S : \E n \in DOMAIN Arranged(S) : Arranged(S)[n] = x BY <1>3, <1>4, ArrangedFacts
<1> QED BY <1>5 DEF ToSet

(* The groups with an iterator: each once, and all that have messages.     *)
LEMMA PlannedFacts ==
  ASSUME file \in Files, query \in Queries
  PROVE  /\ Planned \in Seq(DOMAIN file) /\ \A m, n \in DOMAIN Planned : m < n => Planned[m] < Planned[n]
         /\ query.costAware => \A k \in DOMAIN Planned : Planned[k] \in ToSet(Scoped)
         /\ query.costAware /\ Scoped = <<>> => DOMAIN Planned = {}
         /\ NoEmptyMessages => \A g \in DOMAIN file : \A i \in DOMAIN file[g].chunks :
              AskedAt(g, i) # {} => \E k \in DOMAIN Planned : Planned[k] = g
<1> DEFINE M == {g \in DOMAIN file : GroupMatches(g)}
           C == {g \in DOMAIN file : GroupMatches(g) /\ Chunks(g) # <<>>}
           K == {g \in ToSet(Scoped) : KeptChunks(g) # <<>>}
<1>1. Matching = Arranged(M) /\ M \in SUBSET DOMAIN file BY DEF Matching
<1>2. Scoped = Arranged(C) /\ C \in SUBSET DOMAIN file BY DEF Scoped
<1>3. ToSet(Scoped) = C
  <2> HIDE DEF C
  <2> QED BY <1>2, GroupsSet
<1>4. K \in SUBSET DOMAIN file BY <1>2, <1>3
<1>5. Planned = IF query.costAware THEN Arranged(K) ELSE IF sdk = "go" THEN Matching ELSE Scoped BY DEF Planned
<1> DEFINE P == IF query.costAware THEN K ELSE IF sdk = "go" THEN M ELSE C
<1>6. Planned = Arranged(P) /\ P \in SUBSET DOMAIN file BY <1>1, <1>2, <1>4, <1>5
<1>7. query.costAware => P \subseteq ToSet(Scoped) OBVIOUS
<1>8. ASSUME NoEmptyMessages, NEW g \in DOMAIN file, NEW i \in DOMAIN file[g].chunks, AskedAt(g, i) # {}
      PROVE  g \in P
  <2>1. i \in ToSet(Listed(g)) /\ GroupMatches(g) BY <1>8, PassedBy DEF GroupMatches
  <2>2. i \in ToSet(Chunks(g)) BY <2>1, ChunksSet DEF Listed
  <2>3. Chunks(g) # <<>> BY <2>2 DEF ToSet
  <2>4. query.costAware => KeptChunks(g) # <<>> BY <2>1 DEF Listed, ToSet
  <2> QED BY <1>3, <2>1, <2>3, <2>4
<1> HIDE DEF P
<1>9. /\ Planned \in Seq(DOMAIN file)
      /\ \A m, n \in DOMAIN Planned : m < n => Planned[m] < Planned[n]
      /\ \A n \in DOMAIN Planned : Planned[n] \in P
  BY <1>6, GroupsFacts
<1>10. \A g \in P : \E k \in DOMAIN Planned : Planned[k] = g
  <2>1. ToSet(Planned) = P BY <1>6, GroupsSet
  <2> QED BY <2>1 DEF ToSet
<1>11. query.costAware /\ Scoped = <<>> => DOMAIN Planned = {}
  <2>1. ToSet(<<>>) = {} BY DEF ToSet
  <2> QED BY <1>7, <1>9, <2>1
<1> QED BY <1>7, <1>8, <1>9, <1>10, <1>11

(* What a group has given when the cursor in the messages it serves is cur. *)
IsGiven(e, i, cur) ==
  \E p \in DOMAIN i.chunks : \E m \in DOMAIN Kept(i.group, i.chunks[p]) :
    /\ Sooner(p, Serving(i)) \/ (p = Serving(i) /\ Sooner(m, cur))
    /\ e = Promise(i.group, i.chunks[p], m)

(* What is promised depends on the file and the query only. *)
LEMMA PromiseFrame ==
  ASSUME UNCHANGED <<file, query>>
  PROVE  /\ DataRanges' = DataRanges /\ Scoped' = Scoped /\ (NoEmptyMessages' <=> NoEmptyMessages)
         /\ \A g : Listed(g)' = Listed(g)
         /\ \A g, i, m : Promise(g, i, m)' = Promise(g, i, m)
         /\ \A e : Rank(e)' = Rank(e)
         /\ \A a, b : Sooner(a, b)' <=> Sooner(a, b)
         /\ \A e, i, cur : IsGiven(e, i, cur)' <=> IsGiven(e, i, cur)
<1>1. Scoped' = Scoped BY DEF Scoped, GroupMatches, Chunks
<1>2. DataRanges' = DataRanges
  BY <1>1 DEF DataRanges, RangesOf, KeptChunks, Kept, Chunks, ChunkRange, MessageRanges
<1>3. NoEmptyMessages' <=> NoEmptyMessages BY DEF NoEmptyMessages
<1>4. \A g : Listed(g)' = Listed(g) BY DEF Listed, KeptChunks, Chunks, Kept
<1>5. \A g, i, m : Promise(g, i, m)' = Promise(g, i, m) BY DEF Promise, Record, Message, AskedAt, Reached
<1>6. \A e : Rank(e)' = Rank(e) BY DEF Rank
<1>7. \A a, b : Sooner(a, b)' <=> Sooner(a, b) BY DEF Sooner
<1>8. \A e, i, cur : IsGiven(e, i, cur)' <=> IsGiven(e, i, cur)
  BY DEF IsGiven, Sooner, Kept, Serving, Step, Promise, Record, Message, AskedAt, Reached
<1> QED BY <1>1, <1>2, <1>3, <1>4, <1>5, <1>6, <1>7, <1>8
-----------------------------------------------------------------------------
(* The course of an iterator whose cursor is cur: it visits the chunks     *)
(* that are listed, holds what is kept of the one it serves, and has not   *)
(* gone back over the start of either.                                     *)
Course(i, cur) ==
  /\ i.chunks = Listed(i.group)
  /\ Serving(i) \in DOMAIN i.chunks => KeptAt(i, Serving(i))
  /\ i.kept # <<>> => IF query.reverse THEN cur <= Len(i.kept) ELSE 1 <= cur
  /\ IF query.reverse THEN i.next <= Len(i.chunks) ELSE 1 <= i.next

(* The buffer of a lazy group holds the chunk that is served. *)
HasData(i) == ~query.costAware /\ i.kept # <<>> => i.buf = i.chunks[Serving(i)]

(* As long as no call has failed, every group with messages has an         *)
(* iterator, which is on its course.                                       *)
CourseInv ==
  /\ pc \in {"start", "indexes", "data", "refused"} => iters = <<>>
  /\ pc \notin {"start", "indexes", "data", "refused"} => DOMAIN iters = DOMAIN Planned
  /\ query.costAware /\ (iters # <<>> \/ pc = "data") => ranges = DataRanges
  /\ \A k \in DOMAIN iters : Course(iters[k], Cursor(k)) /\ ((pc = "chunk" /\ k = pulled) \/ HasData(iters[k]))

(* So do the courses an iterator may be on. *)
LEMMA CourseFrame ==
  ASSUME UNCHANGED <<file, query>>
  PROVE  /\ \A i, cur : Course(i, cur)' <=> Course(i, cur)
         /\ \A i : HasData(i)' <=> HasData(i)
<1>1. \A i : Serving(i)' = Serving(i) BY DEF Serving, Step
<1>2. \A i, n : KeptAt(i, n)' <=> KeptAt(i, n) BY DEF KeptAt, Kept
<1>3. \A g : Listed(g)' = Listed(g) BY PromiseFrame
<1>4. \A i, cur : Course(i, cur)' <=> Course(i, cur) BY <1>1, <1>2, <1>3 DEF Course
<1>5. \A i : HasData(i)' <=> HasData(i) BY <1>1 DEF HasData
<1> QED BY <1>4, <1>5

(* One iterator changes. *)
LEMMA CourseBecomes ==
  ASSUME TypeInv, CourseInv, UNCHANGED <<file, query, sdk, ranges>>, NEW j \in IterType, Becomes(j),
         pc \in {"pull", "chunk"}, pc' \notin {"start", "indexes", "data", "refused"}, pc' = "chunk" => pulled' = pulled,
         NEW c, c = IF pc' = "chunk" THEN First(j.kept) ELSE j.cur, Course(j, c), pc' = "chunk" \/ HasData(j)
  PROVE  CourseInv'
<1>1. /\ iters' \in Seq(IterType) /\ DOMAIN iters' = DOMAIN iters
      /\ iters'[pulled] = j /\ pulled \in DOMAIN iters
      /\ \A k \in DOMAIN iters : k # pulled => iters'[k] = iters[k]
  BY BecomesFacts
<1>2. Planned' = Planned /\ DataRanges' = DataRanges /\ \A s : First(s)' = First(s) BY Frame, PromiseFrame
<1>3. DOMAIN iters' = DOMAIN Planned' BY <1>1, <1>2 DEF CourseInv
<1>4. query.costAware' => ranges' = DataRanges'
  <2>1. iters # <<>> BY <1>1
  <2> QED BY <1>2, <2>1 DEF CourseInv
<1>5. ASSUME NEW k \in DOMAIN iters' PROVE (Course(iters[k], Cursor(k)) /\ ((pc = "chunk" /\ k = pulled) \/ HasData(iters[k])))'
  <2>1. CASE k = pulled
    <3>1. iters'[k] = j BY <1>1, <2>1
    <3>2. Cursor(k)' = c
      <4>0. pc' = "chunk" => pulled' = k BY <2>1
      <4>1. CASE pc' = "chunk" BY <1>2, <3>1, <4>0, <4>1 DEF Cursor
      <4>2. CASE pc' # "chunk" BY <3>1, <4>2 DEF Cursor
      <4> QED BY <4>1, <4>2
    <3>4. Course(iters[k], Cursor(k))'
      <4>1. \A i, cur : Course(i, cur)' <=> Course(i, cur) BY CourseFrame
      <4>2. Course(iters[k], Cursor(k))' <=> Course(iters'[k], Cursor(k)') BY <4>1
      <4> QED BY <3>1, <3>2, <4>2
    <3>5. pc' = "chunk" => pulled' = k BY <2>1
    <3>6. HasData(iters[k])' <=> HasData(iters'[k]) BY CourseFrame
    <3> QED BY <2>1, <3>1, <3>4, <3>5, <3>6
  <2>2. CASE k # pulled
    <3>1. iters'[k] = iters[k] BY <1>1, <2>2
    <3>2. Cursor(k)' = Cursor(k) BY <2>2, <3>1 DEF Cursor
    <3>3. Course(iters[k], Cursor(k)) /\ HasData(iters[k]) BY <1>1, <2>2 DEF CourseInv
    <3>4. Course(iters[k], Cursor(k))' <=> Course(iters'[k], Cursor(k)') BY CourseFrame
    <3>5. HasData(iters[k])' <=> HasData(iters'[k]) BY CourseFrame
    <3> QED BY <3>1, <3>2, <3>3, <3>4, <3>5
  <2> QED BY <2>1, <2>2
<1>6. (\A k \in DOMAIN iters : Course(iters[k], Cursor(k)) /\ ((pc = "chunk" /\ k = pulled) \/ HasData(iters[k])))' BY <1>5
<1>7. iters' # <<>> BY <1>1
<1> QED BY <1>3, <1>4, <1>6, <1>7 DEF CourseInv

(* New iterators are at the start of their course, *)
LEMMA NewCourse ==
  ASSUME TypeInv, UNCHANGED <<file, query, sdk, ranges>>, ToIterators, CourseInv
  PROVE  CourseInv'
<1>1. /\ pc \in {"start", "data"} /\ pc' = "idle" /\ (query.costAware => pc = "data")
      /\ iters' \in Seq(IterType) /\ DOMAIN iters' = DOMAIN Planned
  BY DEF ToIterators
<1>2. Planned' = Planned /\ DataRanges' = DataRanges BY Frame, PromiseFrame
<1>3. query.costAware' => ranges' = DataRanges' BY <1>1, <1>2 DEF CourseInv
<1>4. ASSUME NEW k \in DOMAIN iters' PROVE (Course(iters[k], Cursor(k)) /\ HasData(iters[k]))'
  <2> DEFINE i == iters'[k]
  <2>1. i \in IterType BY <1>1
  <2>2. /\ i.next = First(i.chunks) /\ Places(i.chunks, i.group) /\ i.chunks = Listed(i.group)
        /\ \/ ~query.costAware /\ i.kept = <<>> /\ i.cur = 1
           \/ query.costAware /\ KeptAt(i, i.next) /\ i.cur = First(i.kept)
    BY DEF ToIterators
  <2>3. Cursor(k)' = i.cur BY <1>1 DEF Cursor
  <2> HIDE DEF i
  <2>4. i.chunks \in Seq(Nat) /\ i.kept \in Seq(KeptMessage) BY <2>1 DEF IterType
  <2>5. Len(i.chunks) \in Nat /\ DOMAIN i.chunks = 1 .. Len(i.chunks) /\ Len(i.kept) \in Nat BY <2>4
  <2>6. ~query.costAware => Serving(i) \notin DOMAIN i.chunks BY <2>2, <2>5 DEF Serving, First, Step
  <2>7. query.costAware => Serving(i) = i.next BY DEF Serving
  <2>8. i.kept # <<>> => IF query.reverse THEN i.cur <= Len(i.kept) ELSE 1 <= i.cur BY <2>2, <2>5 DEF First
  <2>9. IF query.reverse THEN i.next <= Len(i.chunks) ELSE 1 <= i.next BY <2>2, <2>5 DEF First
  <2>10. Course(i, i.cur) BY <2>2, <2>6, <2>7, <2>8, <2>9 DEF Course
  <2>11. HasData(i) BY <2>2 DEF HasData
  <2>12. Course(iters[k], Cursor(k))' <=> Course(iters'[k], Cursor(k)') BY CourseFrame
  <2>13. HasData(iters[k])' <=> HasData(iters'[k]) BY CourseFrame
  <2> QED BY <2>3, <2>10, <2>11, <2>12, <2>13 DEF i
<1> QED BY <1>1, <1>2, <1>3, <1>4 DEF CourseInv

(* and no step leaves it, unless it fails. *)
LEMMA CourseStep ==
  ASSUME TypeInv, PhaseInv, ItemInv, CourseInv, Moves, ~failed'
  PROVE  CourseInv'
<1>1. UNCHANGED <<file, query, sdk>> /\ file \in Files /\ query \in Queries BY DEF Moves, TypeInv
<1>2. Planned' = Planned /\ DataRanges' = DataRanges /\ Scoped' = Scoped /\ \A s : First(s)' = First(s)
  BY <1>1, Frame, PromiseFrame
<1>3. CASE ToPlan
  <2>1. pc \in {"start", "indexes", "data"} /\ iters = <<>> /\ iters' = <<>> /\ query.costAware
        /\ pc' \in {"indexes", "data", "idle", "refused"}
    BY <1>3 DEF ToPlan, CourseInv
  <2>2. pc' = "idle" => DOMAIN Planned = {} BY <1>1, <1>3, <2>1, PlannedFacts DEF ToPlan
  <2>3. pc' = "data" => ranges' = DataRanges BY <1>3 DEF ToPlan
  <2>4. DOMAIN iters' = {} BY <2>1
  <2> QED BY <1>2, <2>1, <2>2, <2>3, <2>4 DEF CourseInv
<1>4. CASE ~ToPlan
  <2>1. UNCHANGED ranges BY <1>4 DEF Moves
  <2>2. CASE ToIterators BY <1>1, <2>1, <2>2, NewCourse
  <2>3. ASSUME UNCHANGED iters, pc \notin {"chunk", "start", "indexes", "data", "refused"},
               pc' \notin {"chunk", "start", "indexes", "data", "refused"}
        PROVE  CourseInv'
    <3>1. ASSUME NEW k \in DOMAIN iters' PROVE (Course(iters[k], Cursor(k)) /\ HasData(iters[k]))'
      <4>1. Cursor(k)' = Cursor(k) /\ iters'[k] = iters[k] BY <2>3 DEF Cursor
      <4>2. Course(iters[k], Cursor(k)) /\ HasData(iters[k]) BY <2>3 DEF CourseInv
      <4>3. Course(iters[k], Cursor(k))' <=> Course(iters'[k], Cursor(k)') BY <1>1, CourseFrame
      <4>4. HasData(iters[k])' <=> HasData(iters'[k]) BY <1>1, CourseFrame
      <4> QED BY <4>1, <4>2, <4>3, <4>4
    <3> QED BY <1>1, <1>2, <2>1, <2>3, <3>1 DEF CourseInv
  <2>4. CASE UNCHANGED vars
    <3>1. ASSUME NEW k \in DOMAIN iters'
          PROVE  (Course(iters[k], Cursor(k)) /\ ((pc = "chunk" /\ k = pulled) \/ HasData(iters[k])))'
      <4>1. Cursor(k)' = Cursor(k) /\ iters'[k] = iters[k] /\ pc' = pc /\ pulled' = pulled BY <1>2, <2>4 DEF vars, Cursor
      <4>2. Course(iters[k], Cursor(k)) /\ ((pc = "chunk" /\ k = pulled) \/ HasData(iters[k])) BY <2>4 DEF CourseInv, vars
      <4>3. Course(iters[k], Cursor(k))' <=> Course(iters'[k], Cursor(k)') BY <1>1, CourseFrame
      <4>4. HasData(iters[k])' <=> HasData(iters'[k]) BY <1>1, CourseFrame
      <4> QED BY <4>1, <4>2, <4>3, <4>4
    <3> QED BY <1>1, <1>2, <2>4, <3>1 DEF CourseInv, vars
  <2>5. ASSUME NEW j \in IterType, NEW y, ToMessage(j, y) PROVE CourseInv'
    <3>1. Becomes(j) /\ j.next = it.next /\ j.kept = it.kept /\ pc = "pull" /\ it.cur \in DOMAIN it.kept /\ j.cur = it.cur + Step
          /\ Carries(y, j.buf)
      BY <2>5 DEF ToMessage
    <3>2. pc' \in {"pull", "pop", "idle"} BY <2>5, <3>1, AnsweredFacts DEF ToMessage
    <3>3. it.kept \in Seq(KeptMessage) /\ pulled \in DOMAIN iters /\ it = iters[pulled] BY <3>1, ItFacts
    <3>4. it.cur \in 1 .. Len(it.kept) /\ Len(it.kept) \in Int BY <3>1, <3>3
    <3>5. Course(it, it.cur) /\ HasData(it) BY <3>1, <3>3 DEF CourseInv, Cursor
    <3>6. j.group = it.group /\ j.chunks = it.chunks /\ Serving(j) = Serving(it) BY <3>1 DEF Becomes, Serving
    <3>7. IF query.reverse THEN j.cur <= Len(it.kept) ELSE 1 <= j.cur BY <3>1, <3>4 DEF Step
    <3>8. Course(j, j.cur) BY <3>1, <3>5, <3>6, <3>7 DEF Course, KeptAt
    <3>9. ~query.costAware => j.buf = it.buf BY <3>1 DEF Carries
    <3>10. HasData(j) BY <3>1, <3>5, <3>6, <3>9 DEF HasData
    <3> QED BY <1>1, <2>1, <3>1, <3>2, <3>8, <3>10, CourseBecomes
  <2>6. ASSUME NEW j \in IterType, ToData(j) PROVE CourseInv'
    <3>1. Becomes(j) /\ j.next = it.next /\ j.kept = it.kept /\ pc = "chunk" /\ pc' = "pull" /\ j.cur = First(it.kept)
          /\ j.buf = it.chunks[it.next - Step]
      BY <2>6 DEF ToData, CurrentChunk
    <3>3. it.kept \in Seq(KeptMessage) /\ pulled \in DOMAIN iters /\ it = iters[pulled] BY <3>1, ItFacts
    <3>5. Course(it, j.cur) BY <3>1, <3>3 DEF CourseInv, Cursor
    <3>6. j.group = it.group /\ j.chunks = it.chunks /\ Serving(j) = Serving(it) BY <3>1 DEF Becomes, Serving
    <3>8. Course(j, j.cur) BY <3>1, <3>5, <3>6 DEF Course, KeptAt
    <3>10. HasData(j) BY <3>1, <3>6 DEF HasData, Serving
    <3> QED BY <1>1, <2>1, <3>1, <3>8, <3>10, CourseBecomes
  <2>7. ASSUME NEW j \in IterType, ToChunk(j) PROVE CourseInv'
    <3>1. /\ Becomes(j) /\ j.next = it.next + Step /\ pc = "pull" /\ pulled' = pulled /\ pc' \in {"pull", "chunk"}
          /\ it.next \in DOMAIN it.chunks /\ (pc' # "chunk" => j.cur = First(j.kept))
          /\ IF query.costAware THEN j.next \in DOMAIN j.chunks => KeptAt(j, j.next) ELSE KeptAt(j, it.next)
          /\ ~query.costAware => j.kept = <<>> \/ pc' = "chunk"
      BY <2>7 DEF ToChunk
    <3>2. it.chunks \in Seq(Nat) /\ it.next \in Int /\ pulled \in DOMAIN iters /\ it = iters[pulled] BY <3>1, ItFacts
    <3>3. it.next \in 1 .. Len(it.chunks) /\ Len(it.chunks) \in Int BY <3>1, <3>2
    <3>4. Course(it, it.cur) BY <3>1, <3>2 DEF CourseInv, Cursor
    <3>5. j.group = it.group /\ j.chunks = it.chunks BY <3>1 DEF Becomes
    <3>6. j.next - Step = it.next BY <3>1, <3>2, StepType
    <3>7. Serving(j) \in DOMAIN j.chunks => KeptAt(j, Serving(j)) BY <3>1, <3>6 DEF Serving
    <3>8. j.kept \in Seq(KeptMessage) BY DEF IterType
    <3>9. IF query.reverse THEN j.next <= Len(j.chunks) ELSE 1 <= j.next BY <3>1, <3>3, <3>5 DEF Step
    <3>10. IF query.reverse THEN First(j.kept) <= Len(j.kept) ELSE 1 <= First(j.kept) BY <3>8 DEF First
    <3>11. Course(j, First(j.kept)) BY <3>4, <3>5, <3>7, <3>9, <3>10 DEF Course
    <3>12. pc' = "chunk" \/ HasData(j) BY <3>1 DEF HasData
    <3>13. First(j.kept) = IF pc' = "chunk" THEN First(j.kept) ELSE j.cur BY <3>1
    <3> QED BY <1>1, <2>1, <3>1, <3>11, <3>12, <3>13, CourseBecomes
  <2>8. \/ UNCHANGED vars \/ ToIterators
        \/ /\ UNCHANGED iters /\ pc \notin {"chunk", "start", "indexes", "data", "refused"}
           /\ pc' \notin {"chunk", "start", "indexes", "data", "refused"}
        \/ \E j \in IterType : (\E y : ToMessage(j, y)) \/ ToChunk(j) \/ ToData(j)
    <3>1. \A j : ~ToError(j) /\ ~ToCut(j) BY DEF ToError, ToCut
    <3>2. ToCall \/ ToCallAgain \/ ToEof \/ ToPanic =>
            /\ UNCHANGED iters /\ pc \notin {"chunk", "start", "indexes", "data", "refused"}
            /\ pc' \notin {"chunk", "start", "indexes", "data", "refused"}
      BY DEF ToCall, ToCallAgain, ToEof, ToPanic
    <3>3. \A p : ToPop(p) =>
            /\ UNCHANGED iters /\ pc \notin {"chunk", "start", "indexes", "data", "refused"}
            /\ pc' \notin {"chunk", "start", "indexes", "data", "refused"}
      BY DEF ToPop
    <3>4. ToEndOfGroup =>
            /\ UNCHANGED iters /\ pc \notin {"chunk", "start", "indexes", "data", "refused"}
            /\ pc' \notin {"chunk", "start", "indexes", "data", "refused"}
      BY AnsweredFacts DEF ToEndOfGroup
    <3> QED BY <1>4, <3>1, <3>2, <3>3, <3>4 DEF Moves
  <2> QED BY <2>2, <2>3, <2>4, <2>5, <2>6, <2>7, <2>8
<1> QED BY <1>3, <1>4
-----------------------------------------------------------------------------
(* What was popped, also if it was not returned yet. *)
Taken ==
  IF sdk # "py" /\ loaded /\ pc \in {"pull", "chunk", "panic"} THEN Append(delivered, Returned(popped))
  ELSE delivered

(* What was popped changes with a pop only. *)
LEMMA TakenStep ==
  ASSUME TypeInv, PhaseInv, Moves, ~failed'
  PROVE  /\ \A p \in DOMAIN heap : ToPop(p) => Taken' = Append(Taken, Carried(heap[p]))
         /\ Taken' = Taken \/ \E p \in DOMAIN heap : ToPop(p)
<1>1. sdk' = sdk /\ loaded \in BOOLEAN BY DEF Moves, TypeInv
<1>2. Returned(popped)' = Returned(popped') BY DEF Returned
<1>3. pc = "pop" => loaded BY DEF PhaseInv
<1>4. ASSUME NEW p \in DOMAIN heap, ToPop(p) PROVE Taken' = Append(Taken, Carried(heap[p]))
  <2> DEFINE c == Carried(heap[p])
  <2>1. pc = "pop" /\ loaded /\ loaded' = loaded BY <1>3, <1>4 DEF ToPop
  <2>2. Taken = delivered BY <2>1 DEF Taken
  <2>3. Returned(popped') = c BY <1>4 DEF ToPop
  <2>4. \/ sdk # "py" /\ pc' = "pull" /\ delivered' = delivered
        \/ sdk = "py" /\ pc' = "idle" /\ \E m : m = c /\ delivered' = Append(delivered, m)
    BY <1>4 DEF ToPop
  <2> HIDE DEF c
  <2>5. Taken' = Append(delivered, c) BY <1>1, <1>2, <2>1, <2>3, <2>4 DEF Taken
  <2> QED BY <2>2, <2>5 DEF c
<1>5. ASSUME ToPlan PROVE Taken' = Taken
  <2>1. pc \in {"start", "indexes", "data"} /\ pc' \in {"indexes", "data", "idle", "refused"} /\ delivered' = delivered
    BY <1>5 DEF ToPlan
  <2> QED BY <2>1 DEF Taken
<1>6. ASSUME ToIterators \/ ToEof PROVE Taken' = Taken BY <1>6 DEF ToIterators, ToEof, Taken
<1>7. ASSUME ToCall PROVE Taken' = Taken BY <1>1, <1>7 DEF ToCall, Taken
<1>8. ASSUME ToCallAgain PROVE Taken' = Taken BY <1>1, <1>8 DEF ToCallAgain, Taken
<1>9. ASSUME pc = "pull", PortAnswered PROVE Taken' = Taken
  <2> DEFINE r == Returned(popped)
  <2>1. \/ sdk = "py" /\ delivered' = delivered
        \/ ~loaded /\ ~loaded' /\ delivered' = delivered
        \/ ~loaded /\ pc' = "pop" /\ delivered' = delivered
        \/ sdk # "py" /\ loaded /\ pc' = "idle" /\ delivered' = Append(delivered, r)
    <3> HIDE DEF r
    <3>1. \/ /\ sdk = "py" /\ loaded /\ loaded' = loaded /\ pc' = "pop" /\ pulled' = 0 /\ UNCHANGED <<delivered, result>>
          \/ /\ ~loaded /\ loaded' = loaded /\ pc' = "pull" /\ pulled' = pulled + 1 /\ pulled < Len(iters)
             /\ UNCHANGED <<delivered, popped, result>>
          \/ /\ ~loaded /\ loaded' /\ pc' = "pop" /\ pulled = Len(iters) /\ UNCHANGED <<delivered, popped, result>>
          \/ /\ sdk # "py" /\ loaded /\ loaded' = loaded /\ pc' = "idle"
             /\ \E m : m.ts = popped.item.ts /\ m = r /\ delivered' = Append(delivered, m)
      BY <1>9, AnsweredFacts DEF r
    <3> QED BY <3>1
  <2>2. Taken = IF sdk # "py" /\ loaded THEN Append(delivered, r) ELSE delivered BY <1>9 DEF Taken
  <2> HIDE DEF r
  <2> QED BY <1>1, <2>1, <2>2 DEF Taken
<1>10. ASSUME ToPanic PROVE Taken' = Taken BY <1>1, <1>2, <1>10 DEF ToPanic, Taken
<1>11. ASSUME NEW j, ToChunk(j) \/ ToData(j) PROVE Taken' = Taken BY <1>1, <1>2, <1>11 DEF ToChunk, ToData, Taken
<1>12. ASSUME UNCHANGED vars PROVE Taken' = Taken BY <1>1, <1>2, <1>12 DEF vars, Taken
<1>13. \A j : ~ToError(j) /\ ~ToCut(j) BY DEF ToError, ToCut
<1>14. ToEndOfGroup => Taken' = Taken BY <1>9 DEF ToEndOfGroup
<1>15. \A j, x : ToMessage(j, x) => Taken' = Taken BY <1>9 DEF ToMessage
<1> QED BY <1>4, <1>5, <1>6, <1>7, <1>8, <1>10, <1>11, <1>12, <1>13, <1>14, <1>15 DEF Moves

(* An item stays what it is as long as its group is not asked. *)
LEMMA CarriedFrame ==
  ASSUME UNCHANGED <<file, query, sdk, ranges>>, NEW y,
         iters'[y.iter].group = iters[y.iter].group, iters'[y.iter].buf = iters[y.iter].buf
  PROVE  Carried(y)' = Carried(y)
<1>1. \A o : Loaded(o)' = Loaded(o) BY DEF Loaded
<1>2. \A r : FileBytes(r)' = FileBytes(r) BY DEF FileBytes
<1>3. Buffered(iters[y.iter], y.off, y.len)' = Buffered(iters[y.iter], y.off, y.len) BY DEF Buffered
<1>4. FileBytes(Loaded(y.off))' = FileBytes(Loaded(y.off)) BY <1>1, <1>2
<1>5. Payload(y)' = Payload(y) BY <1>3, <1>4 DEF Payload
<1> QED BY <1>5 DEF Carried

(* Iterators read groups of their own, with topics of their own. *)
LEMMA OwnTopics ==
  ASSUME TypeInv, NEW k \in DOMAIN iters, NEW l \in DOMAIN iters, k # l
  PROVE  file[iters[k].group].ids \cap file[iters[l].group].ids = {}
<1>1. file \in Files /\ query \in Queries /\ iters \in Seq(IterType) BY DEF TypeInv, ItersOK
<1>2. DOMAIN iters = DOMAIN Planned /\ iters[k].group = Planned[k] /\ iters[l].group = Planned[l]
      /\ iters[k].group \in DOMAIN file /\ iters[l].group \in DOMAIN file
  BY DEF TypeInv, ItersOK, IterOK
<1>3. k < l \/ l < k BY <1>1
<1>4. Planned \in Seq(DOMAIN file) /\ \A m, n \in DOMAIN Planned : m < n => Planned[m] < Planned[n] BY <1>1, PlannedFacts
<1>5. Planned[k] < Planned[l] \/ Planned[l] < Planned[k] BY <1>2, <1>3, <1>4
<1>6. Planned[k] \in Int /\ Planned[l] \in Int BY <1>1, <1>2, FileFacts
<1>7. iters[k].group # iters[l].group BY <1>2, <1>5, <1>6
<1> QED BY <1>1, <1>2, <1>7, TruthFacts

(* A message goes into the heap with its own bytes. *)
LEMMA NewItem ==
  ASSUME TypeInv, PhaseInv, CourseInv, NoEmptyMessages, Moves, NEW j \in IterType, NEW x, ToMessage(j, x)
  PROVE  /\ Serving(it) \in DOMAIN it.chunks /\ KeptAt(it, Serving(it))
         /\ it.cur \in DOMAIN Kept(it.group, it.chunks[Serving(it)])
         /\ Carried(x)' = Promise(it.group, it.chunks[Serving(it)], it.cur)
<1> DEFINE g == it.group
           i == it.chunks[Serving(it)]
           m == it.cur
           k == Kept(g, i)[m]
           c == file[g].chunks[i]
           y == Message(g, i, m)
<1>1. /\ pc = "pull" /\ it.cur \in DOMAIN it.kept /\ Becomes(j)
      /\ x.ts = it.kept[it.cur].ts /\ x.id = it.kept[it.cur].id /\ x.iter = pulled
      /\ Carries(x, j.buf)
  BY DEF ToMessage
<1>2. UNCHANGED <<file, query, sdk, ranges>> /\ file \in Files /\ query \in Queries BY <1>1 DEF Moves, ToPlan, TypeInv
<1>3. /\ pulled \in DOMAIN iters /\ it = iters[pulled] /\ IterOK(it) /\ it.kept \in Seq(KeptMessage)
      /\ DOMAIN iters = DOMAIN Planned /\ g = Planned[pulled] /\ iters # <<>>
  BY <1>1, ItFacts DEF TypeInv, ItersOK
<1>4. Course(it, it.cur) /\ HasData(it) BY <1>1, <1>3 DEF CourseInv, Cursor
<1>5. it.kept # <<>> BY <1>1
<1>6. KeptAt(it, Serving(it)) BY <1>3, <1>5 DEF PhaseInv
<1>7. /\ Serving(it) \in DOMAIN it.chunks /\ it.kept = Kept(g, i) /\ m \in DOMAIN Kept(g, i)
      /\ i \in ToSet(Listed(g)) /\ g \in DOMAIN file /\ i \in DOMAIN file[g].chunks
  BY <1>1, <1>3, <1>4, <1>6 DEF KeptAt, Course, ToSet, IterOK
<1>8. query.costAware => ranges = DataRanges /\ g \in ToSet(Scoped) BY <1>2, <1>3, PlannedFacts DEF CourseInv
<1>9. i > 0 /\ i \in Int BY <1>2, <1>7, FileFacts
<1>10. /\ k.id = y.id /\ k.ts = y.ts /\ k.len = y.len /\ k.off + k.len <= c.ulen
       /\ y.len \in Nat \ {0} /\ y.n \in Nat /\ k.off \in Nat
       /\ Bytes(c.data, k.off, k.len) = Own(y.n, y.len)
       /\ query.costAware /\ ~file[g].compressed => FileBytes(Loaded(c.off + k.off)) = Own(y.n, y.len)
  <2> HIDE DEF g, i, m
  <2> QED BY <1>2, <1>7, <1>8, KeptIsOwn
<1>11. iters'[x.iter] = j /\ j.group = g BY <1>1, BecomesFacts DEF Becomes
<1>12. FileBytes(Loaded(x.off))' = FileBytes(Loaded(x.off))
  <2>1. \A o : Loaded(o)' = Loaded(o) BY <1>2 DEF Loaded
  <2>2. \A r : FileBytes(r)' = FileBytes(r) BY <1>2 DEF FileBytes
  <2> QED BY <2>1, <2>2
<1>13. Buffered(iters[x.iter], x.off, x.len)' = Buffered(j, x.off, x.len) BY <1>2, <1>11 DEF Buffered
<1>14. Payload(x)' = IF query.costAware /\ ~file[g].compressed THEN FileBytes(Loaded(x.off)) ELSE Buffered(j, x.off, x.len)
  BY <1>2, <1>11, <1>12, <1>13 DEF Payload
<1>15. it.kept[it.cur] = k BY <1>7
<1> DEFINE own == Own(y.n, y.len)
<1>16. query.costAware => Serving(it) = it.next /\ i = it.chunks[it.next] BY DEF Serving
<1>17. ~query.costAware => it.buf = i BY <1>4, <1>5 DEF HasData
<1>18. /\ j.buf = IF query.costAware /\ file[g].compressed THEN it.chunks[it.next] ELSE it.buf
       /\ x.off = IF query.costAware /\ ~file[g].compressed THEN file[g].chunks[it.chunks[it.next]].off + k.off ELSE k.off
       /\ x.len = k.len
       /\ sdk # "go" =>
            x.bytes = IF ~query.costAware THEN Slice(k)
                      ELSE IF file[g].compressed THEN Bytes(file[g].chunks[it.chunks[it.next]].data, k.off, k.len)
                      ELSE FileBytes(Loaded(file[g].chunks[it.chunks[it.next]].off + k.off))
  <2> HIDE DEF k
  <2> QED BY <1>1, <1>15 DEF Carries
<1>19. c.ulen \in Int BY <1>2, <1>7, FileFacts, ChunkTypes
<1> HIDE DEF k, y, i, m
<1>20. query.costAware => it.chunks[it.next] = i BY <1>16
<1> HIDE DEF g
<1>21. CASE query.costAware /\ file[g].compressed
  <2>1. j.buf = i /\ x.off = k.off /\ x.len = k.len /\ (sdk # "go" => x.bytes = Bytes(c.data, k.off, k.len))
    BY <1>18, <1>20, <1>21
  <2>2. Buffered(j, x.off, x.len) = own BY <1>9, <1>10, <1>11, <2>1 DEF Buffered
  <2>3. Payload(x)' = own BY <1>14, <1>21, <2>2
  <2> QED BY <1>10, <2>1, <2>3, <1>1, <1>2, <1>6, <1>7, <1>15 DEF Carried, Promise, Record, y, g, i, m
<1>22. CASE query.costAware /\ ~file[g].compressed
  <2>1. x.off = c.off + k.off /\ (sdk # "go" => x.bytes = FileBytes(Loaded(c.off + k.off)))
    BY <1>18, <1>20, <1>22
  <2>2. FileBytes(Loaded(x.off)) = own BY <1>10, <1>22, <2>1
  <2>3. Payload(x)' = own BY <1>14, <1>22, <2>2
  <2> QED BY <1>10, <2>1, <2>2, <2>3, <1>1, <1>2, <1>6, <1>7, <1>15 DEF Carried, Promise, Record, y, g, i, m
<1>23. CASE ~query.costAware
  <2>1. j.buf = i /\ it.buf = i /\ x.off = k.off /\ x.len = k.len /\ (sdk # "go" => x.bytes = Slice(k))
    BY <1>17, <1>18, <1>23
  <2>2. Buffered(j, x.off, x.len) = own BY <1>9, <1>10, <1>11, <2>1 DEF Buffered
  <2>3. Payload(x)' = own BY <1>14, <1>23, <2>2
  <2>4. Slice(k) = own
    <3> DEFINE rest == IF k.off < c.ulen THEN c.ulen - k.off ELSE 0
    <3>1. (IF k.len < rest THEN k.len ELSE rest) = k.len BY <1>10, <1>19
    <3>2. Slice(k) = Bytes(c.data, k.off, IF k.len < rest THEN k.len ELSE rest) BY <2>1 DEF Slice, g
    <3> QED BY <1>10, <3>1, <3>2
  <2> QED BY <1>10, <2>1, <2>3, <2>4, <1>1, <1>2, <1>6, <1>7, <1>15 DEF Carried, Promise, Record, y, g, i, m
<1> QED BY <1>21, <1>22, <1>23

(* The order in which places are visited. *)
LEMMA SoonerFacts ==
  ASSUME query \in Queries, NEW a \in Int, NEW b \in Int
  PROVE  /\ Sooner(a, b) \/ a = b \/ Sooner(b, a)
         /\ ~Sooner(a, a) /\ ~(Sooner(a, b) /\ Sooner(b, a)) /\ (Sooner(a, b) => a # b)
         /\ \A d \in Int : Sooner(a, b) /\ Sooner(b, d) => Sooner(a, d)
         /\ Sooner(a, b + Step) <=> Sooner(a, b) \/ a = b
<1>1. query.reverse \in BOOLEAN BY QueryTypes
<1>2. CASE query.reverse BY <1>2 DEF Sooner, Step
<1>3. CASE ~query.reverse BY <1>3 DEF Sooner, Step
<1> QED BY <1>1, <1>2, <1>3

(* Places are numbers. *)
LEMMA ServingType ==
  ASSUME file \in Files, NEW i, IterOK(i)
  PROVE  /\ Serving(i) \in Int /\ DOMAIN i.chunks \subseteq Int /\ i.group \in DOMAIN file
         /\ \A p \in DOMAIN i.chunks : DOMAIN Kept(i.group, i.chunks[p]) \subseteq Int
<1>1. i.next \in Int /\ i.group \in DOMAIN file BY DEF IterOK
<1>2. Serving(i) \in Int BY <1>1, StepType DEF Serving
<1>3. DOMAIN i.chunks \subseteq Int BY KeptTypes
<1>4. \A p \in DOMAIN i.chunks : Kept(i.group, i.chunks[p]) \in Seq(KeptMessage) BY KeptSeq
<1>5. \A s \in Seq(KeptMessage) : DOMAIN s \subseteq Int OBVIOUS
<1> QED BY <1>1, <1>2, <1>3, <1>4, <1>5

(* The message under the cursor is given next. *)
LEMMA GivenMore ==
  ASSUME file \in Files, query \in Queries, NEW i, IterOK(i), KeptAt(i, Serving(i)), NEW cur \in DOMAIN i.kept,
         NEW j, j.group = i.group, j.chunks = i.chunks, Serving(j) = Serving(i), NEW e
  PROVE  IsGiven(e, j, cur + Step) <=> IsGiven(e, i, cur) \/ e = Promise(i.group, i.chunks[Serving(i)], cur)
<1> DEFINE s == Serving(i)
           AtCursor(p, m) == p = s /\ m = cur
           Before(p, m) == Sooner(p, s) \/ (p = s /\ Sooner(m, cur))
           After(p, m) == Sooner(p, s) \/ (p = s /\ Sooner(m, cur + Step))
<1>1. s \in DOMAIN i.chunks /\ i.kept = Kept(i.group, i.chunks[s]) BY DEF KeptAt
<1>2. cur \in DOMAIN Kept(i.group, i.chunks[s]) BY <1>1
<1>3. cur \in Int BY <1>1, <1>2, ServingType
<1>4. \A p \in DOMAIN i.chunks : \A m \in DOMAIN Kept(i.group, i.chunks[p]) : After(p, m) <=> Before(p, m) \/ AtCursor(p, m)
  <2> TAKE p \in DOMAIN i.chunks
  <2> TAKE m \in DOMAIN Kept(i.group, i.chunks[p])
  <2>1. m \in Int BY ServingType
  <2>2. Sooner(m, cur + Step) <=> Sooner(m, cur) \/ m = cur BY <1>3, <2>1, SoonerFacts
  <2> QED BY <2>2
<1>5. IsGiven(e, i, cur) <=> \E p \in DOMAIN i.chunks : \E m \in DOMAIN Kept(i.group, i.chunks[p]) :
                               Before(p, m) /\ e = Promise(i.group, i.chunks[p], m)
  BY DEF IsGiven
<1>6. IsGiven(e, j, cur + Step) <=> \E p \in DOMAIN i.chunks : \E m \in DOMAIN Kept(i.group, i.chunks[p]) :
                               After(p, m) /\ e = Promise(i.group, i.chunks[p], m)
  BY DEF IsGiven
<1>7. e = Promise(i.group, i.chunks[s], cur) <=>
        \E p \in DOMAIN i.chunks : \E m \in DOMAIN Kept(i.group, i.chunks[p]) : AtCursor(p, m) /\ e = Promise(i.group, i.chunks[p], m)
  BY <1>1, <1>2
<1> HIDE DEF AtCursor, Before, After
<1> QED BY <1>4, <1>5, <1>6, <1>7 DEF s

(* The next chunk is served when all of this one is given. *)
LEMMA GivenChunk ==
  ASSUME file \in Files, query \in Queries, NEW i, IterOK(i), NEW cur \in 0 .. Len(i.kept) + 1, Course(i, cur), cur \notin DOMAIN i.kept,
         NEW j, IterOK(j), j.group = i.group, j.chunks = i.chunks, Serving(j) = Serving(i) + Step, Course(j, First(j.kept)),
         NEW e
  PROVE  IsGiven(e, j, First(j.kept)) <=> IsGiven(e, i, cur)
<1> DEFINE s == Serving(i)
           Before(p, m) == Sooner(p, s) \/ (p = s /\ Sooner(m, cur))
           After(p, m) == Sooner(p, s + Step) \/ (p = s + Step /\ Sooner(m, First(j.kept)))
<1>1. s \in Int /\ i.kept \in Seq(KeptMessage) /\ j.kept \in Seq(KeptMessage) /\ query.reverse \in BOOLEAN
  BY ServingType, KeptTypes, QueryTypes
<1>2. ASSUME NEW p \in DOMAIN i.chunks, NEW m \in DOMAIN Kept(i.group, i.chunks[p]) PROVE After(p, m) <=> Before(p, m)
  <2>1. p \in Int /\ m \in Int BY ServingType
  <2>2. Sooner(p, s + Step) <=> Sooner(p, s) \/ p = s BY <1>1, <2>1, SoonerFacts
  <2>3. p = s => Sooner(m, cur)
    <3> SUFFICES ASSUME p = s PROVE Sooner(m, cur) OBVIOUS
    <3>1. i.kept = Kept(i.group, i.chunks[p]) BY DEF Course, KeptAt
    <3>2. m \in DOMAIN i.kept BY <3>1
    <3>3. m \in 1 .. Len(i.kept) /\ Len(i.kept) \in Nat /\ i.kept # <<>> /\ DOMAIN i.kept = 1 .. Len(i.kept) BY <1>1, <3>2
    <3>4. IF query.reverse THEN cur <= Len(i.kept) ELSE 1 <= cur BY <3>3 DEF Course
    <3> QED BY <1>1, <3>3, <3>4 DEF Sooner
  <2>4. ~(p = s + Step /\ Sooner(m, First(j.kept)))
    <3> SUFFICES ASSUME p = s + Step PROVE ~Sooner(m, First(j.kept)) OBVIOUS
    <3>1. j.kept = Kept(i.group, i.chunks[p]) BY DEF Course, KeptAt
    <3>2. m \in DOMAIN j.kept BY <3>1
    <3>3. m \in 1 .. Len(j.kept) /\ Len(j.kept) \in Nat BY <1>1, <3>2
    <3> QED BY <1>1, <3>3 DEF Sooner, First
  <2> QED BY <2>2, <2>3, <2>4
<1>3. IsGiven(e, i, cur) <=> \E p \in DOMAIN i.chunks : \E m \in DOMAIN Kept(i.group, i.chunks[p]) :
                               Before(p, m) /\ e = Promise(i.group, i.chunks[p], m)
  BY DEF IsGiven
<1>4. IsGiven(e, j, First(j.kept)) <=> \E p \in DOMAIN i.chunks : \E m \in DOMAIN Kept(i.group, i.chunks[p]) :
                               After(p, m) /\ e = Promise(i.group, i.chunks[p], m)
  BY DEF IsGiven
<1> HIDE DEF Before, After
<1> QED BY <1>2, <1>3, <1>4

(* At first nothing is given, and in the end everything. *)
LEMMA GivenNone ==
  ASSUME file \in Files, query \in Queries, NEW i, IterOK(i), i.next = First(i.chunks),
         query.costAware => KeptAt(i, i.next) /\ i.cur = First(i.kept), NEW e
  PROVE  ~IsGiven(e, i, i.cur)
<1> SUFFICES ASSUME NEW p \in DOMAIN i.chunks, NEW m \in DOMAIN Kept(i.group, i.chunks[p]),
                    Sooner(p, Serving(i)) \/ (p = Serving(i) /\ Sooner(m, i.cur))
             PROVE  FALSE
  BY DEF IsGiven
<1>1. i.chunks \in Seq(DOMAIN file[i.group].chunks) /\ query.reverse \in BOOLEAN /\ i.kept \in Seq(KeptMessage)
  BY KeptTypes, QueryTypes DEF IterOK
<1>2. p \in 1 .. Len(i.chunks) /\ Len(i.chunks) \in Nat BY <1>1
<1>3. CASE query.costAware
  <2>1. Serving(i) = First(i.chunks) BY <1>3 DEF Serving
  <2>2. ~Sooner(p, First(i.chunks)) BY <1>1, <1>2 DEF Sooner, First
  <2>3. p = First(i.chunks) /\ Sooner(m, First(i.kept)) BY <1>3, <2>1, <2>2
  <2>4. m \in DOMAIN i.kept BY <1>3, <2>3 DEF KeptAt
  <2>5. m \in 1 .. Len(i.kept) /\ Len(i.kept) \in Nat BY <1>1, <2>4
  <2> QED BY <1>1, <2>3, <2>5 DEF Sooner, First
<1>4. CASE ~query.costAware
  <2>1. Serving(i) = First(i.chunks) - Step BY <1>4 DEF Serving
  <2> QED BY <1>1, <1>2, <2>1 DEF Sooner, First, Step
<1> QED BY <1>3, <1>4

(* An iterator at the end of its last chunk has given everything. *)
LEMMA GivenAll ==
  ASSUME file \in Files, query \in Queries, NEW i, IterOK(i), NEW cur \in 0 .. Len(i.kept) + 1, Course(i, cur), cur \notin DOMAIN i.kept,
         i.next \notin DOMAIN i.chunks, NEW p \in DOMAIN i.chunks, NEW m \in DOMAIN Kept(i.group, i.chunks[p])
  PROVE  IsGiven(Promise(i.group, i.chunks[p], m), i, cur)
<1>1. i.chunks \in Seq(DOMAIN file[i.group].chunks) /\ query.reverse \in BOOLEAN /\ i.kept \in Seq(KeptMessage)
      /\ i.next \in 0 .. Len(i.chunks) + 1
  BY KeptTypes, QueryTypes DEF IterOK
<1>2. p \in 1 .. Len(i.chunks) /\ Len(i.chunks) \in Nat /\ DOMAIN i.chunks = 1 .. Len(i.chunks) BY <1>1
<1>3. IF query.reverse THEN i.next <= Len(i.chunks) ELSE 1 <= i.next BY DEF Course
<1>4. Sooner(p, i.next) BY <1>1, <1>2, <1>3 DEF Sooner
<1>5. Sooner(p, Serving(i)) \/ p = Serving(i)
  <2>1. CASE query.costAware BY <1>4, <2>1 DEF Serving
  <2>2. CASE ~query.costAware BY <1>1, <1>2, <1>3, <1>4, <2>2 DEF Serving, Sooner, Step
  <2> QED BY <2>1, <2>2
<1>6. ASSUME p = Serving(i) PROVE Sooner(m, cur)
  <2>1. i.kept = Kept(i.group, i.chunks[p]) BY <1>6 DEF Course, KeptAt
  <2>2. m \in DOMAIN i.kept BY <2>1
  <2>3. m \in 1 .. Len(i.kept) /\ Len(i.kept) \in Nat /\ i.kept # <<>> /\ DOMAIN i.kept = 1 .. Len(i.kept) BY <1>1, <2>2
  <2>4. IF query.reverse THEN cur <= Len(i.kept) ELSE 1 <= cur BY <2>3 DEF Course
  <2> QED BY <1>1, <2>3, <2>4 DEF Sooner
<1> QED BY <1>5, <1>6 DEF IsGiven

(* What is given has a rank, in the order in which it is given. *)
LEMMA GivenRank ==
  ASSUME file \in Files, query \in Queries, NoEmptyMessages, NEW i, IterOK(i), i.chunks = Listed(i.group),
         NEW e, NEW cur, IsGiven(e, i, cur)
  PROVE  /\ Rank(e) \in Int /\ e.id \in file[i.group].ids
         /\ \A p \in DOMAIN i.chunks : \A m \in DOMAIN Kept(i.group, i.chunks[p]) : p = Serving(i) /\ m = cur =>
              Rank(e) < Rank(Promise(i.group, i.chunks[p], m))
<1>0. PICK r \in DOMAIN i.chunks : \E n \in DOMAIN Kept(i.group, i.chunks[r]) :
        /\ Sooner(r, Serving(i)) \/ (r = Serving(i) /\ Sooner(n, cur))
        /\ e = Promise(i.group, i.chunks[r], n)
  BY DEF IsGiven
<1>1. PICK n \in DOMAIN Kept(i.group, i.chunks[r]) :
        /\ Sooner(r, Serving(i)) \/ (r = Serving(i) /\ Sooner(n, cur))
        /\ e = Promise(i.group, i.chunks[r], n)
  BY <1>0
<1>2. i.group \in DOMAIN file /\ i.chunks[r] \in ToSet(Listed(i.group)) BY ServingType DEF ToSet
<1>3. Rank(e) \in Int /\ e.id \in file[i.group].ids BY <1>1, <1>2, PromiseFacts
<1>4. ASSUME NEW p \in DOMAIN i.chunks, NEW m \in DOMAIN Kept(i.group, i.chunks[p]), p = Serving(i), m = cur
      PROVE  Rank(e) < Rank(Promise(i.group, i.chunks[p], m))
  BY <1>1, <1>2, <1>4, RankMono
<1> QED BY <1>3, <1>4

(* The order of what a group promises is the order of the ranks. *)
LEMMA RankOrder ==
  ASSUME file \in Files, query \in Queries, NoEmptyMessages, NEW i, IterOK(i), i.chunks = Listed(i.group),
         NEW p \in DOMAIN i.chunks, NEW m \in DOMAIN Kept(i.group, i.chunks[p]),
         NEW r \in DOMAIN i.chunks, NEW n \in DOMAIN Kept(i.group, i.chunks[r])
  PROVE  LET a == Rank(Promise(i.group, i.chunks[p], m))
             b == Rank(Promise(i.group, i.chunks[r], n))
         IN  /\ a \in Int /\ b \in Int
             /\ a = b => p = r /\ m = n
             /\ a < b <=> Sooner(p, r) \/ (p = r /\ Sooner(m, n))
<1> DEFINE a == Rank(Promise(i.group, i.chunks[p], m))
           b == Rank(Promise(i.group, i.chunks[r], n))
<1>1. i.group \in DOMAIN file /\ i.chunks[p] \in ToSet(Listed(i.group)) /\ i.chunks[r] \in ToSet(Listed(i.group))
  BY ServingType DEF ToSet
<1>2. a \in Int /\ b \in Int BY <1>1, PromiseFacts
<1>3. p \in Int /\ r \in Int /\ m \in Int /\ n \in Int BY ServingType
<1>4. Sooner(p, r) \/ (p = r /\ Sooner(m, n)) => a < b BY <1>1, RankMono
<1>5. Sooner(r, p) \/ (r = p /\ Sooner(n, m)) => b < a BY <1>1, RankMono
<1>6. (Sooner(p, r) \/ p = r \/ Sooner(r, p)) /\ (Sooner(m, n) \/ m = n \/ Sooner(n, m)) BY <1>3, SoonerFacts
<1>9. p = r /\ m = n => a = b OBVIOUS
<1> HIDE DEF a, b
<1>7. a = b => p = r /\ m = n BY <1>2, <1>4, <1>5, <1>6
<1>8. a < b => Sooner(p, r) \/ (p = r /\ Sooner(m, n)) BY <1>2, <1>5, <1>6, <1>9
<1> QED BY <1>2, <1>4, <1>7, <1>8 DEF a, b

(* With a message everything of a lower rank is given. *)
LEMMA GivenSooner ==
  ASSUME file \in Files, query \in Queries, NoEmptyMessages, NEW i, IterOK(i), i.chunks = Listed(i.group),
         NEW e, NEW cur \in Int, IsGiven(e, i, cur),
         NEW p \in DOMAIN i.chunks, NEW m \in DOMAIN Kept(i.group, i.chunks[p]),
         Rank(Promise(i.group, i.chunks[p], m)) < Rank(e)
  PROVE  IsGiven(Promise(i.group, i.chunks[p], m), i, cur)
<1>0. PICK r \in DOMAIN i.chunks : \E n \in DOMAIN Kept(i.group, i.chunks[r]) :
        /\ Sooner(r, Serving(i)) \/ (r = Serving(i) /\ Sooner(n, cur))
        /\ e = Promise(i.group, i.chunks[r], n)
  BY DEF IsGiven
<1>1. PICK n \in DOMAIN Kept(i.group, i.chunks[r]) :
        /\ Sooner(r, Serving(i)) \/ (r = Serving(i) /\ Sooner(n, cur))
        /\ e = Promise(i.group, i.chunks[r], n)
  BY <1>0
<1>2. Sooner(p, r) \/ (p = r /\ Sooner(m, n)) BY <1>1, RankOrder
<1>3. p \in Int /\ r \in Int /\ m \in Int /\ n \in Int /\ Serving(i) \in Int BY ServingType
<1>4. /\ Sooner(p, r) /\ Sooner(r, Serving(i)) => Sooner(p, Serving(i))
      /\ Sooner(m, n) /\ Sooner(n, cur) => Sooner(m, cur)
  BY <1>3, SoonerFacts
<1>5. Sooner(p, Serving(i)) \/ (p = Serving(i) /\ Sooner(m, cur)) BY <1>1, <1>2, <1>4
<1> QED BY <1>5 DEF IsGiven
-----------------------------------------------------------------------------
(* What a group has given was popped, or is in the heap. *)

Took(e, k) == e \in ToSet(Taken) /\ e.id \in file[iters[k].group].ids
InHeap(e, k) == \E y \in ToSet(heap) : y.iter = k /\ e = Carried(y)

(* The messages of some topics have rising ranks. *)
Rising(s, ids) == \A a, b \in DOMAIN s : a < b /\ s[a].id \in ids /\ s[b].id \in ids => Rank(s[a]) < Rank(s[b])

(* What was popped or is in the heap of a group is what its iterator has   *)
(* given, and all that was popped was popped in the order of the ranks.    *)
Gives(k) ==
  /\ \A e : Took(e, k) \/ InHeap(e, k) <=> IsGiven(e, iters[k], Cursor(k))
  /\ \A e, f : Took(e, k) /\ InHeap(f, k) => Rank(e) < Rank(f)
  /\ Rising(Taken, file[iters[k].group].ids)

GivenInv ==
  /\ IsSeq(Taken)
  /\ \A e \in ToSet(Taken) : \E k \in DOMAIN iters : Took(e, k)
  /\ \A k \in DOMAIN iters : Gives(k)

(* What is taken last. *)
LEMMA AppendFacts ==
  ASSUME NEW s, IsSeq(s), NEW c
  PROVE  /\ IsSeq(Append(s, c)) /\ ToSet(Append(s, c)) = ToSet(s) \cup {c}
         /\ \A ids : c.id \notin ids /\ Rising(s, ids) => Rising(Append(s, c), ids)
         /\ \A ids : Rising(s, ids) /\ (\A e \in ToSet(s) : e.id \in ids => Rank(e) < Rank(c)) => Rising(Append(s, c), ids)
<1> DEFINE T == {s[k] : k \in DOMAIN s}
           g == Append(s, c)
           n == Len(s)
<1>1. s \in Seq(T) BY DEF IsSeq
<1> HIDE DEF T
<1>2. /\ DOMAIN g = 1 .. n + 1 /\ n \in Nat /\ DOMAIN s = 1 .. n
      /\ g[n + 1] = c /\ \A k \in 1 .. n : g[k] = s[k]
  BY <1>1
<1>3. IsSeq(g) BY AppendGrows DEF Grows
<1> HIDE DEF g, n
<1>4. \A k \in 1 .. n + 1 : k \in 1 .. n \/ k = n + 1 BY <1>2
<1>5. n + 1 \in 1 .. n + 1 /\ \A k \in 1 .. n : k \in 1 .. n + 1 BY <1>2
<1>6. ToSet(g) = ToSet(s) \cup {c} BY <1>2, <1>4, <1>5 DEF ToSet
<1>7. \A a, b \in 1 .. n + 1 : a < b => a \in 1 .. n BY <1>2
<1>8. ASSUME NEW ids, Rising(s, ids), c.id \notin ids \/ \A e \in ToSet(s) : e.id \in ids => Rank(e) < Rank(c)
      PROVE  Rising(g, ids)
  <2> SUFFICES ASSUME NEW a \in 1 .. n + 1, NEW b \in 1 .. n + 1, a < b, g[a].id \in ids, g[b].id \in ids
               PROVE  Rank(g[a]) < Rank(g[b])
    BY <1>2 DEF Rising
  <2>1. a \in 1 .. n /\ g[a] = s[a] /\ s[a] \in ToSet(s) BY <1>2, <1>7 DEF ToSet
  <2>2. CASE b \in 1 .. n BY <1>2, <1>8, <2>1, <2>2 DEF Rising
  <2>3. CASE b = n + 1
    <3>1. g[b] = c BY <1>2, <2>3
    <3> QED BY <1>8, <2>1, <3>1
  <2> QED BY <1>4, <2>2, <2>3
<1> QED BY <1>3, <1>6, <1>8 DEF g

(* Nothing changes for a group. *)
LEMMA GivesSame ==
  ASSUME UNCHANGED <<file, query>>, NEW k, Gives(k), iters'[k].group = iters[k].group, IsSeq(Taken),
         Taken' = Taken \/ \E c : Taken' = Append(Taken, c) /\ c.id \notin file[iters[k].group].ids,
         \A e : InHeap(e, k)' <=> InHeap(e, k),
         \A e : IsGiven(e, iters[k], Cursor(k))' <=> IsGiven(e, iters[k], Cursor(k))
  PROVE  Gives(k)'
<1> DEFINE ids == file[iters[k].group].ids
<1>1. (\A e : Rank(e)' = Rank(e)) /\ (ids)' = ids BY PromiseFrame
<1>2. \A e : Took(e, k)' <=> e \in ToSet(Taken') /\ e.id \in ids BY <1>1 DEF Took, ToSet
<1>3. \A e : Took(e, k) <=> e \in ToSet(Taken) /\ e.id \in ids BY DEF Took
<1>4. Rising(Taken, file[iters[k].group].ids)' <=> Rising(Taken', ids) BY <1>1 DEF Rising
<1> HIDE DEF ids
<1>5. (\A e : Took(e, k)' <=> Took(e, k)) /\ Rising(Taken', ids)
  <2>1. Rising(Taken, ids) BY DEF Gives, ids
  <2>2. CASE Taken' = Taken BY <1>2, <1>3, <2>1, <2>2
  <2>3. ASSUME NEW c, Taken' = Append(Taken, c), c.id \notin ids
        PROVE  (\A e : Took(e, k)' <=> Took(e, k)) /\ Rising(Taken', ids)
    <3>1. ToSet(Taken') = ToSet(Taken) \cup {c} /\ Rising(Taken', ids) BY <2>1, <2>3, AppendFacts
    <3> QED BY <1>2, <1>3, <2>3, <3>1
  <2> QED BY <2>2, <2>3 DEF ids
<1>6. \A e : (Took(e, k) \/ InHeap(e, k))' <=> IsGiven(e, iters[k], Cursor(k))' BY <1>5 DEF Gives
<1>7. \A e, f : Took(e, k)' /\ InHeap(f, k)' => Rank(e)' < Rank(f)' BY <1>1, <1>5 DEF Gives
<1> QED BY <1>4, <1>5, <1>6, <1>7 DEF Gives

(* The group that is asked has no item. *)
LEMMA NoItemOfPulled ==
  ASSUME TypeInv, HeapInv, ItemInv, pc \in {"pull", "chunk"}
  PROVE  \A y \in ToSet(heap) : y.iter # pulled /\ y.iter \in DOMAIN iters
<1> SUFFICES ASSUME NEW h \in DOMAIN heap PROVE heap[h].iter # pulled /\ heap[h].iter \in DOMAIN iters BY DEF ToSet
<1>1. heap[h].iter \in DOMAIN iters /\ DOMAIN iters \subseteq Int
  <2>1. iters \in Seq(IterType) BY DEF TypeInv, ItersOK
  <2> QED BY <2>1 DEF HeapInv
<1>2. CASE loaded
  <2>1. Held BY <1>2 DEF Held
  <2>2. popped.item.iter = pulled /\ ~HasItem(popped.item.iter) BY <2>1 DEF ItemInv
  <2> QED BY <1>1, <2>2 DEF HasItem
<1>3. CASE ~loaded
  <2>1. heap[h].iter < pulled BY <1>3 DEF ItemInv
  <2> QED BY <1>1, <2>1
<1> QED BY <1>2, <1>3 DEF TypeInv

(* What was taken keeps its iterator. *)
LEMMA TopicsStay ==
  ASSUME TypeInv, Moves, GivenInv, Taken' = Taken
  PROVE  IsSeq(Taken') /\ (\A e \in ToSet(Taken) : \E k \in DOMAIN iters : Took(e, k))'
<1>1. file' = file BY DEF Moves
<1>2. \A k \in DOMAIN iters : k \in DOMAIN iters' /\ iters'[k].group = iters[k].group BY GroupsStay
<1>3. ASSUME NEW e, NEW k \in DOMAIN iters, Took(e, k) PROVE Took(e, k)' BY <1>1, <1>2, <1>3 DEF Took, ToSet
<1>4. ToSet(Taken)' = ToSet(Taken) BY DEF ToSet
<1> QED BY <1>2, <1>3, <1>4 DEF GivenInv

(* One iterator changes, and the heap does not. *)
LEMMA GivesBecomes ==
  ASSUME TypeInv, HeapInv, ItemInv, GivenInv, UNCHANGED <<file, query, sdk, ranges>>, Taken' = Taken,
         pc \in {"pull", "chunk"}, NEW j \in IterType, Becomes(j), pc' = "chunk" => pulled' = pulled,
         NEW k \in DOMAIN iters,
         k # pulled \/ (heap' = heap /\ \A e : IsGiven(e, iters[k], Cursor(k))' <=> IsGiven(e, iters[k], Cursor(k))),
         heap' = heap \/ \E x : Grows(heap, heap', x) /\ x.iter = pulled
  PROVE  Gives(k)'
<1>1. /\ iters'[k].group = iters[k].group /\ (k # pulled => iters'[k] = iters[k])
      /\ \A l \in DOMAIN iters : l # pulled => iters'[l] = iters[l]
  BY BecomesFacts
<1>2. \A y \in ToSet(heap) : y.iter # pulled /\ y.iter \in DOMAIN iters BY NoItemOfPulled
<1>3. \A y \in ToSet(heap) : Carried(y)' = Carried(y) BY <1>1, <1>2, CarriedFrame
<1>4. ASSUME NEW y, y.iter = k PROVE y \in ToSet(heap)' <=> y \in ToSet(heap)
  <2>1. CASE heap' = heap BY <2>1 DEF ToSet
  <2>2. CASE k # pulled /\ \E x : Grows(heap, heap', x) /\ x.iter = pulled BY <1>4, <2>2 DEF ToSet, Grows
  <2> QED BY <2>1, <2>2
<1>5. \A e : InHeap(e, k)' <=> InHeap(e, k) BY <1>3, <1>4 DEF InHeap
<1>6. \A e : IsGiven(e, iters[k], Cursor(k))' <=> IsGiven(e, iters[k], Cursor(k))
  <2> SUFFICES ASSUME k # pulled PROVE \A e : IsGiven(e, iters[k], Cursor(k))' <=> IsGiven(e, iters[k], Cursor(k)) OBVIOUS
  <2>1. Cursor(k)' = Cursor(k) BY <1>1 DEF Cursor
  <2>2. \A e : IsGiven(e, iters[k], Cursor(k))' <=> IsGiven(e, iters'[k], Cursor(k)') BY PromiseFrame
  <2> QED BY <1>1, <2>1, <2>2
<1>7. Gives(k) /\ IsSeq(Taken) BY DEF GivenInv
<1> QED BY <1>1, <1>5, <1>6, <1>7, GivesSame

(* GivenInv is preserved: a pop, *)
LEMMA GivenPop ==
  ASSUME TypeInv, HeapInv, ItemInv, GivenInv, Moves, NEW p \in DOMAIN heap, ToPop(p),
         Taken' = Append(Taken, Carried(heap[p]))
  PROVE  GivenInv'
<1> DEFINE y == heap[p]
           c == Carried(y)
           l == y.iter
<1>1. /\ UNCHANGED <<file, query, sdk, ranges, iters>> /\ pc = "pop" /\ pc' # "chunk"
      /\ Drops(heap, heap', p)
  BY DEF ToPop, Moves, ToPlan
<1>2. l \in DOMAIN iters /\ c.id \in file[iters[l].group].ids BY DEF HeapInv, Carried
<1>3. \A z : Carried(z)' = Carried(z) BY <1>1, CarriedFrame
<1>4. \A i, k \in DOMAIN heap : heap[i].iter = heap[k].iter => i = k BY DEF ItemInv
<1>5. /\ \A z \in ToSet(heap) : z.iter = l => z = y
      /\ \A z \in ToSet(heap)' : z \in ToSet(heap) /\ z.iter # l
      /\ \A z \in ToSet(heap) : z.iter # l => z \in ToSet(heap)'
      /\ y \in ToSet(heap)
  BY <1>1, <1>4 DEF Drops, ToSet
<1>6. IsSeq(Taken) /\ \A k \in DOMAIN iters : Gives(k) BY DEF GivenInv
<1>7. Taken' = Append(Taken, c) OBVIOUS
<1> HIDE DEF y, c, l
<1>8. IsSeq(Taken') /\ ToSet(Taken') = ToSet(Taken) \cup {c} BY <1>6, <1>7, AppendFacts
<1>9. \A e, k : Took(e, k)' <=> e \in ToSet(Taken') /\ e.id \in file[iters[k].group].ids BY <1>1 DEF Took, ToSet
<1>10. \A e, k : IsGiven(e, iters[k], Cursor(k))' <=> IsGiven(e, iters[k], Cursor(k))
  <2> TAKE e, k
  <2>1. Cursor(k)' = Cursor(k) BY <1>1 DEF Cursor
  <2>2. IsGiven(e, iters[k], Cursor(k))' <=> IsGiven(e, iters'[k], Cursor(k)') BY <1>1, PromiseFrame
  <2> QED BY <1>1, <2>1, <2>2
<1>11. ASSUME NEW k \in DOMAIN iters, k # l PROVE Gives(k)'
  <2>1. c.id \notin file[iters[k].group].ids BY <1>2, <1>11, OwnTopics
  <2>2. \A e : InHeap(e, k)' <=> InHeap(e, k) BY <1>3, <1>5, <1>11 DEF InHeap
  <2> QED BY <1>1, <1>6, <1>7, <1>10, <2>1, <2>2, GivesSame
<1>12. ASSUME NEW k \in DOMAIN iters, k = l PROVE Gives(k)' /\ \A e : e = c => Took(e, k)'
  <2> DEFINE ids == file[iters[k].group].ids
  <2>1. \A e : InHeap(e, k) <=> e = c BY <1>5, <1>12 DEF InHeap, c, l
  <2>2. \A e : ~InHeap(e, k)' BY <1>5, <1>12 DEF InHeap
  <2>3. \A e : Took(e, k)' <=> Took(e, k) \/ e = c BY <1>2, <1>8, <1>9, <1>12 DEF Took
  <2>4. \A e : (Took(e, k) \/ InHeap(e, k))' <=> IsGiven(e, iters[k], Cursor(k))'
    BY <1>6, <1>10, <2>1, <2>2, <2>3 DEF Gives
  <2>5. Rising(Taken, ids) /\ \A e, f : Took(e, k) /\ InHeap(f, k) => Rank(e) < Rank(f) BY <1>6 DEF Gives
  <2>6. \A e \in ToSet(Taken) : e.id \in ids => Rank(e) < Rank(c) BY <2>1, <2>5 DEF Took
  <2> HIDE DEF ids
  <2>7. Rising(Taken', ids) BY <1>6, <1>7, <2>5, <2>6, AppendFacts
  <2>8. \A e : Rank(e)' = Rank(e) BY <1>1, PromiseFrame
  <2>9. Rising(Taken, file[iters[k].group].ids)' BY <1>1, <2>7, <2>8 DEF Rising, ids
  <2> QED BY <2>2, <2>3, <2>4, <2>9 DEF Gives
<1>13. \A k \in DOMAIN iters' : Gives(k)' BY <1>1, <1>11, <1>12
<1>14. ASSUME NEW e \in ToSet(Taken') PROVE \E k \in DOMAIN iters' : Took(e, k)'
  <2>1. CASE e = c BY <1>1, <1>2, <1>12, <2>1
  <2>2. ASSUME e \in ToSet(Taken) PROVE \E k \in DOMAIN iters' : Took(e, k)'
    <3>1. PICK k \in DOMAIN iters : Took(e, k) BY <2>2 DEF GivenInv
    <3>2. Took(e, k)' BY <1>8, <1>9, <3>1 DEF Took
    <3> QED BY <1>1, <3>1, <3>2
  <2> QED BY <1>8, <2>1, <2>2
<1>15. (\A e \in ToSet(Taken) : \E k \in DOMAIN iters : Took(e, k))' BY <1>14 DEF ToSet
<1> QED BY <1>8, <1>13, <1>15 DEF GivenInv

(* a message that goes into the heap, *)
LEMMA GivenMessage ==
  ASSUME TypeInv, HeapInv, PhaseInv, ItemInv, CourseInv, GivenInv, NoEmptyMessages, Moves,
         NEW j \in IterType, NEW x, ToMessage(j, x), Taken' = Taken
  PROVE  GivenInv'
<1>1. /\ pc = "pull" /\ it.cur \in DOMAIN it.kept /\ Becomes(j) /\ j.next = it.next /\ j.kept = it.kept /\ j.cur = it.cur + Step
      /\ x.iter = pulled /\ Grows(heap, heap', x)
  BY DEF ToMessage
<1>2. UNCHANGED <<file, query, sdk, ranges>> /\ file \in Files /\ query \in Queries BY <1>1 DEF Moves, ToPlan, TypeInv
<1>3. pc' # "chunk"
  <2>1. PortAnswered BY DEF ToMessage
  <2> QED BY <1>1, <2>1, AnsweredFacts
<1>4. /\ iters'[pulled] = j /\ pulled \in DOMAIN iters /\ it = iters[pulled] /\ IterOK(it)
      /\ DOMAIN iters' = DOMAIN iters /\ j.group = it.group /\ j.chunks = it.chunks
  BY <1>1, BecomesFacts, ItFacts DEF TypeInv, ItersOK, Becomes
<1>5. it.chunks = Listed(it.group) BY <1>4 DEF CourseInv, Course
<1>6. ASSUME NEW k \in DOMAIN iters, k # pulled PROVE Gives(k)' BY <1>1, <1>2, <1>3, <1>6, GivesBecomes
<1>7. ASSUME NEW k \in DOMAIN iters, k = pulled PROVE Gives(k)'
  <2> DEFINE s == Serving(it)
             P == Promise(it.group, it.chunks[s], it.cur)
  <2>1. /\ s \in DOMAIN it.chunks /\ KeptAt(it, s) /\ it.cur \in DOMAIN Kept(it.group, it.chunks[s])
        /\ Carried(x)' = P
    BY NewItem
  <2>2. PICK p : p = P OBVIOUS
  <2>3. Carried(x)' = p BY <2>1, <2>2
  <2>4. \A y : y.iter = k => y \notin ToSet(heap) BY <1>1, <1>7, NoItemOfPulled
  <2>5. \A y : y.iter = k => (y \in ToSet(heap)' <=> y = x) BY <1>1, <2>4 DEF Grows, ToSet
  <2>6. \A e : InHeap(e, k)' <=> e = p BY <1>1, <1>7, <2>3, <2>5 DEF InHeap
  <2>7. \A e : ~InHeap(e, k) BY <2>4 DEF InHeap
  <2>8. \A e : Took(e, k)' <=> Took(e, k) BY <1>2, <1>4, <1>7 DEF Took, ToSet
  <2>9. Gives(k) BY DEF GivenInv
  <2>10. \A e : Took(e, k) <=> IsGiven(e, it, it.cur)
    <3>1. Cursor(k) = it.cur /\ iters[k] = it BY <1>1, <1>4, <1>7 DEF Cursor
    <3> QED BY <2>7, <2>9, <3>1 DEF Gives
  <2>11. \A e : IsGiven(e, iters[k], Cursor(k))' <=> IsGiven(e, it, it.cur) \/ e = p
    <3>1. Cursor(k)' = it.cur + Step BY <1>1, <1>3, <1>4, <1>7 DEF Cursor
    <3>2. \A e : IsGiven(e, iters[k], Cursor(k))' <=> IsGiven(e, iters'[k], Cursor(k)') BY <1>2, PromiseFrame
    <3>3. \A e : IsGiven(e, iters[k], Cursor(k))' <=> IsGiven(e, j, it.cur + Step) BY <1>4, <1>7, <3>1, <3>2
    <3>4. Serving(j) = Serving(it) BY <1>1 DEF Serving
    <3>5. \A e : IsGiven(e, j, it.cur + Step) <=> IsGiven(e, it, it.cur) \/ e = P
      BY <1>1, <1>2, <1>4, <2>1, <3>4, GivenMore
    <3> QED BY <2>2, <3>3, <3>5
  <2>12. \A e : (Took(e, k) \/ InHeap(e, k))' <=> IsGiven(e, iters[k], Cursor(k))' BY <2>6, <2>8, <2>10, <2>11
  <2>13. (\A e : Rank(e)' = Rank(e)) /\ file' = file /\ iters'[k].group = iters[k].group BY <1>2, <1>4, <1>7, PromiseFrame
  <2>14. \A e, f : Took(e, k)' /\ InHeap(f, k)' => Rank(e)' < Rank(f)'
    <3>1. ASSUME NEW e, Took(e, k) PROVE Rank(e) < Rank(P)
      <4>1. IsGiven(e, it, it.cur) BY <2>10, <3>1
      <4> QED BY <1>2, <1>4, <1>5, <2>1, <4>1, GivenRank
    <3> QED BY <2>2, <2>6, <2>8, <2>13, <3>1
  <2>15. Rising(Taken, file[iters[k].group].ids)' BY <2>9, <2>13 DEF Rising, Gives
  <2> QED BY <2>12, <2>14, <2>15 DEF Gives
<1>8. \A k \in DOMAIN iters' : Gives(k)' BY <1>4, <1>6, <1>7
<1> QED BY <1>8, TopicsStay DEF GivenInv

(* New iterators have given nothing. *)
LEMMA GivenIterators ==
  ASSUME TypeInv, PhaseInv, Moves, ToIterators, ~failed'
  PROVE  GivenInv'
<1>1. /\ pc \in {"start", "data"} /\ pc' = "idle" /\ UNCHANGED <<heap, loaded, delivered>>
      /\ UNCHANGED <<file, query, sdk>> /\ file \in Files /\ query \in Queries
  BY DEF ToIterators, Moves, TypeInv
<1>2. heap' = <<>> /\ Taken' = <<>> BY <1>1 DEF PhaseInv, Taken
<1>3. ItersOK' BY GroupsStay
<1>4. ToSet(heap)' = {} /\ ToSet(Taken)' = {} /\ IsSeq(Taken') BY <1>2 DEF ToSet, IsSeq
<1>5. ASSUME NEW k \in DOMAIN iters' PROVE Gives(k)'
  <2>1. /\ IterOK(iters'[k]) /\ iters'[k].next = First(iters'[k].chunks)
        /\ query.costAware => KeptAt(iters'[k], iters'[k].next) /\ iters'[k].cur = First(iters'[k].kept)
    <3>1. IterOK(iters[k])' BY <1>3 DEF ItersOK
    <3>2. IterOK(iters[k])' <=> IterOK(iters'[k]) BY <1>1, Frame
    <3> QED BY <3>1, <3>2 DEF ToIterators
  <2>2. Cursor(k)' = iters'[k].cur BY <1>1 DEF Cursor
  <2>3. \A e : ~IsGiven(e, iters'[k], iters'[k].cur) BY <1>1, <2>1, GivenNone
  <2>4. \A e : ~IsGiven(e, iters[k], Cursor(k))' BY <1>1, <2>2, <2>3, PromiseFrame
  <2>5. (\A e : ~Took(e, k)') /\ \A e : ~InHeap(e, k)' BY <1>4 DEF Took, InHeap
  <2>6. Rising(Taken, file[iters[k].group].ids)' BY <1>2 DEF Rising
  <2> QED BY <2>4, <2>5, <2>6 DEF Gives
<1> QED BY <1>4, <1>5 DEF GivenInv

(* The next chunk of a group is loaded. *)
LEMMA GivenNextChunk ==
  ASSUME TypeInv, HeapInv, PhaseInv, ItemInv, CourseInv, GivenInv, Moves, ~failed',
         NEW j \in IterType, ToChunk(j), Taken' = Taken
  PROVE  GivenInv'
<1>1. /\ pc = "pull" /\ it.cur \notin DOMAIN it.kept /\ it.next \in DOMAIN it.chunks /\ Becomes(j) /\ j.next = it.next + Step
      /\ UNCHANGED <<pulled, heap>> /\ pc' \in {"pull", "chunk"}
      /\ (pc' # "chunk" => j.cur = First(j.kept))
  BY DEF ToChunk
<1>2. UNCHANGED <<file, query, sdk, ranges>> /\ file \in Files /\ query \in Queries BY <1>1 DEF Moves, ToPlan, TypeInv
<1>3. /\ iters'[pulled] = j /\ pulled \in DOMAIN iters /\ it = iters[pulled] /\ IterOK(it)
      /\ DOMAIN iters' = DOMAIN iters /\ j.group = it.group /\ j.chunks = it.chunks
  BY <1>1, BecomesFacts, ItFacts DEF TypeInv, ItersOK, Becomes
<1>4. Course(it, it.cur) /\ it.cur \in 0 .. Len(it.kept) + 1
  <2>1. Cursor(pulled) = it.cur BY <1>1, <1>3 DEF Cursor
  <2> QED BY <1>3, <2>1 DEF CourseInv, ItemInv
<1>5. ASSUME NEW k \in DOMAIN iters, k = pulled
      PROVE  \A e : IsGiven(e, iters[k], Cursor(k))' <=> IsGiven(e, iters[k], Cursor(k))
  <2>1. CourseInv' BY CourseStep
  <2>2. ItersOK' BY GroupsStay
  <2>3. Cursor(k)' = First(j.kept) BY <1>1, <1>2, <1>3, <1>5, Frame DEF Cursor
  <2>4. Course(j, First(j.kept))
    <3>1. Course(iters[k], Cursor(k))' BY <1>3, <2>1 DEF CourseInv
    <3>2. Course(iters[k], Cursor(k))' <=> Course(iters'[k], Cursor(k)') BY <1>2, CourseFrame
    <3> QED BY <1>3, <1>5, <2>3, <3>1, <3>2
  <2>5. IterOK(j)
    <3>1. IterOK(iters[k])' BY <1>3, <2>2 DEF ItersOK
    <3>2. IterOK(iters[k])' <=> IterOK(iters'[k]) BY <1>2, Frame
    <3> QED BY <1>3, <1>5, <3>1, <3>2
  <2>6. Serving(j) = Serving(it) + Step
    <3>1. it.next \in Int /\ Step \in Int BY <1>3, StepType DEF IterOK
    <3> QED BY <1>1, <3>1 DEF Serving
  <2>7. \A e : IsGiven(e, j, First(j.kept)) <=> IsGiven(e, it, it.cur)
    BY <1>1, <1>2, <1>3, <1>4, <2>4, <2>5, <2>6, GivenChunk
  <2>8. \A e : IsGiven(e, iters[k], Cursor(k))' <=> IsGiven(e, iters'[k], Cursor(k)') BY <1>2, PromiseFrame
  <2>9. \A e : IsGiven(e, iters[k], Cursor(k))' <=> IsGiven(e, j, First(j.kept)) BY <1>3, <1>5, <2>3, <2>8
  <2>10. Cursor(k) = it.cur /\ iters[k] = it BY <1>1, <1>3, <1>5 DEF Cursor
  <2> QED BY <2>7, <2>9, <2>10
<1>6. ASSUME NEW k \in DOMAIN iters PROVE Gives(k)' BY <1>1, <1>2, <1>5, <1>6, GivesBecomes
<1> QED BY <1>3, <1>6, TopicsStay DEF GivenInv

(* a data chunk that is loaded, *)
LEMMA GivenData ==
  ASSUME TypeInv, HeapInv, ItemInv, GivenInv, Moves, NEW j \in IterType, ToData(j), Taken' = Taken
  PROVE  GivenInv'
<1>1. /\ pc = "chunk" /\ pc' = "pull" /\ Becomes(j) /\ j.next = it.next /\ j.kept = it.kept /\ j.cur = First(it.kept)
      /\ UNCHANGED <<pulled, heap>>
  BY DEF ToData
<1>2. UNCHANGED <<file, query, sdk, ranges>> BY <1>1 DEF Moves, ToPlan
<1>3. /\ iters'[pulled] = j /\ pulled \in DOMAIN iters /\ it = iters[pulled]
      /\ DOMAIN iters' = DOMAIN iters /\ j.group = it.group /\ j.chunks = it.chunks
  BY <1>1, BecomesFacts, ItFacts DEF Becomes
<1>4. ASSUME NEW k \in DOMAIN iters, k = pulled
      PROVE  \A e : IsGiven(e, iters[k], Cursor(k))' <=> IsGiven(e, iters[k], Cursor(k))
  <2>1. Cursor(k)' = First(it.kept) /\ Cursor(k) = First(it.kept) BY <1>1, <1>3, <1>4 DEF Cursor
  <2>2. Serving(j) = Serving(it) BY <1>1 DEF Serving
  <2>3. \A e : IsGiven(e, iters[k], Cursor(k))' <=> IsGiven(e, iters'[k], Cursor(k)') BY <1>2, PromiseFrame
  <2>4. \A e, cur : IsGiven(e, j, cur) <=> IsGiven(e, it, cur) BY <1>3, <2>2 DEF IsGiven
  <2> QED BY <1>3, <1>4, <2>1, <2>3, <2>4
<1>5. ASSUME NEW k \in DOMAIN iters PROVE Gives(k)' BY <1>1, <1>2, <1>4, <1>5, GivesBecomes
<1> QED BY <1>3, <1>5, TopicsStay DEF GivenInv

(* a step that leaves iterators and heap alone, *)
LEMMA GivenSame ==
  ASSUME TypeInv, GivenInv, Moves, Taken' = Taken, UNCHANGED <<iters, heap, ranges>>, pc # "chunk", pc' # "chunk"
  PROVE  GivenInv'
<1>1. UNCHANGED <<file, query, sdk>> BY DEF Moves
<1>2. ASSUME NEW k \in DOMAIN iters PROVE Gives(k)'
  <2>1. \A y : Carried(y)' = Carried(y) BY <1>1, CarriedFrame
  <2>2. \A e : InHeap(e, k)' <=> InHeap(e, k) BY <2>1 DEF InHeap, ToSet
  <2>3. Cursor(k)' = Cursor(k) BY DEF Cursor
  <2>4. \A e : IsGiven(e, iters[k], Cursor(k))' <=> IsGiven(e, iters'[k], Cursor(k)') BY <1>1, PromiseFrame
  <2>5. \A e : IsGiven(e, iters[k], Cursor(k))' <=> IsGiven(e, iters[k], Cursor(k)) BY <2>3, <2>4
  <2>6. Gives(k) /\ IsSeq(Taken) BY DEF GivenInv
  <2> QED BY <1>1, <2>2, <2>5, <2>6, GivesSame
<1> QED BY <1>2, TopicsStay DEF GivenInv

(* and any step that does not fail. *)
LEMMA GivenStep ==
  ASSUME TypeInv, HeapInv, PhaseInv, ItemInv, CourseInv, GivenInv, NoEmptyMessages, Moves, ~failed'
  PROVE  GivenInv'
<1>1. ASSUME NEW p \in DOMAIN heap, ToPop(p) PROVE GivenInv' BY <1>1, TakenStep, GivenPop
<1>2. ASSUME Taken' = Taken PROVE GivenInv'
  <2>1. CASE ToPlan
    <3>1. iters' = <<>> /\ delivered' = <<>> /\ pc' \notin {"pull", "chunk", "panic"}
      BY <2>1 DEF ToPlan, PhaseInv, CourseInv
    <3>2. Taken' = <<>> BY <3>1 DEF Taken
    <3>3. IsSeq(Taken') /\ ToSet(Taken)' = {} BY <3>2 DEF IsSeq, ToSet
    <3>4. DOMAIN iters' = {} BY <3>1
    <3> QED BY <3>3, <3>4 DEF GivenInv
  <2>2. CASE ToIterators BY <2>2, GivenIterators
  <2>3. ASSUME NEW j \in IterType, ToChunk(j) PROVE GivenInv' BY <1>2, <2>3, GivenNextChunk
  <2>4. ASSUME NEW j \in IterType, ToData(j) PROVE GivenInv' BY <1>2, <2>4, GivenData
  <2>5. ASSUME NEW j \in IterType, NEW x, ToMessage(j, x) PROVE GivenInv' BY <1>2, <2>5, GivenMessage
  <2>6. ASSUME ~ToPlan, ToCall \/ ToCallAgain \/ ToEof \/ ToPanic PROVE GivenInv'
    <3>1. UNCHANGED <<iters, heap, ranges>> /\ pc # "chunk" /\ pc' # "chunk"
      BY <2>6 DEF Moves, ToCall, ToCallAgain, ToEof, ToPanic
    <3> QED BY <1>2, <3>1, GivenSame
  <2>7. ASSUME ~ToPlan, ToEndOfGroup PROVE GivenInv'
    <3>1. UNCHANGED <<iters, heap, ranges>> /\ pc = "pull" /\ PortAnswered BY <2>7 DEF Moves, ToEndOfGroup
    <3>2. pc' # "chunk" BY <3>1, AnsweredFacts
    <3> QED BY <1>2, <3>1, <3>2, GivenSame
  <2>8. CASE UNCHANGED vars /\ ~ToPlan
    <3>1. UNCHANGED <<file, query, sdk, ranges, iters, heap, pc, pulled>> BY <2>8 DEF Moves, vars
    <3>2. ASSUME NEW k \in DOMAIN iters PROVE Gives(k)'
      <4>1. \A y : Carried(y)' = Carried(y) BY <3>1, CarriedFrame
      <4>2. \A e : InHeap(e, k)' <=> InHeap(e, k) BY <3>1, <4>1 DEF InHeap, ToSet
      <4>3. Cursor(k)' = Cursor(k) BY <3>1, Frame DEF Cursor
      <4>4. \A e : IsGiven(e, iters[k], Cursor(k))' <=> IsGiven(e, iters'[k], Cursor(k)') BY <3>1, PromiseFrame
      <4>5. \A e : IsGiven(e, iters[k], Cursor(k))' <=> IsGiven(e, iters[k], Cursor(k)) BY <3>1, <4>3, <4>4
      <4>6. Gives(k) /\ IsSeq(Taken) BY DEF GivenInv
      <4> QED BY <1>2, <3>1, <4>2, <4>5, <4>6, GivesSame
    <3> QED BY <1>2, <3>1, <3>2, TopicsStay DEF GivenInv
  <2>9. \A j : ~ToError(j) /\ ~ToCut(j) BY DEF ToError, ToCut
  <2> QED BY <1>1, <2>1, <2>2, <2>3, <2>4, <2>5, <2>6, <2>7, <2>8, <2>9 DEF Moves
<1> QED BY <1>1, <1>2, TakenStep

(* End of file comes with an empty heap. *)
EofInv == result = "eof" => pc = "idle" /\ loaded /\ heap = <<>>

(* No step breaks it, unless it fails. *)
LEMMA EofStep ==
  ASSUME TypeInv, PhaseInv, EofInv, Moves, ~failed'
  PROVE  EofInv'
<1>1. ~failed BY LooseEndStays
<1>2. CASE ToPlan \/ ToIterators BY <1>2 DEF ToPlan, ToIterators, EofInv
<1>3. CASE ToCall \/ ToCallAgain BY <1>3 DEF ToCall, ToCallAgain, EofInv
<1>4. CASE ToEof
  <2>1. loaded' = loaded /\ heap' = heap /\ pc' = "idle" BY <1>4 DEF ToEof
  <2>2. loaded /\ heap = <<>> BY <1>1, <1>4 DEF ToEof, EofInv, PhaseInv
  <2> QED BY <2>1, <2>2 DEF EofInv
<1>5. ASSUME pc = "pull", PortAnswered PROVE EofInv'
  <2>1. result' = result \/ result' = "message" BY <1>5 DEF PortAnswered, Answered
  <2> QED BY <1>5, <2>1 DEF EofInv
<1>6. ToEndOfGroup => EofInv' BY <1>5 DEF ToEndOfGroup
<1>7. \A j, x : ToMessage(j, x) => EofInv' BY <1>5 DEF ToMessage
<1>8. \A j : ToChunk(j) \/ ToData(j) => EofInv' BY DEF ToChunk, ToData, EofInv
<1>9. ToPanic => EofInv' BY DEF ToPanic, EofInv
<1>10. \A p : ToPop(p) => EofInv' BY DEF ToPop, EofInv
<1>11. \A j : ~ToError(j) /\ ~ToCut(j) BY DEF ToError, ToCut
<1>12. CASE UNCHANGED vars
  <2>1. UNCHANGED <<result, pc, heap>> /\ (loaded' <=> loaded) BY <1>12 DEF vars
  <2> QED BY <2>1 DEF EofInv
<1> QED BY <1>2, <1>3, <1>4, <1>6, <1>7, <1>8, <1>9, <1>10, <1>11, <1>12 DEF Moves

(* What is returned is a list. *)
LEMMA DeliveredSeq ==
  ASSUME TypeInv, Moves, IsSeq(delivered)
  PROVE  IsSeq(delivered')
<1>1. ASSUME NEW m, delivered' = Append(delivered, m) PROVE IsSeq(delivered') BY <1>1, AppendGrows DEF Grows
<1>2. ASSUME PortAnswered PROVE IsSeq(delivered')
  <2>1. delivered' = delivered \/ \E m : delivered' = Append(delivered, m) BY <1>2, AnsweredFacts
  <2> QED BY <1>1, <2>1
<1>3. ASSUME NEW p, ToPop(p) PROVE IsSeq(delivered')
  <2>1. delivered' = delivered \/ \E m : delivered' = Append(delivered, m) BY <1>3 DEF ToPop
  <2> QED BY <1>1, <2>1
<1>4. ToPlan \/ ToIterators \/ ToCall \/ ToCallAgain \/ ToEof \/ ToPanic \/ UNCHANGED vars => UNCHANGED delivered
  BY DEF ToPlan, ToIterators, ToCall, ToCallAgain, ToEof, ToPanic, vars
<1>5. \A j \in IterType : ToChunk(j) \/ ToData(j) \/ ToError(j) => UNCHANGED delivered BY DEF ToChunk, ToData, ToError
<1>6. ToEndOfGroup => pc = "pull" /\ PortAnswered BY DEF ToEndOfGroup
<1>7. \A j, x : ToMessage(j, x) \/ ToCut(j) => PortAnswered BY DEF ToMessage, ToCut
<1> QED BY <1>2, <1>3, <1>4, <1>5, <1>6, <1>7 DEF Moves

(* The inductive invariant of what is returned. *)
GiftInv ==
  /\ IteratorInv /\ IsSeq(delivered)
  /\ ~failed => CourseInv /\ EofInv /\ (NoEmptyMessages => GivenInv)

(* The invariant holds. *)
LEMMA GiftInvHolds == SdkSpec => []GiftInv
<1>1. SdkInit => CourseInv /\ EofInv /\ GivenInv /\ IsSeq(delivered)
  <2> SUFFICES ASSUME SdkInit PROVE CourseInv /\ EofInv /\ GivenInv /\ IsSeq(delivered) OBVIOUS
  <2>1. pc = "start" /\ iters = <<>> /\ heap = <<>> /\ loaded = FALSE /\ delivered = <<>> /\ result = "none"
    BY DEF SdkInit, Init, Start
  <2>2. DOMAIN iters = {} BY <2>1
  <2>3. CourseInv BY <2>1, <2>2 DEF CourseInv
  <2>4. EofInv BY <2>1 DEF EofInv
  <2>5. Taken = <<>> BY <2>1 DEF Taken
  <2>6. IsSeq(Taken) /\ ToSet(Taken) = {} BY <2>5 DEF IsSeq, ToSet
  <2>7. IsSeq(delivered) BY <2>1 DEF IsSeq
  <2> QED BY <2>2, <2>3, <2>4, <2>6, <2>7 DEF GivenInv
<1>2. GiftInv /\ [SdkNext]_portVars /\ IteratorInv' => GiftInv'
  <2> SUFFICES ASSUME GiftInv, [SdkNext]_portVars, IteratorInv' PROVE GiftInv' OBVIOUS
  <2>1. TypeInv /\ HeapInv /\ IsSeq(delivered) BY DEF GiftInv, IteratorInv
  <2>2. Moves BY <2>1, StepMoves
  <2>3. ASSUME ~failed' PROVE (CourseInv /\ EofInv /\ (NoEmptyMessages => GivenInv))'
    <3>1. ~failed BY <2>1, <2>2, <2>3, LooseEndStays
    <3>2. PhaseInv /\ ItemInv /\ CourseInv /\ EofInv /\ (NoEmptyMessages => GivenInv)
      BY <3>1 DEF GiftInv, IteratorInv, LooseEnd
    <3>3. NoEmptyMessages' <=> NoEmptyMessages BY <2>2, PromiseFrame DEF Moves
    <3>4. CourseInv' /\ EofInv' BY <2>1, <2>2, <2>3, <3>2, CourseStep, EofStep
    <3>5. NoEmptyMessages => GivenInv' BY <2>1, <2>2, <2>3, <3>2, GivenStep
    <3> QED BY <3>3, <3>4, <3>5
  <2>4. IsSeq(delivered') BY <2>1, <2>2, DeliveredSeq
  <2>5. IsSeq(delivered)' BY <2>4 DEF IsSeq
  <2> QED BY <2>3, <2>5 DEF GiftInv
<1>3. SdkInit /\ IteratorInv => GiftInv BY <1>1 DEF GiftInv
<1> QED BY <1>2, <1>3, IteratorInvHolds, PTL DEF SdkSpec
-----------------------------------------------------------------------------
(* What a query asks for. *)
AMessage == [id : Nat, ts : Int, n : Nat, len : Nat, key : BOOLEAN]
WantedAt(g, i) == {q \in AskedAt(g, i) : Judged(g, file[g].chunks[i].msgs[q].ts)}
Written(g, id) ==
  FlattenSeq([i \in DOMAIN file[g].chunks |->
    LET m == file[g].chunks[i].msgs
    IN  Picked(m, {q \in DOMAIN m : m[q].id = id /\ Asked(g, m[q]) /\ Judged(g, m[q].ts)})])

(* Frames have times. *)
LEMMA FrameTimes ==
  ASSUME file \in Files, NEW g \in DOMAIN file
  PROVE  (\A m \in Frames(g) : m.ts \in Int) /\ Anchors(g) \subseteq Int
<1>1. ASSUME NEW m \in Frames(g) PROVE m.ts \in Int
  <2>1. PICK i \in DOMAIN file[g].chunks : m \in ToSet(file[g].chunks[i].msgs) BY DEF Frames, ToSet
  <2>2. PICK q \in DOMAIN file[g].chunks[i].msgs : m = file[g].chunks[i].msgs[q] BY <2>1 DEF ToSet
  <2>3. file[g].chunks[i] \in Chunk /\ IsTrue(file[g].chunks[i]) BY FileFacts, TruthFacts
  <2> QED BY <2>2, <2>3, MessageTypes
<1> QED BY <1>1 DEF Anchors

(* The chunk of an anchor that is read, and what surrounds it. *)
LEMMA AnchorChunk ==
  ASSUME file \in Files, query \in Queries, NEW g \in DOMAIN file, Anchors(g) # {}, AnchorIsRead(g)
  PROVE  /\ query.videoDecodable /\ file[g].video
         /\ \E i \in DOMAIN file[g].chunks : \E k \in DOMAIN file[g].chunks[i].msgs :
              LET c == file[g].chunks
                  m == c[i].msgs[k]
              IN  /\ query.start <= c[i].end /\ m.key /\ m.ts \in Anchors(g) /\ m.ts \in Int /\ m.ts <= query.start
                  /\ \A t \in Anchors(g) : t <= m.ts
                  /\ \A j \in DOMAIN c : j < i => c[j].end < m.ts
                  /\ \A j \in DOMAIN c : i < j => c[i].end <= c[j].start
<1>1. PICK t \in Anchors(g) : TRUE OBVIOUS
<1>2. query.videoDecodable /\ file[g].video BY <1>1 DEF Anchors
<1>3. PICK i \in DOMAIN file[g].chunks :
        LET c == file[g].chunks IN
          /\ query.start <= c[i].end
          /\ \E m \in ToSet(c[i].msgs) : /\ m.key /\ m.ts \in Anchors(g) /\ \A u \in Anchors(g) : u <= m.ts
                                         /\ \A j \in 1 .. i - 1 : c[j].end < m.ts
  BY DEF AnchorIsRead
<1> DEFINE c == file[g].chunks
<1>4. PICK k \in DOMAIN c[i].msgs :
        /\ c[i].msgs[k].key /\ c[i].msgs[k].ts \in Anchors(g) /\ \A u \in Anchors(g) : u <= c[i].msgs[k].ts
        /\ \A j \in 1 .. i - 1 : c[j].end < c[i].msgs[k].ts
  BY <1>3 DEF ToSet
<1>5. c[i] \in Chunk /\ IsTrue(c[i]) /\ c \in Seq(Chunk) /\ \A j \in DOMAIN c : i < j => c[i].end <= c[j].start
  BY FileFacts, TruthFacts
<1>6. c[i].msgs[k].ts \in Int BY <1>5, MessageTypes
<1>7. c[i].msgs[k].ts <= query.start BY <1>4 DEF Anchors
<1>8. \A j \in DOMAIN c : j < i => j \in 1 .. i - 1 BY <1>5
<1> QED BY <1>2, <1>3, <1>4, <1>5, <1>6, <1>7, <1>8

(* Of a group whose anchor is read, and of the range of any other, a query *)
(* asks for what the code keeps.                                           *)
LEMMA ReachedIsAsked ==
  ASSUME file \in Files, query \in Queries, NEW g \in DOMAIN file, NEW i \in DOMAIN file[g].chunks,
         NEW q \in DOMAIN file[g].chunks[i].msgs, Judged(g, file[g].chunks[i].msgs[q].ts)
  PROVE  q \in AskedAt(g, i) <=> Asked(g, file[g].chunks[i].msgs[q])
<1> DEFINE d == file[g].chunks
           c == d[i]
           m == c.msgs[q]
           Before == \A k \in DOMAIN c.msgs : c.msgs[k].key /\ c.msgs[k].ts <= query.start => c.msgs[k].ts <= m.ts
           Latest == Anchors(g) # {} /\ \A t \in Anchors(g) : t <= m.ts
<1>1. /\ c \in Chunk /\ ChunkInOrder(c, file[g].ids) /\ IsTrue(c)
      /\ file[g].video => Len(c.topics) = 1 /\ c.msgs[1].key
  BY FileFacts, TruthFacts
<1>2. /\ DOMAIN c.msgs = 1 .. Len(c.msgs) /\ Len(c.msgs) \in Nat \ {0} /\ \A r \in DOMAIN c.msgs : c.msgs[r].ts \in Int
  BY <1>1, MessageTypes
<1>3. query.start \in Int /\ query.end \in Int BY QueryTypes
<1>4. c.start \in Int /\ c.end \in Int /\ c.start <= m.ts /\ m.ts <= c.end /\ m.ts \in Int
  <2>1. c.start \in Int /\ c.end \in Int BY <1>1 DEF Chunk
  <2> QED BY <1>1, <1>2, <2>1, MessageTimes
<1>5. \A k \in DOMAIN c.msgs : query.videoDecodable /\ file[g].video /\ c.msgs[k].key /\ c.msgs[k].ts <= query.start
        => c.msgs[k].ts \in Anchors(g)
  BY DEF Anchors, Frames, ToSet
<1>6. i \in Nat
  <2>1. d \in Seq(Chunk) BY FileFacts
  <2> QED BY <2>1
<1>7. Judged(g, m.ts) <=> AnchorIsRead(g) \/ query.start <= m.ts BY DEF Judged
<1>8. (q \in AskedAt(g, i)) <=> /\ m.id \in query.ids /\ m.ts <= query.end
                              /\ \/ m.ts >= query.start
                                 \/ query.videoDecodable /\ file[g].video /\ c.end >= query.start /\ Before
  BY DEF AskedAt, Reached
<1>9. Asked(g, m) <=> /\ m.id \in query.ids /\ m.ts <= query.end
                      /\ m.ts >= query.start \/ Latest
  BY DEF Asked
<1>10. CASE m.ts >= query.start BY <1>8, <1>9, <1>10
<1>11. CASE ~(m.ts >= query.start)
  <2>1. AnchorIsRead(g)
    <3>1. ~(query.start <= m.ts) BY <1>3, <1>4, <1>11
    <3> QED BY <1>7, <3>1
  <2>2. m.ts <= query.start BY <1>3, <1>4, <1>11
  <2>3. ASSUME query.videoDecodable, file[g].video, c.end >= query.start, Before PROVE Latest
    <3>1. 1 \in DOMAIN c.msgs /\ 1 <= q BY <1>2
    <3>2. c.msgs[1].ts <= m.ts
      <4>1. \A r, s \in DOMAIN c.msgs : r <= s => c.msgs[r].ts <= c.msgs[s].ts
        <5> HIDE DEF c
        <5> QED BY <1>1, <2>3, TimesRise
      <4> QED BY <3>1, <4>1
    <3>3. c.msgs[1].ts <= query.start BY <1>2, <1>3, <1>4, <2>2, <3>1, <3>2
    <3>4. Anchors(g) # {} BY <1>1, <1>5, <2>3, <3>1, <3>3
    <3>5. PICK j \in DOMAIN d : \E k \in DOMAIN d[j].msgs :
            /\ query.start <= d[j].end /\ d[j].msgs[k].key /\ d[j].msgs[k].ts \in Int /\ d[j].msgs[k].ts <= query.start
            /\ \A t \in Anchors(g) : t <= d[j].msgs[k].ts
            /\ \A x \in DOMAIN d : x < j => d[x].end < d[j].msgs[k].ts
            /\ \A x \in DOMAIN d : j < x => d[j].end <= d[x].start
      BY <2>1, <3>4, AnchorChunk
    <3>6. PICK k \in DOMAIN d[j].msgs :
            /\ query.start <= d[j].end /\ d[j].msgs[k].key /\ d[j].msgs[k].ts \in Int /\ d[j].msgs[k].ts <= query.start
            /\ \A t \in Anchors(g) : t <= d[j].msgs[k].ts
            /\ \A x \in DOMAIN d : x < j => d[x].end < d[j].msgs[k].ts
            /\ \A x \in DOMAIN d : j < x => d[j].end <= d[x].start
      BY <3>5
    <3>7. j \in Nat /\ d[j].end \in Int
      <4>1. d \in Seq(Chunk) /\ d[j] \in Chunk BY FileFacts
      <4>2. d[j].end \in Int BY <4>1 DEF Chunk
      <4> QED BY <4>1, <4>2
    <3>8. ~(i < j)
      <4> SUFFICES ASSUME i < j PROVE FALSE OBVIOUS
      <4>1. c.end < d[j].msgs[k].ts BY <3>6
      <4> QED BY <1>3, <1>4, <2>3, <3>6, <4>1
    <3>9. ~(j < i)
      <4> SUFFICES ASSUME j < i PROVE FALSE OBVIOUS
      <4>1. d[j].end <= c.start BY <3>6
      <4> QED BY <1>3, <1>4, <1>11, <3>6, <3>7, <4>1
    <3>10. j = i BY <1>6, <3>7, <3>8, <3>9
    <3>11. d[j].msgs[k].ts <= m.ts BY <2>3, <3>6, <3>10
    <3>12. \A t \in Anchors(g) : t \in Int BY FrameTimes
    <3> QED BY <1>4, <3>4, <3>6, <3>11, <3>12
  <2>4. ASSUME Latest PROVE query.videoDecodable /\ file[g].video /\ c.end >= query.start /\ Before
    <3>1. query.videoDecodable /\ file[g].video BY <2>1, <2>4, AnchorChunk
    <3>2. Before BY <1>5, <2>4, <3>1
    <3>3. PICK j \in DOMAIN d : \E k \in DOMAIN d[j].msgs :
            /\ query.start <= d[j].end /\ d[j].msgs[k].ts \in Anchors(g) /\ d[j].msgs[k].ts \in Int
            /\ \A x \in DOMAIN d : x < j => d[x].end < d[j].msgs[k].ts
            /\ \A x \in DOMAIN d : j < x => d[j].end <= d[x].start
      BY <2>1, <2>4, AnchorChunk
    <3>4. PICK k \in DOMAIN d[j].msgs :
            /\ query.start <= d[j].end /\ d[j].msgs[k].ts \in Anchors(g) /\ d[j].msgs[k].ts \in Int
            /\ \A x \in DOMAIN d : x < j => d[x].end < d[j].msgs[k].ts
            /\ \A x \in DOMAIN d : j < x => d[j].end <= d[x].start
      BY <3>3
    <3>5. j \in Nat /\ d[j].end \in Int
      <4>1. d \in Seq(Chunk) /\ d[j] \in Chunk BY FileFacts
      <4>2. d[j].end \in Int BY <4>1 DEF Chunk
      <4> QED BY <4>1, <4>2
    <3>6. ~(i < j)
      <4> SUFFICES ASSUME i < j PROVE FALSE OBVIOUS
      <4>1. c.end < d[j].msgs[k].ts BY <3>4
      <4>2. d[j].msgs[k].ts <= m.ts BY <2>4, <3>4
      <4> QED BY <1>4, <3>4, <4>1, <4>2
    <3>7. ~(j < i)
      <4> SUFFICES ASSUME j < i PROVE FALSE OBVIOUS
      <4>1. d[j].end <= c.start BY <3>4
      <4> QED BY <1>3, <1>4, <1>11, <3>4, <3>5, <4>1
    <3>8. j = i BY <1>6, <3>5, <3>6, <3>7
    <3>9. c.end >= query.start BY <1>3, <1>4, <3>4, <3>8
    <3> QED BY <3>1, <3>2, <3>9
  <2> HIDE DEF Before, Latest, m, c
  <2> QED BY <1>8, <1>9, <1>11, <2>3, <2>4 DEF m, c
<1> QED BY <1>10, <1>11

(* The messages wanted of a chunk, by their place. *)
LEMMA WantedIsAsked ==
  ASSUME file \in Files, query \in Queries, NEW g \in DOMAIN file, NEW i \in DOMAIN file[g].chunks
  PROVE  LET m == file[g].chunks[i].msgs
         IN  \A q : q \in WantedAt(g, i) <=> q \in DOMAIN m /\ Asked(g, m[q]) /\ Judged(g, m[q].ts)
<1> DEFINE m == file[g].chunks[i].msgs
<1>1. \A q \in DOMAIN m : Judged(g, m[q].ts) => (q \in AskedAt(g, i) <=> Asked(g, m[q])) BY ReachedIsAsked
<1>2. AskedAt(g, i) \subseteq DOMAIN m BY DEF AskedAt
<1> QED BY <1>1, <1>2 DEF WantedAt

(* The messages of a topic that a query asks for are in the order of their *)
(* numbers.                                                                *)
LEMMA WrittenFacts ==
  ASSUME file \in Files, query \in Queries, NEW g \in DOMAIN file, NEW id
  PROVE  LET w == Written(g, id)
             d == file[g].chunks
         IN  /\ w \in Seq(AMessage)
             /\ \A k \in DOMAIN w : \E i \in DOMAIN d : \E q \in WantedAt(g, i) : d[i].msgs[q].id = id /\ w[k] = d[i].msgs[q]
             /\ \A i \in DOMAIN d : \A q \in WantedAt(g, i) : d[i].msgs[q].id = id => \E k \in DOMAIN w : w[k] = d[i].msgs[q]
             /\ \A j, k \in DOMAIN w : j < k => w[j].n < w[k].n
<1> DEFINE d == file[g].chunks
           Mine(i) == {q \in DOMAIN d[i].msgs : /\ d[i].msgs[q].id = id
                                               /\ Asked(g, d[i].msgs[q]) /\ Judged(g, d[i].msgs[q].ts)}
           s == [i \in DOMAIN d |-> Picked(d[i].msgs, Mine(i))]
           w == Written(g, id)
           l == Len(d)
<1>1. l \in Nat /\ DOMAIN d = 1 .. l /\ \A i \in DOMAIN d : d[i].msgs \in Seq(AMessage)
  <2>1. d \in Seq(Chunk) /\ \A i \in DOMAIN d : d[i] \in Chunk BY FileFacts DEF Group
  <2>2. \A c \in Chunk : c.msgs \in Seq(AMessage) BY DEF Chunk, AMessage
  <2> QED BY <2>1, <2>2
<1>2. w = FlattenSeq(s) BY DEF Written
<1>3. \A i \in DOMAIN d : \A q : q \in Mine(i) <=> q \in WantedAt(g, i) /\ d[i].msgs[q].id = id BY WantedIsAsked
<1>4. \A i \in DOMAIN d : Mine(i) \subseteq DOMAIN d[i].msgs OBVIOUS
<1>5. \A i, j \in DOMAIN d : \A q \in DOMAIN d[i].msgs, r \in DOMAIN d[j].msgs :
        i < j \/ (i = j /\ q < r) => d[i].msgs[q].n < d[j].msgs[r].n
  BY TruthFacts
<1> HIDE DEF Mine, d, w, l
<1>6. ASSUME NEW i \in DOMAIN d
      PROVE  /\ s[i] \in Seq(AMessage) /\ DOMAIN s[i] = 1 .. Len(s[i])
             /\ \A k \in DOMAIN s[i] : Arranged(Mine(i))[k] \in Mine(i) /\ s[i][k] = d[i].msgs[Arranged(Mine(i))[k]]
             /\ \A j, k \in DOMAIN s[i] : j < k => Arranged(Mine(i))[j] < Arranged(Mine(i))[k]
             /\ \A q \in Mine(i) : \E k \in DOMAIN s[i] : Arranged(Mine(i))[k] = q
  <2> DEFINE p == Picked(d[i].msgs, Mine(i))
  <2>1. /\ p \in Seq(AMessage)
        /\ \A k \in DOMAIN p : Arranged(Mine(i))[k] \in Mine(i) /\ p[k] = d[i].msgs[Arranged(Mine(i))[k]]
        /\ \A j, k \in DOMAIN p : j < k => Arranged(Mine(i))[j] < Arranged(Mine(i))[k]
        /\ \A q \in Mine(i) : \E k \in DOMAIN p : Arranged(Mine(i))[k] = q
    <3> DEFINE m == d[i].msgs
               S == Mine(i)
    <3>1. m \in Seq(AMessage) /\ S \subseteq DOMAIN m /\ p = Picked(m, S) BY <1>1, <1>4
    <3> HIDE DEF m, S, p
    <3>2. /\ p \in Seq(AMessage)
          /\ \A k \in DOMAIN p : Arranged(S)[k] \in S /\ p[k] = m[Arranged(S)[k]]
          /\ \A j, k \in DOMAIN p : j < k => Arranged(S)[j] < Arranged(S)[k]
          /\ \A q \in S : \E k \in DOMAIN p : Arranged(S)[k] = q
      BY <3>1, PickedFacts
    <3> QED BY <3>2 DEF m, S
  <2>2. s[i] = p OBVIOUS
  <2> HIDE DEF p, s
  <2>3. DOMAIN p = 1 .. Len(p) BY <2>1
  <2> QED BY <2>1, <2>2, <2>3
<1>7. s \in Seq(Seq(AMessage)) /\ Len(s) = l /\ DOMAIN s = DOMAIN d
  <2>1. s \in [1 .. l -> Seq(AMessage)] BY <1>1, <1>6
  <2> QED BY <1>1, <2>1
<1> HIDE DEF s
<1>8. w \in Seq(AMessage) /\ \E h, p : Flattened(w, s, l, h, p) BY <1>2, <1>7, FlattenFacts
<1>9. PICK h, p : Flattened(w, s, l, h, p) BY <1>8
<1>10. DOMAIN w = 1 .. Len(w) BY <1>8
<1> DEFINE At(k) == Arranged(Mine(h[k]))[p[k]]
<1>11. ASSUME NEW k \in DOMAIN w
       PROVE  h[k] \in DOMAIN d /\ p[k] \in DOMAIN s[h[k]] /\ At(k) \in Mine(h[k]) /\ w[k] = d[h[k]].msgs[At(k)]
  <2>1. h[k] \in DOMAIN d /\ p[k] \in DOMAIN s[h[k]] /\ w[k] = s[h[k]][p[k]] BY <1>1, <1>6, <1>9, <1>10 DEF Flattened
  <2> QED BY <1>6, <2>1
<1>12. ASSUME NEW i \in DOMAIN d, NEW q \in WantedAt(g, i), d[i].msgs[q].id = id PROVE \E k \in DOMAIN w : w[k] = d[i].msgs[q]
  <2>1. q \in Mine(i) BY <1>3, <1>12
  <2>2. PICK m \in DOMAIN s[i] : Arranged(Mine(i))[m] = q BY <1>6, <2>1
  <2>3. m \in 1 .. Len(s[i]) /\ i \in 1 .. l BY <1>1, <1>6
  <2>6. \A j \in 1 .. l : \A r \in 1 .. Len(s[j]) : \E k \in 1 .. Len(w) : h[k] = j /\ p[k] = r BY <1>9 DEF Flattened
  <2>4. PICK k \in DOMAIN w : h[k] = i /\ p[k] = m BY <1>10, <2>3, <2>6
  <2>5. w[k] = d[i].msgs[q] BY <1>11, <2>2, <2>4
  <2> QED BY <2>5
<1>13. ASSUME NEW j \in DOMAIN w, NEW k \in DOMAIN w, j < k PROVE w[j].n < w[k].n
  <2>1. h[j] < h[k] \/ (h[j] = h[k] /\ p[j] < p[k]) BY <1>9, <1>10, <1>13 DEF Flattened
  <2>2. h[j] < h[k] \/ (h[j] = h[k] /\ At(j) < At(k))
    <3>1. ASSUME h[j] = h[k], p[j] < p[k] PROVE At(j) < At(k)
      <4>1. p[j] \in DOMAIN s[h[k]] /\ p[k] \in DOMAIN s[h[k]] /\ h[k] \in DOMAIN d BY <1>11, <3>1
      <4> QED BY <1>6, <3>1, <4>1
    <3> QED BY <2>1, <3>1
  <2>3. At(j) \in DOMAIN d[h[j]].msgs /\ At(k) \in DOMAIN d[h[k]].msgs BY <1>4, <1>11
  <2> HIDE DEF At
  <2> QED BY <1>5, <1>11, <2>2, <2>3
<1>14. \A k \in DOMAIN w : \E i \in DOMAIN d : \E q \in WantedAt(g, i) : d[i].msgs[q].id = id /\ w[k] = d[i].msgs[q]
  BY <1>3, <1>11
<1> QED BY <1>8, <1>12, <1>13, <1>14 DEF w, d

(* The messages of a topic that a query asks for, in its order. *)
LEMMA ExpectedFacts ==
  ASSUME file \in Files, query \in Queries, NoEmptyMessages, NEW g \in DOMAIN file, NEW id \in file[g].ids
  PROVE  LET e == Expected(g, id)
             d == file[g].chunks
         IN  /\ IsSeq(e) /\ Len(e) \in Nat /\ DOMAIN e = 1 .. Len(e)
             /\ \A k \in DOMAIN e : e[k].id = id /\
                  \E i \in DOMAIN d : \E q \in WantedAt(g, i) : d[i].msgs[q].id = id /\ e[k] = Record(d[i].msgs[q])
             /\ \A i \in DOMAIN d : \A q \in WantedAt(g, i) : d[i].msgs[q].id = id => \E k \in DOMAIN e : e[k] = Record(d[i].msgs[q])
             /\ \A j, k \in DOMAIN e : j < k => Rank(e[j]) < Rank(e[k])
             /\ \A k \in DOMAIN e : Rank(e[k]) \in Int
<1> DEFINE d == file[g].chunks
           all == Written(g, id)
           message == [k \in DOMAIN all |-> Record(all[k])]
           e == Expected(g, id)
           n == Len(all)
<1>1. /\ all \in Seq(AMessage)
      /\ \A k \in DOMAIN all : \E i \in DOMAIN d : \E q \in WantedAt(g, i) : d[i].msgs[q].id = id /\ all[k] = d[i].msgs[q]
      /\ \A i \in DOMAIN d : \A q \in WantedAt(g, i) : d[i].msgs[q].id = id => \E k \in DOMAIN all : all[k] = d[i].msgs[q]
      /\ \A j, k \in DOMAIN all : j < k => all[j].n < all[k].n
  BY WrittenFacts
<1>2. e = IF query.reverse THEN Reverse(message) ELSE message BY DEF Expected, Written
<1>3. DOMAIN message = DOMAIN all /\ \A k \in DOMAIN all : message[k] = Record(all[k]) OBVIOUS
<1>4. n \in Nat /\ DOMAIN all = 1 .. n /\ n = Len(all) BY <1>1
<1> HIDE DEF all, message, e, d, n
<1>20. \A i \in DOMAIN d : \A q \in WantedAt(g, i) : d[i].msgs[q].n \in Nat /\ d[i].msgs[q].len \in Nat \ {0}
  <2> SUFFICES ASSUME NEW i \in DOMAIN d, NEW q \in WantedAt(g, i)
               PROVE  d[i].msgs[q].n \in Nat /\ d[i].msgs[q].len \in Nat \ {0}
    OBVIOUS
  <2>1. d[i] \in Chunk /\ IsTrue(d[i]) /\ q \in DOMAIN d[i].msgs BY FileFacts, TruthFacts DEF d, WantedAt, AskedAt
  <2>2. d[i].msgs[q].n \in Nat /\ d[i].msgs[q].len \in Nat BY <2>1, MessageTypes
  <2>3. d[i] \in ToSet(file[g].chunks) /\ d[i].msgs[q] \in ToSet(d[i].msgs) BY <2>1 DEF d, ToSet
  <2>4. d[i].msgs[q].len > 0 BY <2>3 DEF NoEmptyMessages
  <2> QED BY <2>2, <2>4
<1>21. ASSUME NEW k \in 1 .. n
       PROVE  /\ \E i \in DOMAIN d : \E q \in WantedAt(g, i) : d[i].msgs[q].id = id /\ all[k] = d[i].msgs[q]
              /\ message[k] = Record(all[k]) /\ message[k].id = id /\ all[k].n \in Int
              /\ Rank(message[k]) = IF query.reverse THEN -all[k].n ELSE all[k].n
  <2>1. \E i \in DOMAIN d : \E q \in WantedAt(g, i) : d[i].msgs[q].id = id /\ all[k] = d[i].msgs[q] BY <1>1, <1>4
  <2>2. all[k].id = id /\ all[k].n \in Nat /\ all[k].len \in Nat \ {0} BY <1>20, <2>1
  <2>3. message[k] = Record(all[k]) BY <1>3, <1>4
  <2>4. Record(all[k]).id = id /\ Rank(Record(all[k])) = IF query.reverse THEN -all[k].n ELSE all[k].n BY <2>2, RecordFacts
  <2> QED BY <2>1, <2>2, <2>3, <2>4
<1>22. ASSUME NEW i \in DOMAIN d, NEW q \in WantedAt(g, i), d[i].msgs[q].id = id
       PROVE  \E k \in 1 .. n : message[k] = Record(d[i].msgs[q])
  BY <1>1, <1>3, <1>4, <1>22
<1> DEFINE Back(k) == IF query.reverse THEN n - k + 1 ELSE k
<1>23. IsSeq(e) /\ Len(e) = n /\ DOMAIN e = 1 .. n /\ \A k \in 1 .. n : Back(k) \in 1 .. n /\ e[k] = message[Back(k)] /\ Back(Back(k)) = k
  <2>1. message \in Seq({message[k] : k \in 1 .. n}) /\ Len(message) = n
    <3>1. message = [k \in 1 .. n |-> message[k]] BY <1>3, <1>4 DEF message
    <3>2. message \in [1 .. n -> {message[k] : k \in 1 .. n}] BY <3>1
    <3> QED BY <1>4, <3>2
  <2>2. DOMAIN message = 1 .. n BY <1>3, <1>4
  <2>3. CASE query.reverse
    <3>1. e = [k \in 1 .. n |-> message[n - k + 1]] BY <1>2, <2>1, <2>3 DEF Reverse
    <3>2. e \in [1 .. n -> {message[n - k + 1] : k \in 1 .. n}] BY <3>1
    <3>3. e \in Seq({message[n - k + 1] : k \in 1 .. n}) /\ Len(e) = n BY <1>4, <3>2
    <3>4. \A k \in 1 .. n : Back(k) \in 1 .. n /\ Back(Back(k)) = k BY <1>4, <2>3
    <3>5. IsSeq(e) BY <3>3, SeqFacts
    <3> QED BY <2>3, <3>1, <3>3, <3>4, <3>5
  <2>4. CASE ~query.reverse
    <3>1. IsSeq(e) BY <1>2, <2>1, <2>4, SeqFacts
    <3> QED BY <1>2, <2>1, <2>2, <2>4, <3>1
  <2> QED BY <2>3, <2>4
<1>24. ASSUME NEW k \in 1 .. n
       PROVE  e[k].id = id /\ Rank(e[k]) \in Int /\
                \E i \in DOMAIN d : \E q \in WantedAt(g, i) : d[i].msgs[q].id = id /\ e[k] = Record(d[i].msgs[q])
  <2>1. Back(k) \in 1 .. n /\ e[k] = message[Back(k)] BY <1>23
  <2> HIDE DEF Back
  <2>2. e[k].id = id /\ \E i \in DOMAIN d : \E q \in WantedAt(g, i) : d[i].msgs[q].id = id /\ e[k] = Record(d[i].msgs[q])
    BY <1>21, <2>1
  <2>3. all[Back(k)].n \in Int /\ Rank(e[k]) = IF query.reverse THEN -all[Back(k)].n ELSE all[Back(k)].n BY <1>21, <2>1
  <2>4. Rank(e[k]) \in Int BY <2>3
  <2> QED BY <2>2, <2>4
<1>25. ASSUME NEW i \in DOMAIN d, NEW q \in WantedAt(g, i), d[i].msgs[q].id = id
       PROVE  \E k \in 1 .. n : e[k] = Record(d[i].msgs[q])
  <2>1. PICK m \in 1 .. n : message[m] = Record(d[i].msgs[q]) BY <1>22, <1>25
  <2>2. Back(m) \in 1 .. n /\ Back(Back(m)) = m BY <1>23
  <2> HIDE DEF Back
  <2>3. e[Back(m)] = message[m] BY <1>23, <2>2
  <2> QED BY <2>1, <2>2, <2>3
<1>26. ASSUME NEW j \in 1 .. n, NEW k \in 1 .. n, j < k PROVE Rank(e[j]) < Rank(e[k])
  <2> DEFINE a == Back(j)
             b == Back(k)
  <2>1. a \in 1 .. n /\ b \in 1 .. n /\ e[j] = message[a] /\ e[k] = message[b] BY <1>23
  <2>2. IF query.reverse THEN b < a ELSE a < b BY <1>4, <1>26
  <2> HIDE DEF a, b, Back
  <2>3. /\ all[a].n \in Int /\ Rank(e[j]) = IF query.reverse THEN -all[a].n ELSE all[a].n
        /\ all[b].n \in Int /\ Rank(e[k]) = IF query.reverse THEN -all[b].n ELSE all[b].n
    BY <1>21, <2>1
  <2>4. IF query.reverse THEN all[b].n < all[a].n ELSE all[a].n < all[b].n BY <1>1, <1>4, <2>1, <2>2
  <2> QED BY <2>3, <2>4
<1> HIDE DEF Back
<1> QED BY <1>4, <1>23, <1>24, <1>25, <1>26 DEF d, e

(* What was returned is what was taken, but for the last message. *)
LEMMA DeliveredFacts ==
  ASSUME TypeInv, CourseInv, GivenInv, NoEmptyMessages, IsSeq(delivered)
  PROVE  /\ ToSet(delivered) \subseteq ToSet(Taken)
         /\ pc = "idle" => Taken = delivered
         /\ \A k \in DOMAIN iters :
              /\ Rising(delivered, file[iters[k].group].ids)
              /\ \A e, f : Took(e, k) /\ Took(f, k) /\ f \in ToSet(delivered) /\ Rank(e) < Rank(f) => e \in ToSet(delivered)
<1>1. Taken = delivered \/ \E c : Taken = Append(delivered, c) BY DEF Taken
<1>2. CASE Taken = delivered BY <1>2 DEF GivenInv, Gives, Took
<1>3. ASSUME NEW c, Taken = Append(delivered, c), pc # "idle"
      PROVE  /\ ToSet(delivered) \subseteq ToSet(Taken)
             /\ \A k \in DOMAIN iters :
                  /\ Rising(delivered, file[iters[k].group].ids)
                  /\ \A e, f : Took(e, k) /\ Took(f, k) /\ f \in ToSet(delivered) /\ Rank(e) < Rank(f) => e \in ToSet(delivered)
  <2> DEFINE T == {delivered[k] : k \in DOMAIN delivered}
             n == Len(delivered)
             t == Taken
  <2>1. delivered \in Seq(T) BY DEF IsSeq
  <2> HIDE DEF T, t
  <2>2. n \in Nat /\ DOMAIN delivered = 1 .. n BY <2>1
  <2>3. t = Append(delivered, c) BY <1>3 DEF t
  <2>4. DOMAIN t = 1 .. n + 1 /\ t[n + 1] = c /\ \A k \in 1 .. n : t[k] = delivered[k] BY <2>1, <2>3
  <2> HIDE DEF n
  <2>5. ToSet(t) = ToSet(delivered) \cup {c} BY <2>3, AppendFacts
  <2>6. n + 1 \in 1 .. n + 1 /\ \A k \in 1 .. n : k \in 1 .. n + 1 /\ k < n + 1 BY <2>2
  <2>7. ASSUME NEW k \in DOMAIN iters
        PROVE  /\ Rising(delivered, file[iters[k].group].ids)
               /\ \A e, f : Took(e, k) /\ Took(f, k) /\ f \in ToSet(delivered) /\ Rank(e) < Rank(f) => e \in ToSet(delivered)
    <3> DEFINE ids == file[iters[k].group].ids
    <3>1. Rising(t, ids) BY DEF GivenInv, Gives, t
    <3>2. \A e : Took(e, k) => e \in ToSet(t) /\ e.id \in ids BY DEF Took, t
    <3>3. \A e : Took(e, k) => Rank(e) \in Int
      <4>1. ASSUME NEW e, Took(e, k) PROVE Rank(e) \in Int
        <5>1. IsGiven(e, iters[k], Cursor(k)) BY <4>1 DEF GivenInv, Gives
        <5>2. IterOK(iters[k]) /\ iters[k].chunks = Listed(iters[k].group) /\ file \in Files /\ query \in Queries
          BY DEF TypeInv, ItersOK, CourseInv, Course
        <5> QED BY <5>1, <5>2, GivenRank
      <4> QED BY <4>1
    <3> HIDE DEF ids
    <3>4. Rising(delivered, ids) BY <2>2, <2>4, <2>6, <3>1 DEF Rising
    <3>5. ASSUME NEW e, NEW f, Took(e, k), Took(f, k), f \in ToSet(delivered), Rank(e) < Rank(f) PROVE e \in ToSet(delivered)
      <4>1. PICK x \in 1 .. n : f = delivered[x] BY <2>2, <3>5 DEF ToSet
      <4>2. Rank(f) < Rank(c) \/ e # c BY <2>4, <2>6, <3>1, <3>2, <3>5, <4>1 DEF Rising
      <4>3. Rank(e) \in Int /\ Rank(f) \in Int BY <3>3, <3>5
      <4>4. e # c
        <5> SUFFICES ASSUME e = c PROVE FALSE OBVIOUS
        <5>1. Rank(f) < Rank(e) BY <4>2
        <5> QED BY <3>5, <4>3, <5>1
      <4> QED BY <2>5, <3>2, <3>5, <4>4
    <3> QED BY <3>4, <3>5 DEF ids
  <2> QED BY <2>5, <2>7 DEF t
<1>4. pc = "idle" => Taken = delivered BY DEF Taken
<1> QED BY <1>1, <1>2, <1>3, <1>4

(* A message that is asked for is promised. *)
LEMMA AskedIsPromised ==
  ASSUME file \in Files, query \in Queries, NoEmptyMessages, NEW g \in DOMAIN file,
         NEW i \in DOMAIN file[g].chunks, NEW q \in AskedAt(g, i), NEW c, c = Listed(g)
  PROVE  \E p \in DOMAIN c : \E m \in DOMAIN Kept(g, c[p]) :
           Record(file[g].chunks[i].msgs[q]) = Promise(g, c[p], m)
<1>1. i \in ToSet(Listed(g)) /\ query.start <= file[g].chunks[i].end BY PassedBy
<1>2. PICK p \in DOMAIN c : c[p] = i BY <1>1 DEF ToSet
<1>3. DOMAIN Kept(g, i) = DOMAIN Arranged(AskedAt(g, i)) BY <1>1, KeptAsked
<1>4. PICK m \in DOMAIN Arranged(AskedAt(g, i)) : Arranged(AskedAt(g, i))[m] = q BY AskedPlaces
<1>5. Promise(g, i, m) = Record(file[g].chunks[i].msgs[q]) BY <1>4 DEF Promise, Message
<1> QED BY <1>2, <1>3, <1>4, <1>5

(* What is given is asked for. *)
LEMMA GivenIsAsked ==
  ASSUME file \in Files, query \in Queries, NoEmptyMessages, NEW i, IterOK(i), i.chunks = Listed(i.group),
         NEW e, NEW cur, IsGiven(e, i, cur)
  PROVE  \E n \in DOMAIN file[i.group].chunks : \E q \in AskedAt(i.group, n) :
           e = Record(file[i.group].chunks[n].msgs[q]) /\ e.id = file[i.group].chunks[n].msgs[q].id
<1>1. PICK p \in DOMAIN i.chunks : \E m \in DOMAIN Kept(i.group, i.chunks[p]) : e = Promise(i.group, i.chunks[p], m)
  BY DEF IsGiven
<1>2. PICK m \in DOMAIN Kept(i.group, i.chunks[p]) : e = Promise(i.group, i.chunks[p], m) BY <1>1
<1> DEFINE g == i.group
           n == i.chunks[p]
           q == Arranged(AskedAt(g, n))[m]
<1>3. g \in DOMAIN file /\ n \in ToSet(Listed(g)) BY ServingType DEF ToSet
<1>4. n \in DOMAIN file[g].chunks /\ q \in AskedAt(g, n) /\ e.id = Message(g, n, m).id BY <1>2, <1>3, PromiseFacts
<1>5. e = Record(Message(g, n, m)) /\ Message(g, n, m) = file[g].chunks[n].msgs[q] BY <1>2 DEF Promise, Message
<1> QED BY <1>4, <1>5

(* The messages of a topic that were returned. *)
LEMMA OfFacts ==
  ASSUME IsSeq(delivered), NEW id
  PROVE  LET o == Of(id) IN
         /\ IsSeq(o) /\ Len(o) \in Nat /\ DOMAIN o = 1 .. Len(o)
         /\ \A j \in DOMAIN o : o[j] \in ToSet(delivered) /\ o[j].id = id
         /\ \A e \in ToSet(delivered) : e.id = id => \E j \in DOMAIN o : o[j] = e
         /\ \A ids : id \in ids /\ Rising(delivered, ids) => \A j, k \in DOMAIN o : j < k => Rank(o[j]) < Rank(o[k])
<1> DEFINE T == {delivered[k] : k \in DOMAIN delivered}
           S == {k \in DOMAIN delivered : delivered[k].id = id}
           o == Of(id)
           a == Arranged(S)
<1>1. delivered \in Seq(T) BY DEF IsSeq
<1>2. o = Picked(delivered, S) /\ S \subseteq DOMAIN delivered BY DEF Of
<1>3. \A k : k \in S <=> k \in DOMAIN delivered /\ delivered[k].id = id OBVIOUS
<1> HIDE DEF T, S, o
<1>4. /\ o \in Seq(T) /\ \A i \in DOMAIN o : a[i] \in S /\ o[i] = delivered[a[i]]
      /\ \A i, j \in DOMAIN o : i < j => a[i] < a[j]
      /\ \A x \in S : \E i \in DOMAIN o : a[i] = x
  BY <1>1, <1>2, PickedFacts
<1> HIDE DEF a
<1>5. IsSeq(o) /\ Len(o) \in Nat /\ DOMAIN o = 1 .. Len(o) BY <1>4, SeqFacts
<1>6. \A j \in DOMAIN o : o[j] \in ToSet(delivered) /\ o[j].id = id BY <1>3, <1>4 DEF ToSet
<1>7. ASSUME NEW e \in ToSet(delivered), e.id = id PROVE \E j \in DOMAIN o : o[j] = e
  <2>1. PICK k \in DOMAIN delivered : delivered[k] = e BY DEF ToSet
  <2>2. k \in S BY <1>3, <1>7, <2>1
  <2> QED BY <1>4, <2>1, <2>2
<1>8. ASSUME NEW ids, id \in ids, Rising(delivered, ids), NEW j \in DOMAIN o, NEW k \in DOMAIN o, j < k
      PROVE  Rank(o[j]) < Rank(o[k])
  BY <1>3, <1>4, <1>8 DEF Rising
<1> QED BY <1>5, <1>6, <1>7, <1>8 DEF o

(* Those of them that are judged. *)
LEMMA JudgedFacts ==
  ASSUME IsSeq(delivered), NEW g, NEW id
  PROVE  LET o == JudgedOf(g, id) IN
         /\ IsSeq(o) /\ Len(o) \in Nat /\ DOMAIN o = 1 .. Len(o)
         /\ \A j \in DOMAIN o : o[j] \in ToSet(delivered) /\ o[j].id = id /\ Judged(g, o[j].ts)
         /\ \A e \in ToSet(delivered) : e.id = id /\ Judged(g, e.ts) => \E j \in DOMAIN o : o[j] = e
         /\ \A ids : id \in ids /\ Rising(delivered, ids) => \A j, k \in DOMAIN o : j < k => Rank(o[j]) < Rank(o[k])
<1> DEFINE s == Of(id)
           T == {s[k] : k \in DOMAIN s}
           S == {k \in DOMAIN s : Judged(g, s[k].ts)}
           o == JudgedOf(g, id)
           a == Arranged(S)
<1>1. /\ IsSeq(s)
      /\ \A j \in DOMAIN s : s[j] \in ToSet(delivered) /\ s[j].id = id
      /\ \A e \in ToSet(delivered) : e.id = id => \E j \in DOMAIN s : s[j] = e
      /\ \A ids : id \in ids /\ Rising(delivered, ids) => \A j, k \in DOMAIN s : j < k => Rank(s[j]) < Rank(s[k])
  BY OfFacts
<1>2. o = Picked(s, S) /\ S \subseteq DOMAIN s BY DEF JudgedOf
<1>3. \A k : k \in S <=> k \in DOMAIN s /\ Judged(g, s[k].ts) OBVIOUS
<1> HIDE DEF s
<1>4. s \in Seq(T) BY <1>1 DEF IsSeq
<1> HIDE DEF T, S, o
<1>5. /\ o \in Seq(T) /\ \A i \in DOMAIN o : a[i] \in S /\ o[i] = s[a[i]]
      /\ \A i, j \in DOMAIN o : i < j => a[i] < a[j]
      /\ \A x \in S : \E i \in DOMAIN o : a[i] = x
  BY <1>2, <1>4, PickedFacts
<1> HIDE DEF a
<1>6. IsSeq(o) /\ Len(o) \in Nat /\ DOMAIN o = 1 .. Len(o) BY <1>5, SeqFacts
<1>7. \A j \in DOMAIN o : o[j] \in ToSet(delivered) /\ o[j].id = id /\ Judged(g, o[j].ts) BY <1>1, <1>3, <1>5
<1>8. ASSUME NEW e \in ToSet(delivered), e.id = id, Judged(g, e.ts) PROVE \E j \in DOMAIN o : o[j] = e
  <2>1. PICK k \in DOMAIN s : s[k] = e BY <1>1, <1>8
  <2>2. k \in S BY <1>3, <1>8, <2>1
  <2> QED BY <1>5, <2>1, <2>2
<1>9. ASSUME NEW ids, id \in ids, Rising(delivered, ids), NEW j \in DOMAIN o, NEW k \in DOMAIN o, j < k
      PROVE  Rank(o[j]) < Rank(o[k])
  <2>1. \A x, y \in DOMAIN s : x < y => Rank(s[x]) < Rank(s[y]) BY <1>1, <1>9
  <2>2. a[j] < a[k] /\ a[j] \in DOMAIN s /\ a[k] \in DOMAIN s BY <1>3, <1>5, <1>9
  <2> QED BY <1>5, <2>1, <2>2
<1> QED BY <1>6, <1>7, <1>8, <1>9 DEF o

(* A list of some messages of another, and of all that come before them,   *)
(* is where the other begins.                                              *)
RanksClimb(o, m) == \A i \in 1 .. m : Rank(o[i]) \in Int /\ \A j \in 1 .. m : i < j => Rank(o[i]) < Rank(o[j])
Sooners(o, m, e, n) ==
  /\ \A i \in 1 .. m : \E j \in 1 .. n : e[j] = o[i]
  /\ \A i \in 1 .. m : \A j \in 1 .. n : Rank(e[j]) < Rank(o[i]) => \E k \in 1 .. m : o[k] = e[j]

(* By their ranks. *)
LEMMA RankedStart ==
  ASSUME NEW m \in Nat, NEW n \in Nat, NEW o, NEW e, RanksClimb(o, m), RanksClimb(e, n), Sooners(o, m, e, n)
  PROVE  m <= n /\ \A i \in 1 .. m : o[i] = e[i]
<1> DEFINE a == [i \in 1 .. m |-> Rank(o[i])]
           b == [i \in 1 .. n |-> Rank(e[i])]
<1>1. \A i \in 1 .. m : a[i] = Rank(o[i]) OBVIOUS
<1>2. \A i \in 1 .. n : b[i] = Rank(e[i]) OBVIOUS
<1> HIDE DEF a, b
<1>3. Climbs(a, m) BY <1>1 DEF Climbs, RanksClimb
<1>4. Climbs(b, n) BY <1>2 DEF Climbs, RanksClimb
<1>5. \A i \in 1 .. m : \E j \in 1 .. n : b[j] = a[i] BY <1>1, <1>2 DEF Sooners
<1>6. \A i \in 1 .. m : \A j \in 1 .. n : b[j] < a[i] => \E k \in 1 .. m : a[k] = b[j] BY <1>1, <1>2 DEF Sooners
<1>7. m <= n /\ \A i \in 1 .. m : a[i] = b[i] BY <1>3, <1>4, <1>5, <1>6, SameStart
<1>8. ASSUME NEW i \in 1 .. m PROVE o[i] = e[i]
  <2>1. PICK l \in 1 .. n : e[l] = o[i] BY DEF Sooners
  <2>2. i \in 1 .. n BY <1>7
  <2>3. b[l] = b[i] BY <1>1, <1>2, <1>7, <2>1
  <2>4. l = i
    <3>1. l < i \/ l = i \/ i < l BY <2>2
    <3>2. b[i] \in Int BY <1>4, <2>2 DEF Climbs
    <3>3. ~(l < i) /\ ~(i < l) BY <1>4, <2>2, <2>3, <3>2 DEF Climbs
    <3> QED BY <3>1, <3>3
  <2> QED BY <2>1, <2>4
<1> QED BY <1>7, <1>8

(* What is returned of a topic was asked for, and nothing that comes before *)
(* it was left out.                                                        *)
LEMMA OfSooner ==
  ASSUME TypeInv, CourseInv, GivenInv, NoEmptyMessages, IsSeq(delivered),
         NEW k \in DOMAIN iters, NEW id \in file[iters[k].group].ids
  PROVE  LET g == iters[k].group
             d == file[g].chunks
         IN  /\ Rising(delivered, file[g].ids)
             /\ \A f \in ToSet(delivered) : f.id = id =>
                  /\ Rank(f) \in Int
                  /\ \E c \in DOMAIN d : \E q \in AskedAt(g, c) : f = Record(d[c].msgs[q]) /\ d[c].msgs[q].id = id
             /\ \A f \in ToSet(delivered) : \A c \in DOMAIN d : \A q \in AskedAt(g, c) :
                  f.id = id /\ d[c].msgs[q].id = id /\ Rank(Record(d[c].msgs[q])) < Rank(f)
                    => Record(d[c].msgs[q]) \in ToSet(delivered)
<1> DEFINE g == iters[k].group
           ids == file[g].ids
           d == file[g].chunks
           i == iters[k]
           cur == Cursor(k)
<1>1. /\ file \in Files /\ query \in Queries /\ IterOK(i) /\ g \in DOMAIN file /\ i.group = g
      /\ i.chunks = Listed(g) /\ Gives(k)
  BY DEF TypeInv, ItersOK, IterOK, CourseInv, Course, GivenInv
<1>2. cur \in Int
  <2>1. IterOK(i) => i.cur \in Int BY DEF IterOK
  <2>2. iters \in Seq(IterType) BY DEF TypeInv, ItersOK
  <2>3. i \in IterType BY <2>2
  <2>4. i.kept \in Seq(KeptMessage) BY <2>3 DEF IterType
  <2>5. First(i.kept) \in Int BY <2>4, <1>1, FirstType
  <2> QED BY <1>1, <2>1, <2>5 DEF Cursor
<1>5. /\ ToSet(delivered) \subseteq ToSet(Taken) /\ Rising(delivered, ids)
      /\ \A f, h : Took(f, k) /\ Took(h, k) /\ h \in ToSet(delivered) /\ Rank(f) < Rank(h) => f \in ToSet(delivered)
  BY DeliveredFacts
<1>6. \A f : Took(f, k) <=> f \in ToSet(Taken) /\ f.id \in ids BY DEF Took
<1>7. /\ \A f : Took(f, k) \/ InHeap(f, k) <=> IsGiven(f, i, cur)
      /\ \A f, h : Took(f, k) /\ InHeap(h, k) => Rank(f) < Rank(h)
  BY <1>1 DEF Gives
<1>8. id \in ids OBVIOUS
<1>9. \A c \in DOMAIN d : \A q \in AskedAt(g, c) : \E p \in DOMAIN i.chunks : \E x \in DOMAIN Kept(g, i.chunks[p]) :
         Record(d[c].msgs[q]) = Promise(g, i.chunks[p], x)
  BY <1>1, AskedIsPromised
<1>10. \A f : IsGiven(f, i, cur) => /\ Rank(f) \in Int
                                    /\ \E c \in DOMAIN d : \E q \in AskedAt(g, c) : f = Record(d[c].msgs[q]) /\ f.id = d[c].msgs[q].id
  BY <1>1, GivenRank, GivenIsAsked
<1>11. \A f, h : /\ IsGiven(f, i, cur)
                 /\ \E p \in DOMAIN i.chunks : \E x \in DOMAIN Kept(g, i.chunks[p]) : h = Promise(g, i.chunks[p], x)
                 /\ Rank(h) < Rank(f)
                 => IsGiven(h, i, cur)
  BY <1>1, <1>2, GivenSooner
<1> HIDE DEF g, ids, d, i, cur
<1>12. \A f \in ToSet(delivered) : f.id = id => Took(f, k) /\ IsGiven(f, i, cur) BY <1>5, <1>6, <1>7, <1>8
<1>13. \A f \in ToSet(delivered) : f.id = id =>
         /\ Rank(f) \in Int
         /\ \E c \in DOMAIN d : \E q \in AskedAt(g, c) : f = Record(d[c].msgs[q]) /\ d[c].msgs[q].id = id
  BY <1>10, <1>12
<1>14. ASSUME NEW f \in ToSet(delivered), NEW c \in DOMAIN d, NEW q \in AskedAt(g, c),
              f.id = id, d[c].msgs[q].id = id, Rank(Record(d[c].msgs[q])) < Rank(f)
       PROVE  Record(d[c].msgs[q]) \in ToSet(delivered)
  <2> DEFINE h == Record(d[c].msgs[q])
  <2>1. Took(f, k) /\ IsGiven(f, i, cur) BY <1>12, <1>14
  <2>2. IsGiven(h, i, cur) BY <1>9, <1>11, <1>14, <2>1
  <2>3. Rank(h) \in Int /\ Rank(f) \in Int BY <1>10, <2>1, <2>2
  <2>4. Rank(h) < Rank(f) BY <1>14
  <2> HIDE DEF h
  <2>5. ~InHeap(h, k)
    <3> SUFFICES ASSUME InHeap(h, k) PROVE FALSE OBVIOUS
    <3>1. Rank(f) < Rank(h) BY <1>7, <2>1
    <3> QED BY <2>3, <2>4, <3>1
  <2>6. Took(h, k) BY <1>7, <2>2, <2>5
  <2>7. h \in ToSet(delivered) BY <1>5, <1>14, <2>1, <2>4, <2>6
  <2> QED BY <2>7 DEF h
<1> QED BY <1>5, <1>13, <1>14 DEF g, ids, d

(* What was returned of a topic and is judged is where the messages wanted *)
(* begin.                                                                  *)
LEMMA OfBegins ==
  ASSUME TypeInv, CourseInv, GivenInv, NoEmptyMessages, IsSeq(delivered),
         NEW k \in DOMAIN iters, NEW id \in file[iters[k].group].ids
  PROVE  LET o == JudgedOf(iters[k].group, id)
             e == Expected(iters[k].group, id)
         IN  Len(o) <= Len(e) /\ \A j \in DOMAIN o : o[j] = e[j]
<1> DEFINE g == iters[k].group
           ids == file[g].ids
           d == file[g].chunks
           o == JudgedOf(g, id)
           e == Expected(g, id)
           m == Len(o)
           n == Len(e)
<1>1. file \in Files /\ query \in Queries /\ g \in DOMAIN file BY DEF TypeInv, ItersOK, IterOK
<1>2. /\ Rising(delivered, ids) /\ id \in ids
      /\ \A f \in ToSet(delivered) : f.id = id =>
           /\ Rank(f) \in Int
           /\ \E c \in DOMAIN d : \E q \in AskedAt(g, c) : f = Record(d[c].msgs[q]) /\ d[c].msgs[q].id = id
      /\ \A f \in ToSet(delivered) : \A c \in DOMAIN d : \A q \in AskedAt(g, c) :
           f.id = id /\ d[c].msgs[q].id = id /\ Rank(Record(d[c].msgs[q])) < Rank(f)
             => Record(d[c].msgs[q]) \in ToSet(delivered)
  BY OfSooner
<1>3. /\ n \in Nat /\ DOMAIN e = 1 .. n
      /\ \A j \in DOMAIN e : \E c \in DOMAIN d : \E q \in WantedAt(g, c) : d[c].msgs[q].id = id /\ e[j] = Record(d[c].msgs[q])
      /\ \A c \in DOMAIN d : \A q \in WantedAt(g, c) : d[c].msgs[q].id = id => \E j \in DOMAIN e : e[j] = Record(d[c].msgs[q])
      /\ \A j, l \in DOMAIN e : j < l => Rank(e[j]) < Rank(e[l])
      /\ \A j \in DOMAIN e : Rank(e[j]) \in Int /\ e[j].id = id
  <2> DEFINE E == Expected(g, id)
  <2>1. /\ IsSeq(E) /\ Len(E) \in Nat /\ DOMAIN E = 1 .. Len(E)
        /\ \A j \in DOMAIN E : E[j].id = id /\
             \E c \in DOMAIN d : \E q \in WantedAt(g, c) : d[c].msgs[q].id = id /\ E[j] = Record(d[c].msgs[q])
        /\ \A c \in DOMAIN d : \A q \in WantedAt(g, c) : d[c].msgs[q].id = id => \E j \in DOMAIN E : E[j] = Record(d[c].msgs[q])
        /\ \A j, l \in DOMAIN E : j < l => Rank(E[j]) < Rank(E[l])
        /\ \A j \in DOMAIN E : Rank(E[j]) \in Int
    BY <1>1, ExpectedFacts
  <2> HIDE DEF d
  <2> QED BY <2>1
<1>4. /\ m \in Nat /\ DOMAIN o = 1 .. m
      /\ \A j \in DOMAIN o : o[j] \in ToSet(delivered) /\ o[j].id = id /\ Judged(g, o[j].ts)
      /\ \A f \in ToSet(delivered) : f.id = id /\ Judged(g, f.ts) => \E j \in DOMAIN o : o[j] = f
      /\ \A I : id \in I /\ Rising(delivered, I) => \A j, l \in DOMAIN o : j < l => Rank(o[j]) < Rank(o[l])
  BY JudgedFacts
<1>5. \A c : \A q : q \in WantedAt(g, c) <=> q \in AskedAt(g, c) /\ Judged(g, d[c].msgs[q].ts) BY DEF WantedAt
<1>6. \A x : Record(x).ts = x.ts BY DEF Record
<1> HIDE DEF g, ids, d, o, e, m, n
<1>14. ASSUME NEW j \in 1 .. m PROVE o[j] \in ToSet(delivered) /\ o[j].id = id /\ Rank(o[j]) \in Int
  BY <1>2, <1>4
<1>15. RanksClimb(o, m) BY <1>2, <1>4, <1>14 DEF RanksClimb
<1>16. RanksClimb(e, n) BY <1>3 DEF RanksClimb
<1>17. ASSUME NEW j \in 1 .. m PROVE \E l \in 1 .. n : e[l] = o[j]
  <2>1. PICK c \in DOMAIN d : \E q \in AskedAt(g, c) : o[j] = Record(d[c].msgs[q]) /\ d[c].msgs[q].id = id BY <1>2, <1>14
  <2>2. PICK q \in AskedAt(g, c) : o[j] = Record(d[c].msgs[q]) /\ d[c].msgs[q].id = id BY <2>1
  <2>3. Judged(g, d[c].msgs[q].ts) BY <1>4, <1>6, <2>2
  <2>4. q \in WantedAt(g, c) BY <1>5, <2>3
  <2>5. \E l \in DOMAIN e : e[l] = Record(d[c].msgs[q]) BY <1>3, <2>2, <2>4
  <2> QED BY <1>3, <2>2, <2>5
<1>18. ASSUME NEW j \in 1 .. m, NEW l \in 1 .. n, Rank(e[l]) < Rank(o[j]) PROVE \E x \in 1 .. m : o[x] = e[l]
  <2>1. PICK c \in DOMAIN d : \E q \in WantedAt(g, c) : d[c].msgs[q].id = id /\ e[l] = Record(d[c].msgs[q]) BY <1>3
  <2>2. PICK q \in WantedAt(g, c) : d[c].msgs[q].id = id /\ e[l] = Record(d[c].msgs[q]) BY <2>1
  <2>3. q \in AskedAt(g, c) /\ Judged(g, e[l].ts) BY <1>5, <1>6, <2>2
  <2>4. Rank(Record(d[c].msgs[q])) < Rank(o[j]) BY <1>18, <2>2
  <2>5. e[l] \in ToSet(delivered) BY <1>2, <1>14, <2>2, <2>3, <2>4
  <2>6. e[l].id = id BY <1>3
  <2> QED BY <1>4, <2>3, <2>5, <2>6
<1>19. m \in Nat /\ n \in Nat BY <1>3, <1>4
<1>20. Sooners(o, m, e, n) BY <1>17, <1>18 DEF Sooners
<1>21. m <= n /\ \A j \in 1 .. m : o[j] = e[j] BY <1>15, <1>16, <1>19, <1>20, RankedStart
<1> QED BY <1>4, <1>21 DEF o, e, m, n, g

(* After the end of file everything asked for was returned. *)
LEMMA EofGivesAll ==
  ASSUME TypeInv, PhaseInv, ItemInv, CourseInv, EofInv, GivenInv, NoEmptyMessages, result = "eof",
         NEW g \in DOMAIN file, NEW c \in DOMAIN file[g].chunks, NEW q \in AskedAt(g, c)
  PROVE  Record(file[g].chunks[c].msgs[q]) \in ToSet(delivered)
<1> DEFINE e == Record(file[g].chunks[c].msgs[q])
<1>1. /\ file \in Files /\ query \in Queries /\ iters \in Seq(IterType)
      /\ \A k \in DOMAIN iters : IterOK(iters[k]) /\ iters[k].group = Planned[k]
  BY DEF TypeInv, ItersOK
<1>2. pc = "idle" /\ loaded /\ heap = <<>> /\ ~Held BY DEF EofInv, Held
<1>3. DOMAIN iters = DOMAIN Planned BY <1>2 DEF CourseInv
<1>4. PICK k \in DOMAIN iters : Planned[k] = g BY <1>1, <1>3, PlannedFacts
<1> DEFINE i == iters[k]
<1>5. IterOK(i) /\ i.group = g /\ i.chunks = Listed(g) /\ Course(i, i.cur) /\ i.cur \in 0 .. Len(i.kept) + 1
  <2>1. Cursor(k) = i.cur BY <1>2 DEF Cursor
  <2>2. Course(i, Cursor(k)) /\ Cursor(k) \in 0 .. Len(i.kept) + 1 BY DEF CourseInv, ItemInv
  <2> QED BY <1>1, <1>4, <2>1, <2>2 DEF Course
<1>6. Spent(k)
  <2>1. ~HasItem(k) BY <1>2 DEF HasItem
  <2> QED BY <1>2, <2>1 DEF ItemInv
<1>7. PICK p \in DOMAIN i.chunks : \E m \in DOMAIN Kept(g, i.chunks[p]) : e = Promise(g, i.chunks[p], m)
  BY <1>1, <1>5, AskedIsPromised
<1>8. IsGiven(e, i, i.cur) BY <1>1, <1>5, <1>6, <1>7, GivenAll DEF Spent
<1> HIDE DEF e
<1>9. ~InHeap(e, k) BY <1>2 DEF InHeap, ToSet
<1>10. Took(e, k)
  <2>1. Cursor(k) = i.cur /\ Gives(k) BY <1>2 DEF Cursor, GivenInv
  <2> QED BY <1>8, <1>9, <2>1 DEF Gives
<1>11. Taken = delivered BY <1>2 DEF Taken
<1> QED BY <1>10, <1>11 DEF Took, e

(* A topic that no iterator reads has nothing returned. *)
LEMMA OfOthers ==
  ASSUME TypeInv, CourseInv, GivenInv, NoEmptyMessages, IsSeq(delivered), NEW g \in DOMAIN file,
         NEW id \in file[g].ids, \A k \in DOMAIN iters : iters[k].group # g
  PROVE  DOMAIN Of(id) = {}
<1> SUFFICES ASSUME NEW j \in DOMAIN Of(id) PROVE FALSE OBVIOUS
<1>1. Of(id)[j] \in ToSet(delivered) /\ Of(id)[j].id = id BY OfFacts
<1>2. Of(id)[j] \in ToSet(Taken) BY <1>1, DeliveredFacts
<1>3. PICK k \in DOMAIN iters : Took(Of(id)[j], k) BY <1>2 DEF GivenInv
<1>4. id \in file[iters[k].group].ids BY <1>1, <1>3 DEF Took
<1>5. file \in Files /\ iters[k].group \in DOMAIN file BY DEF TypeInv, ItersOK, IterOK
<1> QED BY <1>4, <1>5, TruthFacts

(* What was returned of a topic and is judged, in any group. *)
LEMMA OfAny ==
  ASSUME TypeInv, CourseInv, GivenInv, NoEmptyMessages, IsSeq(delivered), NEW g \in DOMAIN file, NEW id \in file[g].ids
  PROVE  LET o == JudgedOf(g, id)
             e == Expected(g, id)
         IN  Len(o) <= Len(e) /\ \A j \in DOMAIN o : o[j] = e[j]
<1>1. CASE \E k \in DOMAIN iters : iters[k].group = g
  <2>1. PICK k \in DOMAIN iters : iters[k].group = g BY <1>1
  <2>2. id \in file[iters[k].group].ids BY <2>1
  <2> QED BY <2>1, <2>2, OfBegins
<1>2. CASE ~\E k \in DOMAIN iters : iters[k].group = g
  <2>1. DOMAIN Of(id) = {} BY <1>2, OfOthers
  <2> DEFINE o == JudgedOf(g, id)
  <2>2. Len(o) \in Nat /\ DOMAIN o = 1 .. Len(o) /\ \A j \in DOMAIN o : o[j] \in ToSet(delivered) /\ o[j].id = id
    BY JudgedFacts
  <2>3. \A e \in ToSet(delivered) : e.id # id BY <2>1, OfFacts
  <2> HIDE DEF o
  <2>4. Len(o) = 0
    <3> SUFFICES ASSUME Len(o) # 0 PROVE FALSE OBVIOUS
    <3>1. 1 \in DOMAIN o BY <2>2
    <3> QED BY <2>2, <2>3, <3>1
  <2>5. Len(Expected(g, id)) \in Nat
    <3>1. file \in Files /\ query \in Queries BY DEF TypeInv
    <3> QED BY <3>1, ExpectedFacts
  <2> QED BY <2>2, <2>4, <2>5 DEF o
<1> QED BY <1>1, <1>2

(* Bytes are kept apart if no message is empty. *)
LEMMA BytesAreKept ==
  ASSUME file \in Files, NoEmptyMessages, NEW g \in DOMAIN file
  PROVE  BytesKept(g)
<1> SUFFICES ASSUME NEW c \in ToSet(file[g].chunks)
             PROVE  /\ \A t, u \in DOMAIN c.topics : t # u =>
                         ToSet(Offs(c.topics[t].msgs)) \cap ToSet(Offs(c.topics[u].msgs)) = {}
                    /\ \A m \in ToSet(c.msgs) : m.len > 0
  BY DEF BytesKept
<1>1. PICK i \in DOMAIN file[g].chunks : c = file[g].chunks[i] BY DEF ToSet
<1>2. c \in Chunk /\ IsTrue(c) BY <1>1, FileFacts, TruthFacts
<1>3. \A m \in ToSet(c.msgs) : m.len > 0 BY DEF NoEmptyMessages
<1>4. ASSUME NEW t \in DOMAIN c.topics, NEW off \in ToSet(Offs(c.topics[t].msgs))
      PROVE  \E q \in DOMAIN c.msgs : c.msgs[q].id = c.topics[t].id /\ off = c.data[q].at
  <2> DEFINE mine == MessagesOf(c, c.topics[t].id)
  <2>1. c.topics[t].msgs = [k \in DOMAIN mine |-> [ts |-> c.msgs[mine[k]].ts, off |-> c.data[mine[k]].at]]
    BY <1>2 DEF IsTrue, ToSet
  <2>4. PICK k \in DOMAIN c.topics[t].msgs : off = c.topics[t].msgs[k].off
    <3> DEFINE s == Offs(c.topics[t].msgs)
    <3>1. DOMAIN s = DOMAIN c.topics[t].msgs /\ \A k \in DOMAIN s : s[k] = c.topics[t].msgs[k].off BY DEF Offs
    <3>2. PICK k \in DOMAIN s : off = s[k] BY DEF ToSet
    <3> QED BY <3>1, <3>2
  <2>2. k \in DOMAIN mine /\ off = c.data[mine[k]].at
    <3> HIDE DEF mine
    <3>1. DOMAIN c.topics[t].msgs = DOMAIN mine BY <2>1
    <3>2. k \in DOMAIN mine BY <2>4, <3>1
    <3>3. c.topics[t].msgs[k] = [ts |-> c.msgs[mine[k]].ts, off |-> c.data[mine[k]].at] BY <2>1, <3>2
    <3> QED BY <2>4, <3>2, <3>3
  <2>3. mine[k] \in DOMAIN c.msgs /\ c.msgs[mine[k]].id = c.topics[t].id BY <1>2, <2>2, MessagesOfFacts
  <2> QED BY <2>2, <2>3
<1>5. ASSUME NEW t \in DOMAIN c.topics, NEW u \in DOMAIN c.topics, t # u,
             NEW off \in ToSet(Offs(c.topics[t].msgs)) \cap ToSet(Offs(c.topics[u].msgs))
      PROVE  FALSE
  <2>1. PICK q \in DOMAIN c.msgs : c.msgs[q].id = c.topics[t].id /\ off = c.data[q].at BY <1>4
  <2>2. PICK r \in DOMAIN c.msgs : c.msgs[r].id = c.topics[u].id /\ off = c.data[r].at BY <1>4
  <2>3. c.topics[t].id # c.topics[u].id BY <1>2, <1>5 DEF IsTrue
  <2>4. q # r BY <2>1, <2>2, <2>3
  <2>5. \A x, y \in DOMAIN c.msgs : x < y => c.data[x].at < c.data[y].at
    <3>1. \A x, y \in DOMAIN c.msgs : x < y => c.data[x].at + c.msgs[x].len <= c.data[y].at BY <1>2, BytesFollow
    <3>2. \A x \in DOMAIN c.msgs : c.data[x].at \in Nat /\ c.msgs[x].len \in Nat BY <1>2, MessageTypes
    <3>3. \A x \in DOMAIN c.msgs : c.msgs[x].len > 0 BY <1>3 DEF ToSet
    <3> QED BY <3>1, <3>2, <3>3
  <2>6. DOMAIN c.msgs = 1 .. Len(c.msgs) /\ c.data[q].at \in Nat BY <1>2, MessageTypes
  <2>7. q < r \/ r < q BY <2>4, <2>6
  <2>8. ~(c.data[q].at < c.data[q].at) /\ c.data[q].at = c.data[r].at BY <2>1, <2>2, <2>6
  <2> QED BY <2>5, <2>7, <2>8
<1> QED BY <1>3, <1>5

(* Until a read fails, what is returned of a topic are the messages the    *)
(* query asks for, each with its own bytes and in the order they were      *)
(* written, and after io.EOF none is missing; provided that no message is  *)
(* empty, and of a group that loses its anchor (SnapsBack) for the range   *)
(* itself.                                                                 *)
THEOREM SdkEofMeansAll ==
  SdkSpec => [](NoEmptyMessages => EofMeansAll /\ \A g \in DOMAIN file : BytesKept(g))
<1>1. GiftInv => (NoEmptyMessages => EofMeansAll)
  <2> SUFFICES ASSUME GiftInv, NoEmptyMessages, ~failed, NEW g \in DOMAIN file, NEW id \in file[g].ids
               PROVE  /\ IsPrefix(Shown(g, JudgedOf(g, id)), Shown(g, Expected(g, id)))
                      /\ result = "eof" => Shown(g, JudgedOf(g, id)) = Shown(g, Expected(g, id))
    BY DEF EofMeansAll
  <2>1. TypeInv /\ PhaseInv /\ ItemInv /\ CourseInv /\ EofInv /\ GivenInv /\ IsSeq(delivered)
    BY DEF GiftInv, IteratorInv, LooseEnd
  <2>2. file \in Files /\ query \in Queries BY <2>1 DEF TypeInv
  <2> DEFINE o == JudgedOf(g, id)
             e == Expected(g, id)
             d == file[g].chunks
  <2>3. Len(o) <= Len(e) /\ \A j \in DOMAIN o : o[j] = e[j] BY <2>1, OfAny
  <2>4. /\ IsSeq(o) /\ Len(o) \in Nat /\ DOMAIN o = 1 .. Len(o)
        /\ \A f \in ToSet(delivered) : f.id = id /\ Judged(g, f.ts) => \E j \in DOMAIN o : o[j] = f
    <3>1. IsSeq(delivered) BY <2>1
    <3>2. /\ IsSeq(JudgedOf(g, id)) /\ Len(JudgedOf(g, id)) \in Nat /\ DOMAIN JudgedOf(g, id) = 1 .. Len(JudgedOf(g, id))
          /\ \A j \in DOMAIN JudgedOf(g, id) :
               JudgedOf(g, id)[j] \in ToSet(delivered) /\ JudgedOf(g, id)[j].id = id /\ Judged(g, JudgedOf(g, id)[j].ts)
          /\ \A f \in ToSet(delivered) : f.id = id /\ Judged(g, f.ts) => \E j \in DOMAIN JudgedOf(g, id) : JudgedOf(g, id)[j] = f
          /\ \A ids : id \in ids /\ Rising(delivered, ids) =>
               \A j, k \in DOMAIN JudgedOf(g, id) : j < k => Rank(JudgedOf(g, id)[j]) < Rank(JudgedOf(g, id)[k])
      BY <3>1, JudgedFacts
    <3> QED BY <3>2
  <2>5. /\ IsSeq(e) /\ Len(e) \in Nat /\ DOMAIN e = 1 .. Len(e)
        /\ \A j \in DOMAIN e : /\ e[j].id = id
                               /\ \E c \in DOMAIN d : \E q \in WantedAt(g, c) : e[j] = Record(d[c].msgs[q])
        /\ \A j, l \in DOMAIN e : j < l => Rank(e[j]) < Rank(e[l])
        /\ \A j \in DOMAIN e : Rank(e[j]) \in Int
    BY <2>2, ExpectedFacts
  <2>6. ASSUME result = "eof" PROVE \A j \in DOMAIN e : e[j] \in ToSet(delivered) /\ Judged(g, e[j].ts)
    <3>1. \A c \in DOMAIN d : \A q \in AskedAt(g, c) : Record(d[c].msgs[q]) \in ToSet(delivered) BY <2>1, <2>6, EofGivesAll
    <3>2. \A c : \A q \in WantedAt(g, c) : q \in AskedAt(g, c) /\ Judged(g, Record(d[c].msgs[q]).ts) BY DEF WantedAt, Record
    <3> HIDE DEF d, e
    <3> QED BY <2>5, <3>1, <3>2
  <2> HIDE DEF o, e, d
  <2>7. SubSeq(o, 1, Len(o)) = SubSeq(e, 1, Len(o))
    <3>1. \A j \in 1 .. Len(o) : o[j] = e[j] BY <2>3, <2>4
    <3> QED BY <2>4, <2>5, <3>1
  <2>8. ASSUME result = "eof" PROVE o = e
    <3>1. ASSUME NEW l \in DOMAIN e PROVE l \in DOMAIN o
      <4>1. PICK j \in DOMAIN o : o[j] = e[l] BY <2>4, <2>5, <2>6, <2>8
      <4>2. j \in DOMAIN e /\ e[j] = e[l] BY <2>3, <2>4, <2>5, <4>1
      <4>3. j < l \/ j = l \/ l < j BY <2>5, <4>2
      <4>4. ~(j < l) /\ ~(l < j) BY <2>5, <4>2
      <4> QED BY <4>3, <4>4
    <3>2. Len(o) = Len(e)
      <4>1. CASE Len(e) = 0 BY <2>3, <2>4, <4>1
      <4>2. CASE Len(e) # 0
        <5>1. Len(e) \in DOMAIN e BY <2>5, <4>2
        <5>2. Len(e) <= Len(o) BY <2>4, <3>1, <5>1
        <5>3. Len(o) <= Len(e) /\ Len(o) \in Nat /\ Len(e) \in Nat BY <2>3, <2>4, <2>5
        <5> QED BY <5>2, <5>3
      <4> QED BY <4>1, <4>2
    <3>3. o = [j \in 1 .. Len(o) |-> o[j]] /\ e = [j \in 1 .. Len(e) |-> e[j]]
      <4>1. \A f : IsSeq(f) => f = [j \in 1 .. Len(f) |-> f[j]] BY DEF IsSeq
      <4> QED BY <2>4, <2>5, <4>1
    <3> QED BY <2>3, <2>4, <2>5, <3>2, <3>3
  <2>9. IsPrefix(Shown(g, o), Shown(g, e))
    <3>1. CASE BytesKept(g) BY <2>3, <2>7, <3>1 DEF IsPrefix, Shown
    <3> QED BY <2>2, <3>1, BytesAreKept
  <2> QED BY <2>8, <2>9 DEF o, e
<1>2. GiftInv /\ NoEmptyMessages => \A g \in DOMAIN file : BytesKept(g)
  <2>1. GiftInv => file \in Files BY DEF GiftInv, IteratorInv, TypeInv
  <2> QED BY <2>1, BytesAreKept
<1>3. GiftInv => (NoEmptyMessages => EofMeansAll /\ \A g \in DOMAIN file : BytesKept(g)) BY <1>1, <1>2
<1> QED BY <1>3, GiftInvHolds, PTL
-----------------------------------------------------------------------------
(* The first message of a chunk of video that is asked for is a key frame  *)
(* or has the time of one.                                                 *)
LEMMA FirstDecodes ==
  ASSUME file \in Files, query \in Queries, query.videoDecodable,
         NEW g \in DOMAIN file, file[g].video, NEW i \in DOMAIN file[g].chunks, NEW q \in AskedAt(g, i),
         \A r \in AskedAt(g, i) : q <= r
  PROVE  \E r \in DOMAIN file[g].chunks[i].msgs :
           file[g].chunks[i].msgs[r].key /\ file[g].chunks[i].msgs[r].ts = file[g].chunks[i].msgs[q].ts
<1> DEFINE c == file[g].chunks[i]
           ts(r) == c.msgs[r].ts
           K == {r \in DOMAIN c.msgs : c.msgs[r].key /\ ts(r) <= query.start}
<1>1. c \in Chunk /\ ChunkInOrder(c, file[g].ids) /\ IsTrue(c) /\ Len(c.topics) = 1 /\ c.msgs[1].key
  BY FileFacts, TruthFacts
<1>2. \A r, s \in DOMAIN c.msgs : c.msgs[r].id = c.msgs[s].id /\ (r <= s => ts(r) <= ts(s))
  <2> HIDE DEF c
  <2>1. \A r, s \in DOMAIN c.msgs : c.msgs[r].id = c.msgs[s].id /\ (r <= s => c.msgs[r].ts <= c.msgs[s].ts)
    BY <1>1, TimesRise
  <2> QED BY <2>1
<1>3. /\ Len(c.msgs) \in Nat \ {0} /\ DOMAIN c.msgs = 1 .. Len(c.msgs)
      /\ \A r \in DOMAIN c.msgs : ts(r) \in Int
  BY <1>1, MessageTypes
<1>4. query.start \in Int /\ query.end \in Int BY QueryTypes
<1>5. \A r \in DOMAIN c.msgs : r \in AskedAt(g, i) <=>
        /\ c.msgs[r].id \in query.ids /\ ts(r) <= query.end
        /\ \/ ts(r) >= query.start
           \/ c.end >= query.start /\ \A k \in K : ts(k) <= ts(r)
  BY DEF AskedAt, Reached
<1>6. q \in DOMAIN c.msgs BY DEF AskedAt
<1>7. c.end \in Int /\ ts(q) <= c.end
  <2>1. c.end \in Int BY <1>1 DEF Chunk
  <2> QED BY <1>1, <1>6, <2>1, MessageTimes
<1>8. 1 \in DOMAIN c.msgs /\ 1 <= q BY <1>3, <1>6
<1> HIDE DEF c
<1>9. \A r \in K : r \in DOMAIN c.msgs /\ c.msgs[r].key /\ ts(r) <= query.start OBVIOUS
<1>10. \A r \in DOMAIN c.msgs : c.msgs[r].key /\ ts(r) <= query.start => r \in K OBVIOUS
<1> HIDE DEF K, ts
<1>11. CASE 1 \in AskedAt(g, i)
  <2>1. q = 1
    <3>1. q <= 1 BY <1>11
    <3> QED BY <1>3, <1>6, <3>1
  <2> QED BY <1>1, <1>6, <2>1 DEF c
<1>12. CASE 1 \notin AskedAt(g, i)
  <2>1. ts(1) <= ts(q) /\ c.msgs[1].id = c.msgs[q].id BY <1>2, <1>6, <1>8
  <2>2. /\ c.msgs[q].id \in query.ids /\ ts(q) <= query.end
        /\ ts(q) >= query.start \/ (c.end >= query.start /\ \A k \in K : ts(k) <= ts(q))
    BY <1>5, <1>6
  <2>3. ts(1) <= query.end BY <1>3, <1>4, <1>6, <1>8, <2>1, <2>2
  <2>4. ~(ts(1) >= query.start) BY <1>5, <1>8, <1>12, <2>1, <2>2, <2>3
  <2>5. 1 \in K
    <3>1. ts(1) <= query.start BY <1>3, <1>4, <1>8, <2>4
    <3> QED BY <1>1, <1>8, <1>10, <3>1
  <2>6. PICK k \in K : \A r \in K : r <= k
    <3>1. K \subseteq Int /\ K # {} /\ Len(c.msgs) \in Int /\ \A r \in K : r <= Len(c.msgs) BY <1>3, <1>9, <2>5
    <3> QED BY <3>1, GreatestExists
  <2>7. k \in DOMAIN c.msgs /\ c.msgs[k].key /\ ts(k) <= query.start BY <1>9
  <2>8. \A r \in K : ts(r) <= ts(k) BY <1>2, <1>9, <2>6, <2>7
  <2>9. ts(k) \in Int /\ ts(q) \in Int BY <1>3, <1>6, <2>7
  <2>10. ts(k) <= ts(q) BY <1>4, <2>2, <2>6, <2>7, <2>9
  <2>11. k \in AskedAt(g, i)
    <3>1. c.msgs[k].id \in query.ids BY <1>2, <1>6, <2>2, <2>7
    <3>2. ts(k) <= query.end BY <1>4, <2>2, <2>9, <2>10
    <3>3. c.end >= query.start BY <1>4, <1>7, <2>2, <2>9
    <3> QED BY <1>5, <2>7, <2>8, <3>1, <3>2, <3>3
  <2>12. ts(q) <= ts(k) BY <1>2, <1>6, <2>7, <2>11
  <2>13. ts(k) = ts(q) BY <2>9, <2>10, <2>12
  <2> QED BY <2>7, <2>13 DEF c, ts
<1> QED BY <1>11, <1>12

(* Until a read fails, a query for decodable video in the order of time    *)
(* starts a topic with a key frame, and with the latest one at or before   *)
(* the start of the range if its chunk is read; provided that no message   *)
(* is empty and that no other frame has the time of a key frame.           *)
THEOREM SdkDecodableCold == SdkSpec => [](NoEmptyMessages => DecodableCold)
<1>1. GiftInv => (NoEmptyMessages => DecodableCold)
  <2> SUFFICES ASSUME GiftInv, NoEmptyMessages, query.videoDecodable, ~query.reverse, ~failed,
                      NEW g \in DOMAIN file, NEW id \in file[g].ids, file[g].video, KeysApart(g), Of(id) # <<>>
               PROVE  \E m \in Frames(g) :
                        /\ m.key /\ Of(id)[1] = Record(m)
                        /\ AnchorIsRead(g) /\ Anchors(g) # {} => m.ts \in Anchors(g) /\ \A t \in Anchors(g) : t <= m.ts
    BY DEF DecodableCold
  <2>1. TypeInv /\ CourseInv /\ GivenInv /\ IsSeq(delivered) BY DEF GiftInv, IteratorInv, LooseEnd
  <2>2. file \in Files /\ query \in Queries BY <2>1 DEF TypeInv
  <2> DEFINE o == Of(id)
             d == file[g].chunks
  <2>3. /\ IsSeq(o) /\ Len(o) \in Nat /\ DOMAIN o = 1 .. Len(o)
        /\ \A j \in DOMAIN o : o[j] \in ToSet(delivered) /\ o[j].id = id
        /\ \A f \in ToSet(delivered) : f.id = id => \E j \in DOMAIN o : o[j] = f
        /\ \A ids : id \in ids /\ Rising(delivered, ids) => \A j, k \in DOMAIN o : j < k => Rank(o[j]) < Rank(o[k])
    BY <2>1, OfFacts
  <2>4. PICK k \in DOMAIN iters : iters[k].group = g
    <3> SUFFICES ASSUME \A k \in DOMAIN iters : iters[k].group # g PROVE FALSE OBVIOUS
    <3>1. DOMAIN Of(id) = {} BY <2>1, OfOthers
    <3>2. Len(o) = 0 BY <2>3, <3>1
    <3> QED BY <2>3, <3>2 DEF IsSeq
  <2>5. /\ Rising(delivered, file[g].ids)
        /\ \A f \in ToSet(delivered) : f.id = id =>
             /\ Rank(f) \in Int
             /\ \E c \in DOMAIN d : \E q \in AskedAt(g, c) : f = Record(d[c].msgs[q]) /\ d[c].msgs[q].id = id
        /\ \A f \in ToSet(delivered) : \A c \in DOMAIN d : \A q \in AskedAt(g, c) :
             f.id = id /\ d[c].msgs[q].id = id /\ Rank(Record(d[c].msgs[q])) < Rank(f)
               => Record(d[c].msgs[q]) \in ToSet(delivered)
    <3>1. id \in file[iters[k].group].ids BY <2>4
    <3> QED BY <2>1, <2>4, <3>1, OfSooner
  <2>6. 1 \in DOMAIN o /\ o[1] \in ToSet(delivered) /\ o[1].id = id
    <3>1. o # <<>> OBVIOUS
    <3> HIDE DEF o
    <3>2. Len(o) # 0 BY <2>3, <3>1 DEF IsSeq
    <3> QED BY <2>3, <3>2
  <2> HIDE DEF o
  <2>7. PICK i \in DOMAIN d : \E q \in AskedAt(g, i) : o[1] = Record(d[i].msgs[q]) /\ d[i].msgs[q].id = id BY <2>5, <2>6
  <2>8. PICK q \in AskedAt(g, i) : o[1] = Record(d[i].msgs[q]) /\ d[i].msgs[q].id = id BY <2>7
  <2>9. \A x \in DOMAIN d : /\ d[x] \in Chunk /\ ChunkInOrder(d[x], file[g].ids) /\ IsTrue(d[x]) /\ Len(d[x].topics) = 1
                            /\ d[x].msgs[1].key
    BY <2>2, FileFacts, TruthFacts
  <2>10. \A x \in DOMAIN d : \A r \in DOMAIN d[x].msgs :
           /\ d[x].msgs[r].n \in Nat /\ d[x].msgs[r].len \in Nat \ {0} /\ d[x].msgs[r].ts \in Int
           /\ d[x].msgs[r].id = id
           /\ Rank(Record(d[x].msgs[r])) = d[x].msgs[r].n
           /\ d[x].msgs[r] \in Frames(g)
    <3> SUFFICES ASSUME NEW x \in DOMAIN d, NEW r \in DOMAIN d[x].msgs
                 PROVE  /\ d[x].msgs[r].n \in Nat /\ d[x].msgs[r].len \in Nat \ {0} /\ d[x].msgs[r].ts \in Int
                        /\ d[x].msgs[r].id = id
                        /\ Rank(Record(d[x].msgs[r])) = d[x].msgs[r].n
                        /\ d[x].msgs[r] \in Frames(g)
      OBVIOUS
    <3>1. d[x].msgs[r].n \in Nat /\ d[x].msgs[r].len \in Nat /\ d[x].msgs[r].ts \in Int BY <2>9, MessageTypes
    <3>2. d[x].msgs[r].len # 0 BY DEF NoEmptyMessages, ToSet
    <3>3. d[x].msgs[r].id \in file[g].ids BY <2>9, MessageTimes
    <3>4. d[x].msgs[r].id = id BY <2>2, <3>3, TruthFacts
    <3>5. Rank(Record(d[x].msgs[r])) = d[x].msgs[r].n BY <3>1, <3>2, RecordFacts
    <3>6. d[x].msgs[r] \in Frames(g) BY DEF Frames, ToSet
    <3> QED BY <3>1, <3>2, <3>4, <3>5, <3>6
  <2>11. \A x : AskedAt(g, x) \subseteq DOMAIN d[x].msgs BY DEF AskedAt
  <2>12. ASSUME NEW x \in DOMAIN d, NEW r \in AskedAt(g, x) PROVE ~(d[x].msgs[r].n < d[i].msgs[q].n)
    <3> SUFFICES ASSUME d[x].msgs[r].n < d[i].msgs[q].n PROVE FALSE OBVIOUS
    <3> DEFINE f == Record(d[x].msgs[r])
    <3>1. f.id = id /\ Rank(f) = d[x].msgs[r].n /\ Rank(o[1]) = d[i].msgs[q].n BY <2>8, <2>10, <2>11 DEF Record
    <3>2. f \in ToSet(delivered) BY <2>5, <2>6, <2>10, <2>11, <3>1
    <3> HIDE DEF f
    <3>3. PICK j \in DOMAIN o : o[j] = f BY <2>3, <3>1, <3>2
    <3>4. j = 1 \/ Rank(o[1]) < Rank(o[j])
      <4>1. j = 1 \/ 1 < j BY <2>3
      <4> QED BY <2>3, <2>5, <2>6, <4>1
    <3>5. d[x].msgs[r].n \in Nat /\ d[i].msgs[q].n \in Nat BY <2>10, <2>11
    <3> QED BY <3>1, <3>3, <3>4, <3>5
  <2>13. q \in DOMAIN d[i].msgs /\ DOMAIN d[i].msgs = 1 .. Len(d[i].msgs) BY <2>9, <2>11, MessageTypes
  <2>14. ASSUME NEW r \in AskedAt(g, i) PROVE q <= r
    <3>1. r \in DOMAIN d[i].msgs BY <2>11
    <3>2. ~(r < q) BY <2>2, <2>12, <2>13, <3>1, TruthFacts
    <3> QED BY <2>13, <3>1, <3>2
  <2>15. d[i].msgs[q].key
    <3>1. PICK r \in DOMAIN d[i].msgs : d[i].msgs[r].key /\ d[i].msgs[r].ts = d[i].msgs[q].ts BY <2>2, <2>14, FirstDecodes
    <3>2. d[i].msgs[r] = d[i].msgs[q] BY <2>10, <2>13, <3>1 DEF KeysApart
    <3> QED BY <3>1, <3>2
  <2>16. ASSUME AnchorIsRead(g), Anchors(g) # {}
         PROVE  d[i].msgs[q].ts \in Anchors(g) /\ \A t \in Anchors(g) : t <= d[i].msgs[q].ts
    <3> DEFINE Good(a, b) == /\ query.start <= d[a].end /\ d[a].msgs[b].key
                             /\ d[a].msgs[b].ts \in Anchors(g) /\ d[a].msgs[b].ts \in Int /\ d[a].msgs[b].ts <= query.start
                             /\ \A t \in Anchors(g) : t <= d[a].msgs[b].ts
    <3>1. PICK a \in DOMAIN d : \E b \in DOMAIN d[a].msgs : Good(a, b) BY <2>2, <2>16, AnchorChunk
    <3>2. PICK b \in DOMAIN d[a].msgs : Good(a, b) BY <3>1
    <3>3. query.start \in Int /\ query.end \in Int /\ d[i].msgs[q].ts \in Int BY <2>2, <2>10, <2>13, QueryTypes
    <3>4. \A x \in DOMAIN d : \A r \in DOMAIN d[x].msgs : Judged(g, d[x].msgs[r].ts) BY <2>16 DEF Judged
    <3>5. Asked(g, d[i].msgs[q]) BY <2>2, <2>13, <3>4, ReachedIsAsked
    <3>6. d[i].msgs[q].ts <= query.end /\ id \in query.ids /\ d[a].msgs[b].ts <= d[i].msgs[q].ts
      <4>1. /\ d[i].msgs[q].ts <= query.end /\ id \in query.ids
            /\ d[i].msgs[q].ts >= query.start \/ \A t \in Anchors(g) : t <= d[i].msgs[q].ts
        BY <2>8, <3>5 DEF Asked
      <4>2. CASE d[i].msgs[q].ts >= query.start BY <3>2, <3>3, <4>1, <4>2
      <4>3. CASE \A t \in Anchors(g) : t <= d[i].msgs[q].ts BY <3>2, <4>1, <4>3
      <4> QED BY <4>1, <4>2, <4>3
    <3>7. Asked(g, d[a].msgs[b])
      <4>1. d[a].msgs[b].ts <= query.end BY <3>2, <3>3, <3>6
      <4> QED BY <2>10, <2>16, <3>2, <3>6, <4>1 DEF Asked
    <3>8. b \in AskedAt(g, a) BY <2>2, <3>4, <3>7, ReachedIsAsked
    <3>9. ~(d[a].msgs[b].n < d[i].msgs[q].n) BY <2>12, <3>8
    <3>10. d[i].msgs[q].ts <= d[a].msgs[b].ts
      <4>1. a \in Nat /\ i \in Nat
        <5>1. d \in Seq(Chunk) BY <2>2, FileFacts
        <5> QED BY <5>1
      <4>2. CASE i < a
        <5>1. d[i].end <= d[a].start BY <2>2, <4>2, FileFacts
        <5>2. d[i].msgs[q].ts <= d[i].end /\ d[a].start <= d[a].msgs[b].ts BY <2>9, <2>13, MessageTimes
        <5>3. d[i].end \in Int /\ d[a].start \in Int BY <2>9 DEF Chunk
        <5> QED BY <3>2, <3>3, <5>1, <5>2, <5>3
      <4>3. CASE i = a
        <5>1. DOMAIN d[a].msgs = 1 .. Len(d[a].msgs) BY <2>9, MessageTypes
        <5>2. ~(b < q) BY <2>2, <2>13, <3>9, <4>3, TruthFacts
        <5>3. q <= b BY <2>13, <4>3, <5>1, <5>2
        <5> QED BY <2>9, <2>13, <4>3, <5>3, TimesRise
      <4>4. CASE a < i
        <5>1. d[a].msgs[b].n < d[i].msgs[q].n BY <2>2, <2>13, <4>4, TruthFacts
        <5> QED BY <3>9, <5>1
      <4> QED BY <4>1, <4>2, <4>3, <4>4
    <3>11. d[i].msgs[q].ts = d[a].msgs[b].ts BY <3>2, <3>3, <3>6, <3>10
    <3> QED BY <3>2, <3>11
  <2> QED BY <2>8, <2>10, <2>13, <2>15, <2>16 DEF o
<1> QED BY <1>1, GiftInvHolds, PTL
=============================================================================
