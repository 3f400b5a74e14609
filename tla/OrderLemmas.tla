---------------------------- MODULE OrderLemmas ----------------------------
(***************************************************************************)
(* Least and greatest elements of sets of integers, for the proofs about   *)
(* operators that pick one (time ranges, next offsets); induction over the *)
(* numbers; and what a heap is, and keeps, when an item is pushed or       *)
(* popped.                                                                 *)
(***************************************************************************)
EXTENDS Heap, Lists, SequencesExt, FiniteSetTheorems, WellFoundedInduction, TLAPS

(* A nonempty set of integers bounded below has a least element. *)
LEMMA LeastExists ==
  ASSUME NEW S, S \subseteq Int, S # {}, NEW b \in Int, \A t \in S : b <= t
  PROVE  \E t \in S : \A u \in S : t <= u
<1> DEFINE T == {n \in Nat : b + n \in S}
<1>1. T # {}
  <2>1. PICK t \in S : TRUE OBVIOUS
  <2>2. t - b \in Nat /\ b + (t - b) = t BY <2>1
  <2> QED BY <2>2
<1>2. IsWellFoundedOn(OpToRel(<, Nat), Nat) BY NatLessThanWellFounded
<1>3. PICK x \in T : \A y \in T : ~ (<<y, x>> \in OpToRel(<, Nat))
  <2>1. T \subseteq Nat OBVIOUS
  <2> QED BY <1>1, <1>2, <2>1, WFMin
<1>4. \A y \in T : x <= y
  <2> SUFFICES ASSUME NEW y \in T, y < x PROVE FALSE OBVIOUS
  <2>1. <<y, x>> \in OpToRel(<, Nat) BY DEF OpToRel
  <2> QED BY <1>3, <2>1
<1>5. ASSUME NEW u \in S PROVE b + x <= u
  <2>1. u - b \in T OBVIOUS
  <2> QED BY <1>4, <2>1
<1> QED BY <1>5

(* A nonempty set of integers bounded above has a greatest element. *)
LEMMA GreatestExists ==
  ASSUME NEW S, S \subseteq Int, S # {}, NEW b \in Int, \A t \in S : t <= b
  PROVE  \E t \in S : \A u \in S : u <= t
<1> DEFINE T == {t \in Int : -t \in S}
<1>1. \A t \in S : -t \in T /\ -(-t) = t OBVIOUS
<1>2. T # {} BY <1>1
<1>3. \A t \in T : -b <= t OBVIOUS
<1>4. PICK x \in T : \A y \in T : x <= y
  <2> T \subseteq Int /\ -b \in Int OBVIOUS
  <2> HIDE DEF T
  <2> QED BY <1>2, <1>3, LeastExists
<1> QED BY <1>1, <1>4

(* Induction over the numbers, as a fact about a set. *)
LEMMA AllNumbers ==
  ASSUME NEW S, 0 \in S, \A n \in Nat : n \in S => n + 1 \in S
  PROVE  Nat \subseteq S
<1> DEFINE T == Nat \ S
<1> SUFFICES ASSUME T # {} PROVE FALSE OBVIOUS
<1>1. PICK t \in T : \A u \in T : t <= u
  <2> T \subseteq Int /\ (\A u \in T : 0 <= u) /\ 0 \in Int OBVIOUS
  <2> HIDE DEF T
  <2> QED BY LeastExists
<1>2. t # 0 /\ t - 1 \in Nat /\ t - 1 \notin T /\ (t - 1) + 1 = t BY <1>1
<1> QED BY <1>1, <1>2

(* One of finitely many places has the least number. *)
LEMMA LeastPlace ==
  ASSUME NEW n \in Nat, NEW S, S \subseteq 1 .. n, S # {}, NEW f, \A i \in S : f[i] \in Int
  PROVE  \E i \in S : \A j \in S : f[i] <= f[j]
<1> DEFINE Upto(m) == {i \in S : i <= m}
           W == {m \in Nat : Upto(m) # {} => \E i \in Upto(m) : \A j \in Upto(m) : f[i] <= f[j]}
<1> \A i \in S : i \in Nat /\ 1 <= i /\ i <= n OBVIOUS
<1>1. 0 \in W
  <2>1. \A i \in S : ~(i <= 0) OBVIOUS
  <2>2. Upto(0) = {} BY <2>1
  <2> QED BY <2>2
<1>2. ASSUME NEW m \in Nat, m \in W PROVE m + 1 \in W
  <2>1. CASE m + 1 \notin S
    <3>1. \A i \in S : i <= m + 1 <=> i <= m BY <2>1
    <3>2. Upto(m + 1) = Upto(m) BY <3>1
    <3> HIDE DEF Upto
    <3> QED BY <1>2, <3>2
  <2>2. CASE m + 1 \in S /\ Upto(m) = {}
    <3>1. Upto(m + 1) = {m + 1}
      <4>1. \A i \in S : i <= m + 1 => i <= m \/ i = m + 1 OBVIOUS
      <4>2. \A i \in S : ~(i <= m) BY <2>2
      <4>3. m + 1 <= m + 1 OBVIOUS
      <4> QED BY <2>2, <4>1, <4>2, <4>3
    <3>2. f[m + 1] <= f[m + 1] BY <2>2
    <3> QED BY <3>1, <3>2
  <2>3. CASE m + 1 \in S /\ Upto(m) # {}
    <3>1. PICK i \in Upto(m) : \A j \in Upto(m) : f[i] <= f[j] BY <1>2, <2>3
    <3>2. \A j \in Upto(m + 1) : j = m + 1 \/ j \in Upto(m) OBVIOUS
    <3>3. i \in Upto(m + 1) /\ m + 1 \in Upto(m + 1) BY <2>3
    <3>4. f[i] \in Int /\ f[m + 1] \in Int /\ \A j \in Upto(m) : f[j] \in Int BY <2>3
    <3> HIDE DEF Upto
    <3>5. CASE f[i] <= f[m + 1]
      <4>1. \A j \in Upto(m + 1) : f[i] <= f[j] BY <3>1, <3>2, <3>5
      <4> QED BY <3>3, <4>1
    <3>6. CASE f[m + 1] <= f[i]
      <4>1. \A j \in Upto(m + 1) : f[m + 1] <= f[j]
        <5> SUFFICES ASSUME NEW j \in Upto(m + 1) PROVE f[m + 1] <= f[j] OBVIOUS
        <5>1. CASE j = m + 1 BY <3>4, <5>1
        <5>2. CASE j \in Upto(m)
          <6>1. f[i] <= f[j] BY <3>1, <5>2
          <6> QED BY <3>4, <3>6, <5>2, <6>1
        <5> QED BY <3>2, <5>1, <5>2
      <4> QED BY <3>3, <4>1
    <3> QED BY <3>4, <3>5, <3>6
  <2> QED BY <2>1, <2>2, <2>3
<1>3. n \in W
  <2> HIDE DEF W
  <2> QED BY <1>1, <1>2, AllNumbers
<1>4. Upto(n) = S OBVIOUS
<1> QED BY <1>3, <1>4

-----------------------------------------------------------------------------
(* Heaps. *)

(* next is a way that comes to an end: m falls along it. *)
Ends(n, next, m) ==
  /\ next \in [1 .. n -> 0 .. n] /\ m \in [1 .. n -> Nat]
  /\ \A j \in 1 .. n : next[j] # 0 => m[next[j]] < m[j]

LEMMA TrailDefined ==
  ASSUME NEW n \in Nat, NEW next, NEW m, Ends(n, next, m)
  PROVE  \A j \in 1 .. n : Trail(next, j) = {j} \cup IF next[j] = 0 THEN {} ELSE Trail(next, next[j])
<1> DEFINE Under(k) == {j \in 1 .. n : m[j] < k}
           Follows(f, D) == f = [j \in D |-> {j} \cup IF next[j] = 0 THEN {} ELSE f[next[j]]]
           S == {k \in Nat : \E f : Follows(f, Under(k))}
           from == CHOOSE f : Follows(f, DOMAIN next)
<1>1. 0 \in S
  <2>1. Under(0) = {} BY DEF Ends
  <2>2. Follows([j \in {} |-> {}], Under(0)) BY <2>1
  <2> QED BY <2>2
<1>2. ASSUME NEW k \in Nat, k \in S PROVE k + 1 \in S
  <2>1. PICK f : Follows(f, Under(k)) BY <1>2
  <2> DEFINE After(j) == {j} \cup IF next[j] = 0 THEN {} ELSE f[next[j]]
             g == [j \in Under(k + 1) |-> After(j)]
  <2>2. ASSUME NEW j \in Under(k + 1), next[j] # 0 PROVE next[j] \in Under(k) /\ next[j] \in Under(k + 1)
    BY <2>2 DEF Ends
  <2>3. \A j \in Under(k) : f[j] = After(j) BY <2>1
  <2>4. ASSUME NEW j \in Under(k + 1), next[j] # 0 PROVE g[next[j]] = f[next[j]]
    BY <2>2, <2>3, <2>4
  <2>5. \A j \in Under(k + 1) : After(j) = {j} \cup IF next[j] = 0 THEN {} ELSE g[next[j]] BY <2>4
  <2>6. Follows(g, Under(k + 1))
    <3> HIDE DEF Under
    <3> QED BY <2>5
  <2>7. \E h : Follows(h, Under(k + 1))
    <3> HIDE DEF Follows, g
    <3> QED BY <2>6
  <2> QED BY <2>7
<1>3. Nat \subseteq S
  <2> HIDE DEF S
  <2> QED BY <1>1, <1>2, AllNumbers
<1>4. PICK b \in Nat : \A j \in 1 .. n : m[j] < b
  <2> DEFINE B == {k \in Nat : \E c \in Nat : \A j \in 1 .. n : j <= k => m[j] < c}
  <2>1. 0 \in B OBVIOUS
  <2>2. ASSUME NEW k \in Nat, k \in B PROVE k + 1 \in B
    <3>1. PICK c \in Nat : \A j \in 1 .. n : j <= k => m[j] < c BY <2>2
    <3>2. CASE k + 1 \in 1 .. n
      <4>1. m[k + 1] \in Nat BY <3>2 DEF Ends
      <4> DEFINE d == c + m[k + 1] + 1
      <4>2. d \in Nat /\ m[k + 1] < d /\ c < d BY <4>1
      <4> HIDE DEF d
      <4>3. \A j \in 1 .. n : j <= k + 1 => m[j] < d
        <5> TAKE j \in 1 .. n
        <5> HAVE j <= k + 1
        <5>1. m[j] \in Nat BY DEF Ends
        <5>2. j = k + 1 \/ j <= k OBVIOUS
        <5> QED BY <3>1, <4>2, <5>1, <5>2
      <4> QED BY <4>2, <4>3
    <3>3. CASE k + 1 \notin 1 .. n
      <4>1. \A j \in 1 .. n : j <= k + 1 => j <= k BY <3>3
      <4> QED BY <3>1, <4>1
    <3> QED BY <3>2, <3>3
  <2>3. n \in B
    <3> HIDE DEF B
    <3> Nat \subseteq B BY <2>1, <2>2, AllNumbers
    <3> QED OBVIOUS
  <2> QED BY <2>3
<1>5. Under(b) = DOMAIN next BY <1>4 DEF Ends
<1>6. \E f : Follows(f, DOMAIN next)
  <2>1. b \in S BY <1>3
  <2>2. \E f : Follows(f, Under(b)) BY <2>1
  <2> QED BY <1>5, <2>2
<1>7. Follows(from, DOMAIN next)
  <2> HIDE DEF Follows
  <2> QED BY <1>6
<1>8. \A j : Trail(next, j) = from[j] BY DEF Trail
<1>9. DOMAIN next = 1 .. n BY DEF Ends
<1> HIDE DEF from
<1>10. \A j \in 1 .. n : from[j] = {j} \cup IF next[j] = 0 THEN {} ELSE from[next[j]] BY <1>7, <1>9
<1> QED BY <1>8, <1>10

(* A trail starts at i and goes along next to its end, and of two places   *)
(* of it one comes after the other.                                        *)
IsTrail(n, next, m, i, T) ==
  /\ T \subseteq 1 .. n /\ i \in T
  /\ \E e \in T : next[e] = 0
  /\ \A j \in T : m[j] <= m[i] /\ (next[j] # 0 => next[j] \in T)
  /\ \A j \in T : j # i => \E p \in T : next[p] = j
  /\ \A j, k \in T : j # k => \/ next[j] # 0 /\ m[k] <= m[next[j]]
                              \/ next[k] # 0 /\ m[j] <= m[next[k]]

LEMMA TrailStep ==
  ASSUME NEW n \in Nat, NEW next, NEW m, Ends(n, next, m), NEW i \in 1 .. n, next[i] # 0,
         NEW T, IsTrail(n, next, m, next[i], T)
  PROVE  IsTrail(n, next, m, i, {i} \cup T)
<1>1. next[i] \in 1 .. n /\ m[next[i]] < m[i] /\ \A j \in 1 .. n : m[j] \in Nat BY DEF Ends
<1>2. /\ T \subseteq 1 .. n /\ next[i] \in T
      /\ \E e \in T : next[e] = 0
      /\ \A j \in T : m[j] <= m[next[i]] /\ (next[j] # 0 => next[j] \in T)
      /\ \A j \in T : j # next[i] => \E p \in T : next[p] = j
      /\ \A j, k \in T : j # k => \/ next[j] # 0 /\ m[k] <= m[next[j]]
                                  \/ next[k] # 0 /\ m[j] <= m[next[k]]
  BY DEF IsTrail
<1>3. i \notin T BY <1>1, <1>2
<1>4. \A j \in {i} \cup T : m[j] <= m[i] /\ (next[j] # 0 => next[j] \in {i} \cup T)
  <2>1. \A j \in T : m[j] <= m[i] BY <1>1, <1>2
  <2> QED BY <1>1, <1>2, <2>1
<1>5. \A j \in {i} \cup T : j # i => \E p \in {i} \cup T : next[p] = j BY <1>2
<1>6. \A j, k \in {i} \cup T : j # k => \/ next[j] # 0 /\ m[k] <= m[next[j]]
                                        \/ next[k] # 0 /\ m[j] <= m[next[k]]
  <2> TAKE j, k \in {i} \cup T
  <2> HAVE j # k
  <2>1. CASE j = i BY <1>1, <1>2, <2>1
  <2>2. CASE k = i BY <1>1, <1>2, <2>2
  <2>3. CASE j \in T /\ k \in T BY <1>2, <2>3
  <2> QED BY <2>1, <2>2, <2>3
<1> QED BY <1>2, <1>4, <1>5, <1>6 DEF IsTrail

LEMMA TrailFacts ==
  ASSUME NEW n \in Nat, NEW next, NEW m, Ends(n, next, m), NEW i \in 1 .. n
  PROVE  IsTrail(n, next, m, i, Trail(next, i))
<1> DEFINE S == {k \in Nat : \A j \in 1 .. n : m[j] < k => IsTrail(n, next, m, j, Trail(next, j))}
<1>1. 0 \in S BY DEF Ends
<1>2. ASSUME NEW k \in Nat, k \in S PROVE k + 1 \in S
  <2>1. ASSUME NEW j \in 1 .. n, m[j] < k + 1 PROVE IsTrail(n, next, m, j, Trail(next, j))
    <3>1. Trail(next, j) = {j} \cup IF next[j] = 0 THEN {} ELSE Trail(next, next[j]) BY TrailDefined
    <3>2. CASE next[j] = 0
      <4>1. Trail(next, j) = {j} /\ m[j] \in Nat BY <3>1, <3>2 DEF Ends
      <4> QED BY <3>2, <4>1 DEF IsTrail
    <3>3. CASE next[j] # 0
      <4>1. next[j] \in 1 .. n /\ m[next[j]] < k
        <5>1. next[j] \in 1 .. n /\ m[next[j]] < m[j] /\ m[j] \in Nat BY <3>3 DEF Ends
        <5>2. m[next[j]] \in Nat BY <5>1 DEF Ends
        <5> QED BY <2>1, <5>1, <5>2
      <4>2. IsTrail(n, next, m, next[j], Trail(next, next[j])) BY <1>2, <4>1
      <4>3. Trail(next, j) = {j} \cup Trail(next, next[j]) BY <3>1, <3>3
      <4> QED BY <3>3, <4>2, <4>3, TrailStep
    <3> QED BY <3>2, <3>3
  <2> QED BY <2>1
<1>3. Nat \subseteq S
  <2> HIDE DEF S
  <2> QED BY <1>1, <1>2, AllNumbers
<1>4. m[i] + 1 \in Nat /\ m[i] < m[i] + 1 BY DEF Ends
<1>5. m[i] + 1 \in S BY <1>3, <1>4
<1> QED BY <1>4, <1>5

(* The items of g are those of h at the places D, each once. *)
Drawn(g, h, D) ==
  \E f \in [DOMAIN g -> D] :
    /\ \A j, k \in DOMAIN g : f[j] = f[k] => j = k
    /\ \A d \in D : \E k \in DOMAIN g : f[k] = d
    /\ \A k \in DOMAIN g : g[k] = h[f[k]]

LEMMA MovedDrawn ==
  ASSUME NEW n \in Nat, NEW next, NEW m, Ends(n, next, m), NEW i \in 1 .. n, NEW h, DOMAIN h = 1 .. n
  PROVE  Drawn(Moved(h, next, i), h, 1 .. n)
<1> DEFINE T == Trail(next, i)
           f == [k \in 1 .. n |-> IF k \notin T THEN k ELSE IF next[k] = 0 THEN i ELSE next[k]]
           g == Moved(h, next, i)
<1>1. IsTrail(n, next, m, i, T) BY TrailFacts
<1>2. g = [k \in 1 .. n |-> IF k \notin T THEN h[k] ELSE IF next[k] = 0 THEN h[i] ELSE h[next[k]]]
  BY DEF Moved
<1> HIDE DEF T
<1>3. \A k \in T : k \in 1 .. n /\ next[k] \in 0 .. n /\ m[k] \in Nat /\ (next[k] # 0 => m[next[k]] \in Nat /\ m[next[k]] < m[k])
  BY <1>1 DEF IsTrail, Ends
<1>4. \A k \in T : f[k] \in T BY <1>1, <1>3 DEF IsTrail
<1>5. f \in [1 .. n -> 1 .. n] BY <1>3
<1>6. \A k \in 1 .. n \ T : f[k] = k OBVIOUS
<1>7. ASSUME NEW j \in T, NEW k \in T, f[j] = f[k] PROVE j = k
  <2> SUFFICES ASSUME j # k PROVE FALSE OBVIOUS
  <2>1. \/ next[j] # 0 /\ m[k] <= m[next[j]]
        \/ next[k] # 0 /\ m[j] <= m[next[k]]
    BY <1>1 DEF IsTrail
  <2>2. m[j] <= m[i] /\ m[k] <= m[i] /\ m[i] \in Nat BY <1>1, <1>3 DEF IsTrail
  <2>3. f[j] = (IF next[j] = 0 THEN i ELSE next[j]) /\ f[k] = (IF next[k] = 0 THEN i ELSE next[k]) BY <1>3
  <2> HIDE DEF f
  <2>4. CASE next[j] = 0
    <3>1. next[k] # 0 /\ next[k] = i BY <1>7, <2>1, <2>3, <2>4
    <3>2. m[next[k]] < m[k] BY <1>3, <3>1
    <3>3. m[k] \in Nat BY <1>3
    <3> QED BY <2>2, <3>1, <3>2, <3>3
  <2>5. CASE next[k] = 0
    <3>1. next[j] # 0 /\ next[j] = i BY <1>7, <2>1, <2>3, <2>5
    <3>2. m[next[j]] < m[j] BY <1>3, <3>1
    <3>3. m[j] \in Nat BY <1>3
    <3> QED BY <2>2, <3>1, <3>2, <3>3
  <2>6. CASE next[j] # 0 /\ next[k] # 0
    <3>1. next[j] = next[k] BY <1>7, <2>3, <2>6
    <3> QED BY <1>3, <2>1, <2>6, <3>1
  <2> QED BY <2>4, <2>5, <2>6
<1>8. ASSUME NEW j \in 1 .. n, NEW k \in 1 .. n, f[j] = f[k] PROVE j = k
  <2> HIDE DEF f
  <2> QED BY <1>4, <1>6, <1>7, <1>8
<1>9. ASSUME NEW d \in 1 .. n PROVE \E k \in 1 .. n : f[k] = d
  <2>1. CASE d \notin T BY <2>1
  <2>2. CASE d = i
    <3>1. PICK e \in T : next[e] = 0 BY <1>1 DEF IsTrail
    <3>2. e \in 1 .. n /\ f[e] = d BY <1>3, <2>2, <3>1
    <3> QED BY <3>2
  <2>3. CASE d \in T /\ d # i
    <3>1. PICK p \in T : next[p] = d BY <1>1, <2>3 DEF IsTrail
    <3>2. p \in 1 .. n /\ f[p] = d BY <1>3, <3>1
    <3> QED BY <3>2
  <2> QED BY <2>1, <2>2, <2>3
<1>10. \A k \in 1 .. n : g[k] = h[f[k]] BY <1>2
<1>11. DOMAIN g = 1 .. n BY <1>2
<1> HIDE DEF f, g
<1>12. f \in [DOMAIN g -> 1 .. n] BY <1>5, <1>11
<1>13. /\ \A j, k \in DOMAIN g : f[j] = f[k] => j = k
       /\ \A d \in 1 .. n : \E k \in DOMAIN g : f[k] = d
       /\ \A k \in DOMAIN g : g[k] = h[f[k]]
  BY <1>8, <1>9, <1>10, <1>11
<1>14. Drawn(g, h, 1 .. n) BY ONLY <1>12, <1>13 DEF Drawn
<1> QED BY <1>14 DEF g

IsHeap(h) == \A k \in 2 .. Len(h) : h[k \div 2].key <= h[k].key

(* The root of a heap is least. *)
LEMMA RootLeast ==
  ASSUME NEW h, Len(h) \in Nat, IsHeap(h), \A k \in 1 .. Len(h) : h[k].key \in Int
  PROVE  \A k \in 1 .. Len(h) : h[1].key <= h[k].key
<1> DEFINE S == {n \in Nat : \A k \in 1 .. Len(h) : k <= n => h[1].key <= h[k].key}
<1>1. 0 \in S OBVIOUS
<1>2. ASSUME NEW n \in Nat, n \in S PROVE n + 1 \in S
  <2>1. ASSUME NEW k \in 1 .. Len(h), k <= n + 1 PROVE h[1].key <= h[k].key
    <3>1. CASE k = 1 BY <3>1
    <3>2. CASE k # 1
      <4>1. k \div 2 \in 1 .. Len(h) /\ k \div 2 <= n BY <2>1, <3>2
      <4>2. h[1].key <= h[k \div 2].key BY <1>2, <4>1
      <4>3. h[k \div 2].key <= h[k].key BY <3>2 DEF IsHeap
      <4> QED BY <4>1, <4>2, <4>3
    <3> QED BY <3>1, <3>2
  <2> QED BY <2>1
<1>3. Nat \subseteq S
  <2> HIDE DEF S
  <2> QED BY <1>1, <1>2, AllNumbers
<1>4. Len(h) \in S BY <1>3
<1> QED BY <1>4

LEMMA UpEnds ==
  ASSUME NEW h, NEW n \in Nat, DOMAIN h = 1 .. n
  PROVE  Ends(n, Up(h), [k \in 1 .. n |-> k])
<1>1. \A k \in 1 .. n : k > 1 => k \div 2 \in 1 .. n /\ k \div 2 < k OBVIOUS
<1> QED BY <1>1 DEF Ends, Up

LEMMA DownEnds ==
  ASSUME NEW h, NEW n \in Nat, DOMAIN h = 1 .. n, Len(h) = n
  PROVE  Ends(n, Down(h), [k \in 1 .. n |-> n - k])
<1>1. \A k \in 1 .. n : 2 * k <= n => Child(h, k) \in 1 .. n /\ k < Child(h, k) BY DEF Child
<1>2. Down(h) \in [1 .. n -> 0 .. n] BY <1>1 DEF Down
<1>3. \A k \in 1 .. n : Down(h)[k] # 0 => Down(h)[k] \in 1 .. n /\ k < Down(h)[k]
  BY <1>1 DEF Down
<1> QED BY <1>2, <1>3 DEF Ends

LEMMA MovedSeq ==
  ASSUME NEW S, NEW h \in Seq(S), NEW n \in Nat, n = Len(h), NEW next, NEW m, Ends(n, next, m), NEW i \in 1 .. n
  PROVE  Moved(h, next, i) \in Seq(S) /\ Len(Moved(h, next, i)) = n
<1> DEFINE g == Moved(h, next, i)
<1>1. DOMAIN h = 1 .. n /\ \A k \in 1 .. n : h[k] \in S OBVIOUS
<1>2. \A k \in 1 .. n : next[k] \in 0 .. n BY DEF Ends
<1>3. g = [k \in 1 .. n |-> IF k \notin Trail(next, i) THEN h[k] ELSE IF next[k] = 0 THEN h[i] ELSE h[next[k]]]
  BY <1>1 DEF Moved
<1>4. \A k \in 1 .. n : g[k] \in S BY <1>1, <1>2, <1>3
<1>5. DOMAIN g = 1 .. n /\ g = [k \in 1 .. n |-> g[k]] BY <1>3
<1> HIDE DEF g
<1>6. g \in [1 .. n -> S] BY <1>4, <1>5
<1>7. g \in Seq(S) /\ Len(g) = n BY <1>5, <1>6
<1> QED BY <1>7 DEF g

(* What is pushed joins the items of the heap. *)
LEMMA PushedItems ==
  ASSUME NEW S, NEW h \in Seq(S), NEW item \in S
  PROVE  /\ Pushed(h, item) \in Seq(S) /\ Len(Pushed(h, item)) = Len(h) + 1
         /\ Drawn(Pushed(h, item), Append(h, item), 1 .. Len(h) + 1)
<1> DEFINE g == Append(h, item)
           n == Len(h) + 1
           m == [k \in 1 .. n |-> k]
<1>1. g \in Seq(S) /\ Len(g) = n /\ DOMAIN g = 1 .. n /\ n \in Nat /\ n \in 1 .. n OBVIOUS
<1>2. Pushed(h, item) = Moved(g, Up(g), n) BY <1>1 DEF Pushed, SiftUp
<1> HIDE DEF g, n
<1>3. Ends(n, Up(g), m) BY <1>1, UpEnds
<1> HIDE DEF m
<1>4. Moved(g, Up(g), n) \in Seq(S) /\ Len(Moved(g, Up(g), n)) = n BY <1>1, <1>3, MovedSeq
<1>5. Drawn(Moved(g, Up(g), n), g, 1 .. n) BY <1>1, <1>3, MovedDrawn
<1> QED BY <1>2, <1>4, <1>5 DEF g, n

LEMMA SiftUpHeap ==
  ASSUME NEW S, \A x \in S : x.key \in Int, NEW h \in Seq(S), NEW n \in Nat \ {0}, Len(h) = n,
         \A k \in 2 .. n - 1 : h[k \div 2].key <= h[k].key
  PROVE  IsHeap(SiftUp(h))
<1> DEFINE next == Up(h)
           m == [k \in 1 .. n |-> k]
           T == Trail(next, n)
           g == SiftUp(h)
<1>1. DOMAIN h = 1 .. n /\ \A k \in 1 .. n : h[k] \in S /\ h[k].key \in Int
  <2>1. DOMAIN h = 1 .. n /\ \A k \in 1 .. n : h[k] \in S OBVIOUS
  <2> QED BY <2>1
<1>2. Ends(n, next, m) BY <1>1, UpEnds
<1>3. IsTrail(n, next, m, n, T)
  <2>1. n \in Nat /\ n \in 1 .. n OBVIOUS
  <2> HIDE DEF next, m, T
  <2> QED BY <1>2, <2>1, TrailFacts DEF T
<1>4. \A k \in 1 .. n : /\ k > 1 /\ h[n].key < h[k \div 2].key => next[k] = k \div 2
                        /\ ~(k > 1 /\ h[n].key < h[k \div 2].key) => next[k] = 0
                        /\ next[k] = 0 \/ (next[k] = k \div 2 /\ k > 1)
                        /\ k > 1 => k \div 2 \in 1 .. n - 1 /\ k \div 2 < k
  <2> TAKE k \in 1 .. n
  <2>1. next[k] = IF k > 1 /\ Less(h[n], h[k \div 2]) THEN k \div 2 ELSE 0 BY <1>1 DEF Up
  <2>2. next[k] = 0 \/ (next[k] = k \div 2 /\ k > 1) BY ONLY <2>1
  <2>3. k > 1 /\ Less(h[n], h[k \div 2]) => next[k] = k \div 2 BY ONLY <2>1
  <2>4. ~(k > 1 /\ Less(h[n], h[k \div 2])) => next[k] = 0 BY ONLY <2>1
  <2>5. Less(h[n], h[k \div 2]) <=> h[n].key < h[k \div 2].key BY DEF Less
  <2>6. k > 1 => k \div 2 \in 1 .. n - 1 /\ k \div 2 < k OBVIOUS
  <2> HIDE DEF next
  <2> QED BY <2>2, <2>3, <2>4, <2>5, <2>6
<1>5. g = [k \in 1 .. n |-> IF k \notin T THEN h[k] ELSE IF next[k] = 0 THEN h[n] ELSE h[next[k]]]
  BY <1>1 DEF SiftUp, Moved
<1>6. /\ T \subseteq 1 .. n /\ n \in T
      /\ \A j \in T : next[j] # 0 => next[j] \in T
      /\ \A j \in T : j # n => \E p \in T : next[p] = j
      /\ \A j, k \in T : j < k => next[k] # 0
  <2>1. \A k \in 1 .. n : m[k] = k OBVIOUS
  <2>2. ASSUME NEW j \in T, NEW k \in T, j < k PROVE next[k] # 0
    <3>2. j \in 1 .. n /\ k \in 1 .. n /\ j # k
      <4> HIDE DEF next, m, T
      <4> QED BY <1>3, <2>2 DEF IsTrail
    <3>1. \/ next[j] # 0 /\ m[k] <= m[next[j]]
          \/ next[k] # 0 /\ m[j] <= m[next[k]]
      <4> HIDE DEF next, m, T
      <4> QED BY <1>3, <3>2 DEF IsTrail
    <3>3. next[j] # 0 => next[j] \in 1 .. n /\ next[j] < j BY <1>4, <3>2
    <3> HIDE DEF next, m
    <3> QED BY <2>1, <2>2, <3>1, <3>2, <3>3
  <2> HIDE DEF next, m, T
  <2> QED BY <1>3, <2>2 DEF IsTrail
<1>7. Len(g) = n BY <1>5
<1> HIDE DEF next, m, T, g
<1>8. ASSUME NEW k \in 2 .. n, NEW p \in 1 .. n - 1, p = k \div 2 PROVE g[p].key <= g[k].key
  <2>1. p < k /\ k \in 1 .. n /\ p \in 1 .. n /\ k > 1 BY <1>8
  <2>2. p > 1 => h[p \div 2].key <= h[p].key BY <1>8, <2>1
  <2>3. k # n => h[p].key <= h[k].key BY <1>8, <2>1
  <2>4. next[p] = 0 \/ (next[p] = p \div 2 /\ p > 1) BY <1>4, <2>1
  <2>5. h[p].key \in Int /\ h[k].key \in Int /\ h[n].key \in Int BY <1>1, <2>1
  <2>6. p > 1 => h[p \div 2].key \in Int BY <1>1, <2>1
  <2>7. g[p] = IF p \notin T THEN h[p] ELSE IF next[p] = 0 THEN h[n] ELSE h[next[p]] BY <1>5, <2>1
  <2>8. g[k] = IF k \notin T THEN h[k] ELSE IF next[k] = 0 THEN h[n] ELSE h[next[k]] BY <1>5, <2>1
  <2>9. (h[n].key < h[p].key => next[k] = p) /\ (~(h[n].key < h[p].key) => next[k] = 0) BY <1>4, <1>8, <2>1
  <2>10. p \in T => h[n].key < h[p].key
    <3> SUFFICES ASSUME p \in T PROVE h[n].key < h[p].key OBVIOUS
    <3>1. PICK q \in T : next[q] = p BY <1>6, <2>1
    <3>2. q \in 1 .. n /\ next[q] # 0 BY <1>6, <2>1, <3>1
    <3>3. h[n].key < h[q \div 2].key /\ next[q] = q \div 2 BY <1>4, <3>2
    <3> QED BY <3>1, <3>3
  <2>11. CASE k \in T /\ next[k] # 0
    <3>1. next[k] = p /\ p \in T /\ g[k] = h[p] BY <1>6, <2>8, <2>9, <2>11
    <3>2. CASE next[p] = 0 BY <2>5, <2>7, <2>10, <3>1, <3>2
    <3>3. CASE next[p] # 0 BY <2>2, <2>4, <2>7, <3>1, <3>3
    <3> QED BY <3>2, <3>3
  <2>12. CASE k \in T /\ next[k] = 0
    <3>1. p \notin T BY <1>6, <2>1, <2>12
    <3> QED BY <2>5, <2>7, <2>8, <2>9, <2>1, <2>12, <3>1
  <2>13. CASE k \notin T
    <3>1. k # n /\ g[k] = h[k] BY <1>6, <2>8, <2>13
    <3>2. CASE p \notin T BY <2>3, <2>7, <3>1, <3>2
    <3>3. CASE p \in T /\ next[p] = 0 BY <2>3, <2>5, <2>7, <2>10, <3>1, <3>3
    <3>4. CASE p \in T /\ next[p] # 0 BY <2>2, <2>3, <2>4, <2>5, <2>6, <2>7, <3>1, <3>4
    <3> QED BY <3>2, <3>3, <3>4
  <2> QED BY <2>11, <2>12, <2>13
<1>9. \A k \in 2 .. n : k \div 2 \in 1 .. n - 1 BY <1>4
<1>10. IsHeap(g) BY <1>7, <1>8, <1>9 DEF IsHeap
<1> QED BY <1>10 DEF g

LEMMA PushedHeap ==
  ASSUME NEW S, \A x \in S : x.key \in Int, NEW h \in Seq(S), IsHeap(h), NEW item \in S
  PROVE  IsHeap(Pushed(h, item))
<1> DEFINE g == Append(h, item)
           n == Len(h) + 1
<1>1. g \in Seq(S) /\ Len(g) = n /\ n \in Nat \ {0} OBVIOUS
<1>2. \A k \in 1 .. n - 1 : g[k] = h[k] OBVIOUS
<1>3. ASSUME NEW k \in 2 .. n - 1 PROVE g[k \div 2].key <= g[k].key
  <2>1. k \div 2 \in 1 .. n - 1 /\ k \in 1 .. n - 1 /\ k \in 2 .. Len(h) OBVIOUS
  <2>2. h[k \div 2].key <= h[k].key BY <2>1 DEF IsHeap
  <2> HIDE DEF g, n
  <2> QED BY <1>2, <2>1, <2>2
<1>4. Pushed(h, item) = SiftUp(g) BY DEF Pushed
<1> HIDE DEF g, n
<1> QED BY <1>1, <1>3, <1>4, SiftUpHeap

LEMMA SiftDownHeap ==
  ASSUME NEW S, \A x \in S : x.key \in Int, NEW h \in Seq(S), NEW n \in Nat \ {0}, Len(h) = n,
         \A k \in 4 .. n : h[k \div 2].key <= h[k].key
  PROVE  IsHeap(SiftDown(h))
<1> DEFINE next == Down(h)
           m == [k \in 1 .. n |-> n - k]
           T == Trail(next, 1)
           g == Moved(h, next, 1)
<1>1. DOMAIN h = 1 .. n /\ \A k \in 1 .. n : h[k] \in S /\ h[k].key \in Int
  <2>1. DOMAIN h = 1 .. n /\ \A k \in 1 .. n : h[k] \in S OBVIOUS
  <2> QED BY <2>1
<1>2. Ends(n, next, m) BY <1>1, DownEnds
<1>3. IsTrail(n, next, m, 1, T)
  <2>1. n \in Nat /\ 1 \in 1 .. n OBVIOUS
  <2> HIDE DEF next, m, T
  <2> QED BY <1>2, <2>1, TrailFacts DEF T
<1>4. \A k \in 1 .. n :
        /\ next[k] # 0 => next[k] = Child(h, k) /\ 2 * k <= n /\ h[next[k]].key < h[1].key
        /\ 2 * k <= n /\ next[k] = 0 => ~(h[Child(h, k)].key < h[1].key)
  <2> TAKE k \in 1 .. n
  <2>1. next[k] = IF 2 * k <= n /\ Less(h[Child(h, k)], h[1]) THEN Child(h, k) ELSE 0 BY <1>1 DEF Down
  <2>2. 2 * k <= n => Child(h, k) # 0 BY DEF Child
  <2>3. next[k] # 0 => next[k] = Child(h, k) /\ 2 * k <= n /\ Less(h[next[k]], h[1]) BY ONLY <2>1
  <2>4. 2 * k <= n /\ next[k] = 0 => ~Less(h[Child(h, k)], h[1]) BY ONLY <2>1, <2>2
  <2> HIDE DEF next
  <2> QED BY <2>3, <2>4 DEF Less
<1>5. \A k \in 1 .. n : 2 * k <= n =>
        /\ Child(h, k) \in {2 * k, 2 * k + 1} /\ Child(h, k) \in 1 .. n
        /\ h[Child(h, k)].key <= h[2 * k].key
        /\ 2 * k + 1 <= n => h[Child(h, k)].key <= h[2 * k + 1].key
  <2> TAKE k \in 1 .. n
  <2> HAVE 2 * k <= n
  <2>1. h[2 * k].key \in Int BY <1>1
  <2>2. CASE 2 * k + 1 <= n /\ Less(h[2 * k + 1], h[2 * k])
    <3>1. Child(h, k) = 2 * k + 1 BY <2>2 DEF Child
    <3>2. h[2 * k + 1].key \in Int BY <1>1, <2>2
    <3> QED BY <2>1, <2>2, <3>1, <3>2 DEF Less
  <2>3. CASE ~(2 * k + 1 <= n /\ Less(h[2 * k + 1], h[2 * k]))
    <3>1. Child(h, k) = 2 * k BY <2>3 DEF Child
    <3>2. 2 * k + 1 <= n => h[2 * k + 1].key \in Int BY <1>1
    <3> QED BY <2>1, <2>3, <3>1, <3>2 DEF Less
  <2> QED BY <2>2, <2>3
<1>6. g = [k \in 1 .. n |-> IF k \notin T THEN h[k] ELSE IF next[k] = 0 THEN h[1] ELSE h[next[k]]]
  BY <1>1 DEF Moved
<1>7. /\ T \subseteq 1 .. n /\ 1 \in T
      /\ \A j \in T : next[j] # 0 => next[j] \in T
      /\ \A j \in T : j # 1 => \E p \in T : next[p] = j
  <2> HIDE DEF next, m, T
  <2> QED BY <1>3 DEF IsTrail
<1>8. Len(g) = n BY <1>6
<1> HIDE DEF next, m, T, g
<1>9. ASSUME NEW k \in 2 .. n, NEW p \in 1 .. n - 1, p = k \div 2 PROVE g[p].key <= g[k].key
  <2>1. p < k /\ k \in 1 .. n /\ p \in 1 .. n /\ 2 * p <= n /\ k \in {2 * p, 2 * p + 1} BY <1>9
  <2>2. p > 1 => h[p].key <= h[k].key BY <1>9, <2>1
  <2>3. h[p].key \in Int /\ h[k].key \in Int /\ h[1].key \in Int BY <1>1, <2>1
  <2>4. h[Child(h, p)].key \in Int /\ h[Child(h, p)].key <= h[k].key
    <3>1. Child(h, p) \in 1 .. n BY <1>5, <2>1
    <3>2. h[Child(h, p)].key \in Int BY <1>1, <3>1
    <3>3. h[Child(h, p)].key <= h[2 * p].key BY <1>5, <2>1
    <3>4. 2 * p + 1 <= n => h[Child(h, p)].key <= h[2 * p + 1].key BY <1>5, <2>1
    <3>5. CASE k = 2 * p BY <3>2, <3>3, <3>5
    <3>6. CASE k = 2 * p + 1 BY <2>1, <3>2, <3>4, <3>6
    <3> QED BY <2>1, <3>5, <3>6
  <2>5. k \in T => p \in T /\ next[p] = k
    <3> SUFFICES ASSUME k \in T PROVE p \in T /\ next[p] = k OBVIOUS
    <3>1. PICK q \in T : next[q] = k BY <1>7
    <3>2. q \in 1 .. n /\ next[q] # 0 BY <1>7, <3>1
    <3>3. next[q] = Child(h, q) /\ 2 * q <= n BY <1>4, <3>2
    <3>4. k \in {2 * q, 2 * q + 1} BY <1>5, <3>1, <3>2, <3>3
    <3>5. q = p BY <2>1, <3>2, <3>4
    <3> QED BY <3>1, <3>5
  <2>6. g[p] = IF p \notin T THEN h[p] ELSE IF next[p] = 0 THEN h[1] ELSE h[next[p]] BY <1>6, <2>1
  <2>7. g[k] = IF k \notin T THEN h[k] ELSE IF next[k] = 0 THEN h[1] ELSE h[next[k]] BY <1>6, <2>1
  <2>8. CASE p \notin T
    <3>1. g[p] = h[p] /\ g[k] = h[k] /\ p # 1 BY <1>7, <2>5, <2>6, <2>7, <2>8
    <3> QED BY <2>1, <2>2, <3>1
  <2>9. CASE p \in T /\ next[p] = 0
    <3>1. k \notin T BY <2>1, <2>5, <2>9
    <3>2. g[p] = h[1] /\ g[k] = h[k] BY <2>6, <2>7, <2>9, <3>1
    <3>3. ~(h[Child(h, p)].key < h[1].key) BY <1>4, <2>1, <2>9
    <3> QED BY <2>3, <2>4, <3>2, <3>3
  <2>10. CASE p \in T /\ next[p] # 0
    <3>1. next[p] = Child(h, p) /\ h[next[p]].key < h[1].key BY <1>4, <2>1, <2>10
    <3>2. g[p] = h[Child(h, p)] BY <2>6, <2>10, <3>1
    <3>3. CASE k \notin T
      <4>1. g[k] = h[k] BY <2>7, <3>3
      <4> QED BY <2>4, <3>2, <4>1
    <3>4. CASE k \in T /\ next[k] = 0
      <4>1. g[k] = h[1] BY <2>7, <3>4
      <4> QED BY <2>3, <2>4, <3>1, <3>2, <4>1
    <3>5. CASE k \in T /\ next[k] # 0
      <4>1. g[k] = h[Child(h, k)] /\ 2 * k <= n BY <1>4, <2>1, <2>7, <3>5
      <4>2. Child(h, k) \in {2 * k, 2 * k + 1} /\ Child(h, k) \in 1 .. n BY <1>5, <2>1, <4>1
      <4>3. Child(h, k) \in 4 .. n /\ Child(h, k) \div 2 = k
        <5>1. k >= 2 /\ k \in Int BY <2>1
        <5>2. CASE Child(h, k) = 2 * k BY <4>2, <5>1, <5>2
        <5>3. CASE Child(h, k) = 2 * k + 1 BY <4>2, <5>1, <5>3
        <5> QED BY <4>2, <5>2, <5>3
      <4>4. h[k].key <= h[Child(h, k)].key BY <4>3
      <4>5. Child(h, p) = k BY <2>5, <3>1, <3>5
      <4> QED BY <3>2, <4>1, <4>4, <4>5
    <3> QED BY <3>3, <3>4, <3>5
  <2> QED BY <2>8, <2>9, <2>10
<1>10. \A k \in 2 .. n : k \div 2 \in 1 .. n - 1 OBVIOUS
<1>11. IsHeap(g) BY <1>8, <1>9, <1>10 DEF IsHeap
<1>12. SiftDown(h) = g BY DEF SiftDown, g, next
<1> QED BY <1>11, <1>12

(* Popped has the items of the heap but its root. *)
LEMMA PoppedItems ==
  ASSUME NEW S, NEW h \in Seq(S), h # <<>>
  PROVE  /\ Popped(h) \in Seq(S) /\ Len(Popped(h)) = Len(h) - 1
         /\ Drawn(Popped(h), h, 2 .. Len(h))
<1> DEFINE n == Len(h) - 1
           g == [k \in 1 .. n |-> h[IF k = 1 THEN Len(h) ELSE k]]
           m == [k \in 1 .. n |-> n - k]
           Back(j) == IF j = 1 THEN Len(h) ELSE j
<1>1. n \in Nat /\ Len(h) \in Nat /\ Len(h) = n + 1 OBVIOUS
<1>2. g \in Seq(S) /\ Len(g) = n /\ DOMAIN g = 1 .. n
  <2>1. \A k \in 1 .. n : h[IF k = 1 THEN Len(h) ELSE k] \in S OBVIOUS
  <2> QED BY <2>1
<1>3. Popped(h) = SiftDown(g) BY DEF Popped
<1>4. CASE n = 0
  <2>1. g = <<>>
    <3> HIDE DEF g
    <3> QED BY <1>2, <1>4
  <2>2. Popped(h) = <<>> BY <1>3, <2>1 DEF SiftDown
  <2>3. Drawn(<<>>, h, 2 .. Len(h))
    <3>1. 2 .. Len(h) = {}
      <4>1. Len(h) = 1
        <5> HIDE DEF n
        <5> QED BY <1>1, <1>4
      <4> QED BY <4>1
    <3>2. [k \in {} |-> 0] \in [DOMAIN <<>> -> 2 .. Len(h)] OBVIOUS
    <3> QED BY <3>1, <3>2 DEF Drawn
  <2>4. Len(h) - 1 = 0
    <3> HIDE DEF n
    <3> QED BY <1>1, <1>4
  <2>5. <<>> \in Seq(S) /\ Len(<<>>) = 0 OBVIOUS
  <2> QED BY ONLY <2>2, <2>3, <2>4, <2>5
<1>5. CASE n # 0
  <2>1. SiftDown(g) = Moved(g, Down(g), 1)
    <3>1. g # <<>> BY <1>2, <1>5
    <3> QED BY <3>1 DEF SiftDown
  <2>2. \A k \in 1 .. n : g[k] = h[Back(k)] OBVIOUS
  <2> HIDE DEF g
  <2>3. Ends(n, Down(g), m) BY <1>1, <1>2, DownEnds
  <2> HIDE DEF m
  <2>4. Moved(g, Down(g), 1) \in Seq(S) /\ Len(Moved(g, Down(g), 1)) = n
    <3>1. 1 \in 1 .. n BY <1>1, <1>5
    <3> HIDE DEF n
    <3> QED BY <1>1, <1>2, <2>3, <3>1, MovedSeq
  <2>5. Drawn(Moved(g, Down(g), 1), g, 1 .. n)
    <3>1. 1 \in 1 .. n BY <1>1, <1>5
    <3> HIDE DEF n
    <3> QED BY <1>1, <1>2, <2>3, <3>1, MovedDrawn
  <2> DEFINE q == Moved(g, Down(g), 1)
  <2> HIDE DEF q
  <2>6. PICK f \in [DOMAIN q -> 1 .. n] :
          /\ \A j, k \in DOMAIN q : f[j] = f[k] => j = k
          /\ \A d \in 1 .. n : \E k \in DOMAIN q : f[k] = d
          /\ \A k \in DOMAIN q : q[k] = g[f[k]]
    BY <2>5 DEF Drawn, q
  <2> DEFINE e == [k \in DOMAIN q |-> Back(f[k])]
  <2>7. \A j \in 1 .. n : Back(j) \in 2 .. Len(h) BY <1>1
  <2>8. \A i, j \in 1 .. n : Back(i) = Back(j) => i = j BY <1>1
  <2>9. \A d \in 2 .. Len(h) : \E j \in 1 .. n : Back(j) = d
    <3> TAKE d \in 2 .. Len(h)
    <3>1. CASE d = Len(h)
      <4>1. 1 \in 1 .. n /\ Back(1) = d BY <1>1, <1>5, <3>1
      <4> QED BY <4>1
    <3>2. CASE d # Len(h)
      <4>1. d \in 1 .. n /\ Back(d) = d
        <5> HIDE DEF n
        <5> QED BY <1>1, <3>2
      <4> QED BY <4>1
    <3> QED BY <3>1, <3>2
  <2> HIDE DEF Back, n
  <2>10. \A k \in DOMAIN q : f[k] \in 1 .. n BY <2>6
  <2>11. e \in [DOMAIN q -> 2 .. Len(h)] BY <2>7, <2>10
  <2>12. \A j, k \in DOMAIN q : e[j] = e[k] => j = k BY <2>6, <2>8, <2>10
  <2>13. \A d \in 2 .. Len(h) : \E k \in DOMAIN q : e[k] = d
    <3> TAKE d \in 2 .. Len(h)
    <3>1. PICK j \in 1 .. n : Back(j) = d BY <2>9
    <3>2. PICK k \in DOMAIN q : f[k] = j BY <2>6
    <3> QED BY <3>1, <3>2
  <2>14. \A k \in DOMAIN q : q[k] = h[e[k]] BY <2>2, <2>6, <2>10
  <2> HIDE DEF e
  <2>15. Drawn(q, h, 2 .. Len(h)) BY <2>11, <2>12, <2>13, <2>14 DEF Drawn
  <2>16. Popped(h) = q BY <1>3, <2>1 DEF q
  <2>17. q \in Seq(S) /\ Len(q) = n BY <2>4 DEF q
  <2> QED BY <1>1, <2>15, <2>16, <2>17
<1> QED BY <1>4, <1>5

LEMMA PoppedHeap ==
  ASSUME NEW S, \A x \in S : x.key \in Int, NEW h \in Seq(S), h # <<>>, IsHeap(h)
  PROVE  IsHeap(Popped(h))
<1> DEFINE n == Len(h) - 1
           g == [k \in 1 .. n |-> h[IF k = 1 THEN Len(h) ELSE k]]
<1>1. n \in Nat /\ Len(h) \in Nat /\ Len(h) = n + 1 OBVIOUS
<1>2. g \in Seq(S) /\ Len(g) = n
  <2>1. \A k \in 1 .. n : h[IF k = 1 THEN Len(h) ELSE k] \in S OBVIOUS
  <2> QED BY <2>1
<1>3. Popped(h) = SiftDown(g) BY DEF Popped
<1>4. CASE n = 0
  <2>1. g = <<>>
    <3> HIDE DEF g
    <3> QED BY <1>2, <1>4
  <2>2. Popped(h) = <<>> BY <1>3, <2>1 DEF SiftDown
  <2> QED BY <2>2 DEF IsHeap
<1>5. CASE n # 0
  <2>1. \A k \in 2 .. n : g[k] = h[k] OBVIOUS
  <2>2. ASSUME NEW k \in 4 .. n PROVE g[k \div 2].key <= g[k].key
    <3>1. k \div 2 \in 2 .. n /\ k \in 2 .. n /\ k \in 2 .. Len(h) BY <1>1
    <3>2. h[k \div 2].key <= h[k].key BY <3>1 DEF IsHeap
    <3> HIDE DEF g, n
    <3> QED BY <2>1, <3>1, <3>2
  <2>3. n \in Nat \ {0} BY <1>1, <1>5
  <2> HIDE DEF g, n
  <2> QED BY <1>2, <1>3, <2>2, <2>3, SiftDownHeap
<1> QED BY <1>4, <1>5
(* What is in a heap after a push: the item, and what was in it. *)
LEMMA PushedFacts ==
  ASSUME NEW E, \A e \in E : e.key \in Int, NEW h \in Seq(E), IsHeap(h), NEW item \in E
  PROVE  /\ Pushed(h, item) \in Seq(E) /\ IsHeap(Pushed(h, item))
         /\ \A k \in DOMAIN Pushed(h, item) :
              Pushed(h, item)[k] = item \/ \E j \in DOMAIN h : Pushed(h, item)[k] = h[j]
<1> DEFINE g == Append(h, item)
           p == Pushed(h, item)
<1>1. p \in Seq(E) /\ Drawn(p, g, 1 .. Len(h) + 1) BY PushedItems
<1>2. IsHeap(p) BY PushedHeap
<1>3. \A j \in 1 .. Len(h) + 1 : g[j] = item \/ (j \in DOMAIN h /\ g[j] = h[j]) OBVIOUS
<1> HIDE DEF p, g
<1>4. ASSUME NEW k \in DOMAIN p PROVE \E j \in 1 .. Len(h) + 1 : p[k] = g[j] BY <1>1 DEF Drawn
<1>5. ASSUME NEW k \in DOMAIN p PROVE p[k] = item \/ \E j \in DOMAIN h : p[k] = h[j]
  <2>1. PICK j \in 1 .. Len(h) + 1 : p[k] = g[j] BY <1>4
  <2>2. g[j] = item \/ (j \in DOMAIN h /\ g[j] = h[j]) BY <1>3
  <2> QED BY <2>1, <2>2
<1> QED BY <1>1, <1>2, <1>5 DEF p

(* The root is least, and a pop leaves nothing that was not in the heap. *)
LEMMA PoppedFacts ==
  ASSUME NEW E, \A e \in E : e.key \in Int, NEW h \in Seq(E), IsHeap(h), h # <<>>
  PROVE  /\ Popped(h) \in Seq(E) /\ IsHeap(Popped(h))
         /\ Head(h) \in E /\ Head(h) = h[1] /\ 1 \in DOMAIN h
         /\ \A k \in DOMAIN h : Head(h).key <= h[k].key
         /\ \A k \in DOMAIN Popped(h) : \E j \in DOMAIN h : Popped(h)[k] = h[j]
<1> DEFINE p == Popped(h)
<1>1. p \in Seq(E) /\ Drawn(p, h, 2 .. Len(h)) BY PoppedItems
<1>2. IsHeap(p) BY PoppedHeap
<1>3. Head(h) = h[1] /\ 1 \in DOMAIN h /\ Len(h) \in Nat /\ DOMAIN h = 1 .. Len(h) /\ \A k \in DOMAIN h : h[k] \in E
  OBVIOUS
<1>4. \A k \in 1 .. Len(h) : h[1].key <= h[k].key BY <1>3, RootLeast
<1> HIDE DEF p
<1>5. ASSUME NEW k \in DOMAIN p PROVE \E j \in DOMAIN h : p[k] = h[j]
  <2>1. \E j \in 2 .. Len(h) : p[k] = h[j] BY <1>1 DEF Drawn
  <2> QED BY <1>3, <2>1
<1> QED BY <1>1, <1>2, <1>3, <1>4, <1>5 DEF p
(* Two items of a heap are two items of what it was made of. *)
LEMMA PushedPairs ==
  ASSUME NEW E, NEW h \in Seq(E), NEW item \in E
  PROVE  /\ \E k \in DOMAIN Pushed(h, item) : Pushed(h, item)[k] = item
         /\ \A j \in DOMAIN h : \E k \in DOMAIN Pushed(h, item) : Pushed(h, item)[k] = h[j]
         /\ \A k, l \in DOMAIN Pushed(h, item) : k # l =>
              \/ Pushed(h, item)[k] = item /\ \E j \in DOMAIN h : Pushed(h, item)[l] = h[j]
              \/ Pushed(h, item)[l] = item /\ \E j \in DOMAIN h : Pushed(h, item)[k] = h[j]
              \/ \E i, j \in DOMAIN h : i # j /\ Pushed(h, item)[k] = h[i] /\ Pushed(h, item)[l] = h[j]
<1> DEFINE g == Append(h, item)
           p == Pushed(h, item)
           n == Len(h) + 1
<1>1. Drawn(p, g, 1 .. n) BY PushedItems
<1>2. /\ \A j \in 1 .. n : j = n \/ j \in DOMAIN h
      /\ \A j \in DOMAIN h : j \in 1 .. n /\ g[j] = h[j]
      /\ n \in 1 .. n /\ g[n] = item
  OBVIOUS
<1> HIDE DEF p, g, n
<1>3. PICK f \in [DOMAIN p -> 1 .. n] :
        /\ \A j, k \in DOMAIN p : f[j] = f[k] => j = k
        /\ \A d \in 1 .. n : \E k \in DOMAIN p : f[k] = d
        /\ \A k \in DOMAIN p : p[k] = g[f[k]]
  BY <1>1 DEF Drawn
<1>4. \E k \in DOMAIN p : p[k] = item BY <1>2, <1>3
<1>5. \A j \in DOMAIN h : \E k \in DOMAIN p : p[k] = h[j]
  <2> TAKE j \in DOMAIN h
  <2>1. PICK k \in DOMAIN p : f[k] = j BY <1>2, <1>3
  <2> QED BY <1>2, <1>3, <2>1
<1>6. ASSUME NEW k \in DOMAIN p, NEW l \in DOMAIN p, k # l
      PROVE  \/ p[k] = item /\ \E j \in DOMAIN h : p[l] = h[j]
             \/ p[l] = item /\ \E j \in DOMAIN h : p[k] = h[j]
             \/ \E i, j \in DOMAIN h : i # j /\ p[k] = h[i] /\ p[l] = h[j]
  <2>1. f[k] # f[l] /\ f[k] \in 1 .. n /\ f[l] \in 1 .. n /\ p[k] = g[f[k]] /\ p[l] = g[f[l]] BY <1>3, <1>6
  <2>2. CASE f[k] = n
    <3>1. f[l] \in DOMAIN h BY <1>2, <2>1, <2>2
    <3> QED BY <1>2, <2>1, <2>2, <3>1
  <2>3. CASE f[l] = n
    <3>1. f[k] \in DOMAIN h BY <1>2, <2>1, <2>3
    <3> QED BY <1>2, <2>1, <2>3, <3>1
  <2>4. CASE f[k] # n /\ f[l] # n
    <3>1. f[k] \in DOMAIN h /\ f[l] \in DOMAIN h BY <1>2, <2>1, <2>4
    <3> QED BY <1>2, <2>1, <3>1
  <2> QED BY <2>2, <2>3, <2>4
<1> QED BY <1>4, <1>5, <1>6 DEF p

LEMMA PoppedPairs ==
  ASSUME NEW E, NEW h \in Seq(E), h # <<>>
  PROVE  /\ \A j \in DOMAIN h : j # 1 => \E k \in DOMAIN Popped(h) : Popped(h)[k] = h[j]
         /\ \A k \in DOMAIN Popped(h) : \E j \in DOMAIN h : j # 1 /\ Popped(h)[k] = h[j]
         /\ \A k, l \in DOMAIN Popped(h) : k # l =>
              \E i, j \in DOMAIN h : i # j /\ Popped(h)[k] = h[i] /\ Popped(h)[l] = h[j]
<1> DEFINE p == Popped(h)
           D == 2 .. Len(h)
<1>1. Drawn(p, h, D) BY PoppedItems
<1>2. \A j : j \in D <=> j \in DOMAIN h /\ j # 1
  <2>1. DOMAIN h = 1 .. Len(h) /\ Len(h) \in Nat OBVIOUS
  <2> QED BY <2>1
<1> HIDE DEF p, D
<1>3. PICK f \in [DOMAIN p -> D] :
        /\ \A j, k \in DOMAIN p : f[j] = f[k] => j = k
        /\ \A d \in D : \E k \in DOMAIN p : f[k] = d
        /\ \A k \in DOMAIN p : p[k] = h[f[k]]
  BY <1>1 DEF Drawn
<1>4. ASSUME NEW j \in DOMAIN h, j # 1 PROVE \E k \in DOMAIN p : p[k] = h[j]
  <2>1. PICK k \in DOMAIN p : f[k] = j BY <1>2, <1>3, <1>4
  <2> QED BY <1>3, <2>1
<1>5. \A k \in DOMAIN p : f[k] \in DOMAIN h /\ f[k] # 1 /\ p[k] = h[f[k]] BY <1>2, <1>3
<1>6. \A k \in DOMAIN p : \E j \in DOMAIN h : j # 1 /\ p[k] = h[j] BY <1>5
<1>7. ASSUME NEW k \in DOMAIN p, NEW l \in DOMAIN p, k # l
      PROVE  \E i, j \in DOMAIN h : i # j /\ p[k] = h[i] /\ p[l] = h[j]
  <2>1. f[k] # f[l] BY <1>3, <1>7
  <2> QED BY <1>5, <2>1
<1> QED BY <1>4, <1>6, <1>7 DEF p
-----------------------------------------------------------------------------
(* Lists. *)

(* The numbers of a finite set, each once and ascending. *)
LEMMA ArrangedFacts ==
  ASSUME NEW S, S \subseteq Int, IsFiniteSet(S)
  PROVE  /\ Arranged(S) \in Seq(S) /\ Len(Arranged(S)) = Cardinality(S)
         /\ \A i, j \in DOMAIN Arranged(S) : i < j => Arranged(S)[i] < Arranged(S)[j]
         /\ \A x \in S : \E i \in DOMAIN Arranged(S) : Arranged(S)[i] = x
<1> DEFINE Upper(x) == {y \in S : y <= x}
           Rank(x) == Cardinality(Upper(x))
           c == Cardinality(S)
           r == [x \in S |-> Rank(x)]
<1>1. c \in Nat BY FS_CardinalityType
<1>2. ASSUME NEW x \in S PROVE IsFiniteSet(Upper(x)) /\ Rank(x) \in 1 .. c
  <2>1. Upper(x) \in SUBSET S /\ Upper(x) # {} OBVIOUS
  <2> HIDE DEF Upper
  <2>2. IsFiniteSet(Upper(x)) /\ Cardinality(Upper(x)) <= c BY <2>1, FS_Subset
  <2>3. Cardinality(Upper(x)) \in Nat /\ Cardinality(Upper(x)) # 0
    BY <2>1, <2>2, FS_CardinalityType, FS_EmptySet
  <2> QED BY <1>1, <2>2, <2>3
<1>3. ASSUME NEW x \in S, NEW y \in S, x < y PROVE Rank(x) < Rank(y)
  <2>0. x \in Int /\ y \in Int /\ \A z \in S : z \in Int OBVIOUS
  <2>1. Upper(x) \in SUBSET Upper(y) /\ y \in Upper(y) /\ y \notin Upper(x)
    <3>1. \A z \in Upper(x) : z \in Upper(y) BY <1>3, <2>0
    <3>2. y \in Upper(y) /\ y \notin Upper(x) BY <1>3, <2>0
    <3> HIDE DEF Upper
    <3> QED BY <3>1, <3>2
  <2>2. IsFiniteSet(Upper(y)) /\ Rank(x) \in Nat /\ Rank(y) \in Nat BY <1>1, <1>2
  <2> HIDE DEF Upper
  <2>3. Rank(x) <= Rank(y) /\ (Rank(y) = Rank(x) => Upper(y) = Upper(x)) BY <2>1, <2>2, FS_Subset
  <2> QED BY <2>1, <2>2, <2>3
<1>4. ASSUME NEW x \in S, NEW y \in S, Rank(x) = Rank(y) PROVE x = y
  <2>1. Rank(x) \in Int /\ Rank(y) \in Int /\ x \in Int /\ y \in Int BY <1>1, <1>2
  <2> HIDE DEF Rank
  <2> QED BY <1>3, <1>4, <2>1
<1>5. r \in Injection(S, 1 .. c)
  <2>1. r \in [S -> 1 .. c] BY <1>2
  <2>2. \A x, y \in S : r[x] = r[y] => x = y BY <1>4
  <2> HIDE DEF r
  <2> QED BY <2>1, <2>2 DEF Injection, IsInjective
<1>6. r \in Surjection(S, 1 .. c)
  <2>1. IsFiniteSet(1 .. c) /\ Cardinality(1 .. c) = c BY <1>1, FS_Interval
  <2> HIDE DEF r
  <2> QED BY <1>5, <2>1, FS_Injection
<1>7. ASSUME NEW k \in 1 .. c PROVE \E x \in S : Rank(x) = k
  <2>1. \E x \in S : r[x] = k BY <1>6 DEF Surjection
  <2> QED BY <2>1
<1> DEFINE AtPlaces(k) == CHOOSE x \in S : Rank(x) = k
<1>8. Arranged(S) = [k \in 1 .. c |-> AtPlaces(k)] BY DEF Arranged
<1>9. ASSUME NEW k \in 1 .. c PROVE AtPlaces(k) \in S /\ Rank(AtPlaces(k)) = k
  <2> HIDE DEF Rank
  <2> QED BY <1>7
<1> HIDE DEF AtPlaces
<1> DEFINE a == Arranged(S)
<1>10. DOMAIN a = 1 .. c /\ a \in Seq(S) /\ Len(a) = c
  <2>1. a \in [1 .. c -> S] BY <1>8, <1>9
  <2> HIDE DEF a
  <2> QED BY <1>1, <2>1
<1>11. ASSUME NEW i \in 1 .. c, NEW j \in 1 .. c, i < j PROVE a[i] < a[j]
  <2>1. a[i] \in S /\ a[j] \in S /\ Rank(a[i]) = i /\ Rank(a[j]) = j BY <1>8, <1>9
  <2>2. a[i] \in Int /\ a[j] \in Int BY <2>1
  <2> HIDE DEF Rank, a
  <2>3. ASSUME a[j] < a[i] PROVE FALSE
    <3>1. Rank(a[j]) < Rank(a[i]) BY <1>3, <2>1, <2>3
    <3> QED BY <1>11, <2>1, <3>1
  <2>4. a[i] # a[j] BY <1>11, <2>1
  <2> QED BY <2>2, <2>3, <2>4
<1>12. ASSUME NEW x \in S PROVE \E i \in 1 .. c : a[i] = x
  <2>1. Rank(x) \in 1 .. c BY <1>2
  <2>2. a[Rank(x)] = AtPlaces(Rank(x)) BY <1>8, <2>1
  <2>3. AtPlaces(Rank(x)) = x
    <3> HIDE DEF Rank
    <3> QED BY <1>4, <1>9, <2>1
  <2> QED BY <2>1, <2>2, <2>3
<1> HIDE DEF a
<1> QED BY <1>10, <1>11, <1>12 DEF a

(* What is picked are the items at those places, in their order. *)
LEMMA PickedFacts ==
  ASSUME NEW T, NEW s \in Seq(T), NEW S, S \subseteq DOMAIN s
  PROVE  /\ Picked(s, S) \in Seq(T) /\ DOMAIN Picked(s, S) = DOMAIN Arranged(S)
         /\ \A i \in DOMAIN Picked(s, S) : Arranged(S)[i] \in S /\ Picked(s, S)[i] = s[Arranged(S)[i]]
         /\ \A i, j \in DOMAIN Picked(s, S) : i < j => Arranged(S)[i] < Arranged(S)[j]
         /\ \A x \in S : \E i \in DOMAIN Picked(s, S) : Arranged(S)[i] = x
<1> DEFINE a == Arranged(S)
<1>1. IsFiniteSet(S) /\ S \subseteq Int
  <2>1. S \in SUBSET (1 .. Len(s)) /\ Len(s) \in Int OBVIOUS
  <2> QED BY <2>1, FS_Interval, FS_Subset
<1>2. /\ a \in Seq(S)
      /\ \A i, j \in DOMAIN a : i < j => a[i] < a[j]
      /\ \A x \in S : \E i \in DOMAIN a : a[i] = x
  BY <1>1, ArrangedFacts
<1>3. Picked(s, S) = [k \in DOMAIN a |-> s[a[k]]] BY DEF Picked
<1> HIDE DEF a
<1>4. DOMAIN a = 1 .. Len(a) /\ Len(a) \in Nat /\ \A k \in DOMAIN a : a[k] \in S BY <1>2
<1>5. \A k \in DOMAIN a : s[a[k]] \in T BY <1>4
<1>6. Picked(s, S) \in Seq(T) BY <1>3, <1>4, <1>5
<1> QED BY <1>2, <1>3, <1>4, <1>6 DEF a

(* The steps 1 .. b of g stay in X, and h is where they lead from x. *)
Stays(X, g, b) == \A n \in 1 .. b : \A y \in X : g[n][y] \in X
Steps(h, X, x, g, b) == h \in [0 .. b -> X] /\ h[0] = x /\ \A n \in 1 .. b : h[n] = g[n][h[n - 1]]

LEMMA StepByStep ==
  ASSUME NEW X, NEW x \in X, NEW g, NEW b \in Nat, Stays(X, g, b)
  PROVE  \E h : Steps(h, X, x, g, b)
<1> USE DEF Stays, Steps
<1> DEFINE Reaches(h, m) == h[0] = x /\ \A n \in 1 .. m : h[n] = g[n][h[n - 1]]
           S == {m \in Nat : m <= b => \E h \in [0 .. m -> X] : Reaches(h, m)}
<1>1. 0 \in S
  <2>1. [n \in 0 .. 0 |-> x] \in [0 .. 0 -> X] /\ Reaches([n \in 0 .. 0 |-> x], 0) OBVIOUS
  <2> HIDE DEF Reaches
  <2> QED BY <2>1
<1>2. ASSUME NEW m \in Nat, m \in S PROVE m + 1 \in S
  <2> SUFFICES ASSUME m + 1 <= b PROVE \E h \in [0 .. m + 1 -> X] : Reaches(h, m + 1) OBVIOUS
  <2>1. PICK h \in [0 .. m -> X] : Reaches(h, m) BY <1>2
  <2> DEFINE y == g[m + 1][h[m]]
             f == [n \in 0 .. m + 1 |-> IF n = m + 1 THEN y ELSE h[n]]
  <2>2. m + 1 \in 1 .. b /\ h[m] \in X BY <2>1
  <2>3. y \in X BY <2>2
  <2> HIDE DEF y
  <2>4. f \in [0 .. m + 1 -> X] BY <2>1, <2>3
  <2>5. \A n \in 0 .. m : f[n] = h[n] OBVIOUS
  <2>6. f[m + 1] = y OBVIOUS
  <2> HIDE DEF f
  <2>7. f[0] = x BY <2>1, <2>5
  <2>8. ASSUME NEW n \in 1 .. m + 1 PROVE f[n] = g[n][f[n - 1]]
    <3>1. CASE n = m + 1
      <4>1. f[n - 1] = h[m] BY <2>5, <3>1
      <4> QED BY <2>6, <3>1, <4>1 DEF y
    <3>2. CASE n \in 1 .. m
      <4>1. f[n] = h[n] /\ f[n - 1] = h[n - 1] BY <2>5, <3>2
      <4> QED BY <2>1, <3>2, <4>1
    <3> QED BY <3>1, <3>2
  <2> QED BY <2>4, <2>7, <2>8
<1>3. b \in S
  <2> HIDE DEF S
  <2> QED BY <1>1, <1>2, AllNumbers
<1> QED BY <1>3

(* Where in the parts of a flattened sequence its items are: the k-th is   *)
(* the one at place p[k] of part g[k], and each has a place.               *)
Flattened(f, s, n, g, p) ==
  /\ \A k \in 1 .. Len(f) : g[k] \in 1 .. n /\ p[k] \in 1 .. Len(s[g[k]]) /\ f[k] = s[g[k]][p[k]]
  /\ \A j, k \in 1 .. Len(f) : j < k => g[j] < g[k] \/ (g[j] = g[k] /\ p[j] < p[k])
  /\ \A i \in 1 .. n : \A m \in 1 .. Len(s[i]) : \E k \in 1 .. Len(f) : g[k] = i /\ p[k] = m

(* The parts come one after the other, each in its order. *)
LEMMA FlattenFacts ==
  ASSUME NEW T, NEW s \in Seq(Seq(T))
  PROVE  /\ FlattenSeq(s) \in Seq(T)
         /\ \E g, p : Flattened(FlattenSeq(s), s, Len(s), g, p)
<1> DEFINE c == Len(s)
           Good(f, n) == f \in Seq(T) /\ \E g, p : Flattened(f, s, n, g, p)
           Follows(f) == f = [i \in 1 .. c |-> IF i = 1 THEN s[i] ELSE f[i - 1] \o s[i]]
           flatten == CHOOSE f : Follows(f)
           step == [n \in 1 .. c |-> [y \in Seq(T) |-> y \o s[n]]]
<1>1. c \in Nat /\ DOMAIN s = 1 .. c /\ \A i \in 1 .. c : s[i] \in Seq(T) OBVIOUS
<1> HIDE DEF c
<1>2. \A n \in 1 .. c : \A y \in Seq(T) : step[n][y] = y \o s[n] /\ step[n][y] \in Seq(T) BY <1>1
<1>3. PICK h \in [0 .. c -> Seq(T)] : h[0] = <<>> /\ \A n \in 1 .. c : h[n] = step[n][h[n - 1]]
  <2> DEFINE X == Seq(T)
  <2>1. <<>> \in X OBVIOUS
  <2>2. Stays(X, step, c) BY <1>2 DEF Stays
  <2> HIDE DEF step, X
  <2>3. \E h : Steps(h, X, <<>>, step, c) BY <1>1, <2>1, <2>2, StepByStep
  <2> QED BY <2>3 DEF Steps, X
<1>4. ASSUME NEW n \in 1 .. c PROVE h[n] = h[n - 1] \o s[n] /\ h[n - 1] \in Seq(T) /\ s[n] \in Seq(T)
  <2>1. n \in 0 .. c /\ n - 1 \in 0 .. c BY <1>1
  <2>2. h[n - 1] \in Seq(T) BY <1>3, <2>1
  <2> HIDE DEF step
  <2> QED BY <1>1, <1>2, <1>3, <2>2
<1> HIDE DEF step
<1>5. Follows([n \in 1 .. c |-> h[n]])
  <2>1. ASSUME NEW n \in 1 .. c PROVE h[n] = IF n = 1 THEN s[n] ELSE h[n - 1] \o s[n]
    <3>1. CASE n = 1
      <4>1. h[n - 1] = <<>> BY <1>3, <3>1
      <4>2. s[n] \in Seq(T) /\ h[n] = h[n - 1] \o s[n] BY <1>4
      <4> QED BY <3>1, <4>1, <4>2
    <3>2. CASE n # 1 BY <1>4, <3>2
    <3> QED BY <3>1, <3>2
  <2>2. \A n \in 1 .. c : n # 1 => n - 1 \in 1 .. c BY <1>1
  <2> DEFINE f == [n \in 1 .. c |-> h[n]]
  <2>3. \A n \in 1 .. c : f[n] = IF n = 1 THEN s[n] ELSE f[n - 1] \o s[n] BY <2>1, <2>2
  <2>4. f = [n \in 1 .. c |-> f[n]] OBVIOUS
  <2> HIDE DEF f
  <2> QED BY <2>3, <2>4 DEF f
<1>6. Follows(flatten)
  <2> HIDE DEF Follows
  <2> QED BY <1>5
<1> HIDE DEF flatten
<1>61. \A i \in 1 .. c : flatten[i] = IF i = 1 THEN s[i] ELSE flatten[i - 1] \o s[i] BY <1>6
<1>7. \A n \in 1 .. c : flatten[n] = h[n]
  <2> DEFINE S == {n \in Nat : n \in 1 .. c => flatten[n] = h[n]}
  <2>1. 0 \in S OBVIOUS
  <2>2. ASSUME NEW n \in Nat, n \in S PROVE n + 1 \in S
    <3> SUFFICES ASSUME n + 1 \in 1 .. c PROVE flatten[n + 1] = h[n + 1] OBVIOUS
    <3>0. c \in Nat BY <1>1
    <3>1. flatten[n + 1] = IF n + 1 = 1 THEN s[n + 1] ELSE flatten[n + 1 - 1] \o s[n + 1] BY <1>61
    <3>2. h[n + 1] = h[n + 1 - 1] \o s[n + 1] /\ n + 1 - 1 = n /\ s[n + 1] \in Seq(T)
      <4>1. n + 1 - 1 = n OBVIOUS
      <4>2. \A i \in 1 .. c : h[i] = h[i - 1] \o s[i] /\ s[i] \in Seq(T) BY <1>4
      <4> DEFINE i == n + 1
      <4>3. i \in 1 .. c OBVIOUS
      <4> HIDE DEF i
      <4>4. h[i] = h[i - 1] \o s[i] /\ s[i] \in Seq(T) BY <4>2, <4>3
      <4> QED BY <4>1, <4>4 DEF i
    <3>3. CASE n = 0
      <4>1. h[n] = <<>> /\ n + 1 = 1 BY <1>3, <3>3
      <4>2. flatten[n + 1] = s[n + 1] BY <3>1, <4>1
      <4>3. h[n + 1] = <<>> \o s[n + 1] /\ s[n + 1] \in Seq(T) BY <3>2, <4>1
      <4> QED BY <4>2, <4>3
    <3>4. CASE n # 0
      <4>1. flatten[n] = h[n] BY <2>2, <3>0, <3>4
      <4>2. n + 1 # 1 /\ n + 1 - 1 = n BY <3>4
      <4>3. flatten[n + 1] = flatten[n] \o s[n + 1] BY <3>1, <4>2
      <4> QED BY <3>2, <4>1, <4>3
    <3> QED BY <3>3, <3>4
  <2> HIDE DEF S
  <2>3. Nat \subseteq S BY <2>1, <2>2, AllNumbers
  <2> QED BY <2>3 DEF S
<1>8. ASSUME NEW n \in 1 .. c, Good(h[n - 1], n - 1) PROVE Good(h[n], n)
  <2> DEFINE f == h[n - 1]
             t == s[n]
             l == Len(f)
  <2>1. h[n] = f \o t /\ f \in Seq(T) /\ t \in Seq(T) BY <1>4
  <2>2. PICK g, p : Flattened(f, s, n - 1, g, p) BY <1>8
  <2> DEFINE gn == [k \in 1 .. Len(h[n]) |-> IF k <= l THEN g[k] ELSE n]
             pn == [k \in 1 .. Len(h[n]) |-> IF k <= l THEN p[k] ELSE k - l]
  <2> HIDE DEF f
  <2>3. /\ Len(h[n]) = l + Len(t) /\ l \in Nat /\ Len(t) \in Nat /\ h[n] \in Seq(T)
        /\ \A k \in 1 .. l : h[n][k] = f[k]
        /\ \A k \in 1 .. l + Len(t) : k > l => h[n][k] = t[k - l]
    <3> HIDE DEF t
    <3> QED BY <2>1
  <2>4. \A k \in 1 .. l : g[k] \in 1 .. n - 1 /\ p[k] \in 1 .. Len(s[g[k]]) /\ f[k] = s[g[k]][p[k]]
    BY <2>2 DEF Flattened
  <2>5. \A j, k \in 1 .. l : j < k => g[j] < g[k] \/ (g[j] = g[k] /\ p[j] < p[k])
    BY <2>2 DEF Flattened
  <2>6. /\ \A k \in 1 .. l : k \in 1 .. Len(h[n]) /\ gn[k] = g[k] /\ pn[k] = p[k]
        /\ \A k \in 1 .. Len(h[n]) : k > l => gn[k] = n /\ pn[k] = k - l
    BY <2>3
  <2>7. ASSUME NEW k \in 1 .. Len(h[n])
        PROVE  gn[k] \in 1 .. n /\ pn[k] \in 1 .. Len(s[gn[k]]) /\ h[n][k] = s[gn[k]][pn[k]]
    <3> HIDE DEF gn, pn, l
    <3>1. CASE k <= l
      <4>1. k \in 1 .. l BY <2>3, <3>1
      <4>2. gn[k] = g[k] /\ pn[k] = p[k] /\ h[n][k] = f[k] BY <2>3, <2>6, <4>1
      <4>3. g[k] \in 1 .. n BY <1>1, <2>4, <4>1
      <4> QED BY <2>4, <4>1, <4>2, <4>3
    <3>2. CASE k > l
      <4>1. gn[k] = n /\ pn[k] = k - l /\ h[n][k] = t[k - l] BY <2>3, <2>6, <3>2
      <4>2. k - l \in 1 .. Len(t) BY <2>3, <3>2
      <4>3. n \in 1 .. n BY <1>1
      <4> QED BY <4>1, <4>2, <4>3
    <3> QED BY <2>3, <3>1, <3>2
  <2>8. ASSUME NEW j \in 1 .. Len(h[n]), NEW k \in 1 .. Len(h[n]), j < k
        PROVE  gn[j] < gn[k] \/ (gn[j] = gn[k] /\ pn[j] < pn[k])
    <3> HIDE DEF gn, pn, l
    <3>1. CASE k <= l BY <1>1, <2>3, <2>5, <2>6, <2>8, <3>1
    <3>2. CASE j <= l /\ k > l
      <4>1. j \in 1 .. l BY <2>3, <3>2
      <4>2. gn[j] = g[j] /\ g[j] \in 1 .. n - 1 /\ gn[k] = n BY <2>4, <2>6, <3>2, <4>1
      <4> QED BY <1>1, <4>2
    <3>3. CASE j > l BY <1>1, <2>3, <2>6, <2>8, <3>3
    <3> QED BY <2>3, <3>1, <3>2, <3>3
  <2>10. ASSUME NEW i \in 1 .. n, NEW m \in 1 .. Len(s[i])
         PROVE  \E k \in 1 .. Len(h[n]) : gn[k] = i /\ pn[k] = m
    <3> HIDE DEF gn, pn, l
    <3>1. CASE i = n
      <4> DEFINE k == l + m
      <4>1. k \in 1 .. Len(h[n]) /\ k > l /\ k - l = m BY <2>3, <3>1
      <4> HIDE DEF k
      <4>2. gn[k] = n /\ pn[k] = m BY <2>6, <4>1
      <4> QED BY <3>1, <4>1, <4>2
    <3>2. CASE i # n
      <4>1. i \in 1 .. n - 1 BY <1>1, <3>2
      <4>2. PICK k \in 1 .. l : g[k] = i /\ p[k] = m BY <2>2, <4>1 DEF Flattened, l
      <4> QED BY <2>6, <4>2
    <3> QED BY <3>1, <3>2
  <2> HIDE DEF gn, pn
  <2>9. Flattened(h[n], s, n, gn, pn) BY <2>7, <2>8, <2>10 DEF Flattened
  <2> QED BY <2>3, <2>9
<1>9. \A n \in 0 .. c : Good(h[n], n)
  <2> DEFINE S == {n \in Nat : n <= c => Good(h[n], n)}
  <2>1. 0 \in S
    <3>1. \A g, p : Flattened(<<>>, s, 0, g, p) BY DEF Flattened
    <3>2. h[0] = <<>> /\ <<>> \in Seq(T) BY <1>3
    <3>3. Good(h[0], 0) BY <3>1, <3>2
    <3> HIDE DEF Good
    <3> QED BY <3>3
  <2>2. ASSUME NEW n \in Nat, n \in S PROVE n + 1 \in S
    <3> HIDE DEF Good
    <3> SUFFICES ASSUME n + 1 <= c PROVE Good(h[n + 1], n + 1) OBVIOUS
    <3>1. n + 1 \in 1 .. c /\ n + 1 - 1 = n /\ Good(h[n], n) BY <1>1, <2>2
    <3> QED BY <1>8, <3>1
  <2> HIDE DEF S
  <2>3. Nat \subseteq S BY <2>1, <2>2, AllNumbers
  <2> QED BY <2>3 DEF S
<1>10. CASE c = 0
  <2>1. s = <<>> BY <1>1, <1>10 DEF c
  <2>2. FlattenSeq(s) = <<>> BY <2>1 DEF FlattenSeq
  <2>3. \A g, p : Flattened(<<>>, s, 0, g, p) BY DEF Flattened
  <2> QED BY <1>10, <2>2, <2>3 DEF c
<1>11. CASE c # 0
  <2>1. FlattenSeq(s) = flatten[c] BY <1>11 DEF FlattenSeq, c, flatten
  <2>2. c \in 1 .. c BY <1>1, <1>11
  <2>3. FlattenSeq(s) = h[c] BY <1>7, <2>1, <2>2
  <2>4. Good(h[c], c) BY <1>9, <2>2
  <2> QED BY <2>3, <2>4 DEF c
<1> QED BY <1>10, <1>11

(* Of two ascending lists, if one has items of the other and all that come *)
(* before them, it is where the other begins.                              *)
Climbs(a, n) == \A i \in 1 .. n : a[i] \in Int /\ \A j \in 1 .. n : i < j => a[i] < a[j]

LEMMA SameStart ==
  ASSUME NEW m \in Nat, NEW n \in Nat, NEW a, NEW b, Climbs(a, m), Climbs(b, n),
         \A i \in 1 .. m : \E j \in 1 .. n : b[j] = a[i],
         \A i \in 1 .. m : \A j \in 1 .. n : b[j] < a[i] => \E k \in 1 .. m : a[k] = b[j]
  PROVE  m <= n /\ \A i \in 1 .. m : a[i] = b[i]
<1> DEFINE S == {i \in Nat : i <= m => i <= n /\ \A k \in 1 .. i : a[k] = b[k]}
<1>1. 0 \in S OBVIOUS
<1>2. ASSUME NEW i \in Nat, i \in S PROVE i + 1 \in S
  <2> SUFFICES ASSUME i + 1 <= m PROVE i + 1 <= n /\ \A k \in 1 .. i + 1 : a[k] = b[k] OBVIOUS
  <2>1. i <= n /\ \A k \in 1 .. i : a[k] = b[k] BY <1>2
  <2> DEFINE t == i + 1
  <2>2. t \in 1 .. m /\ \A k \in 1 .. i : k \in 1 .. m /\ k \in 1 .. n /\ k < t BY <2>1
  <2>3. PICK j \in 1 .. n : b[j] = a[t] BY <2>2
  <2>4. j \notin 1 .. i
    <3> SUFFICES ASSUME j \in 1 .. i PROVE FALSE OBVIOUS
    <3>1. a[j] < a[t] /\ a[j] \in Int /\ a[t] \in Int BY <2>2 DEF Climbs
    <3>2. a[j] = b[j] BY <2>1
    <3> QED BY <2>3, <3>1, <3>2
  <2>5. t \in 1 .. n /\ t <= j BY <2>3, <2>4
  <2>6. j = t
    <3> SUFFICES ASSUME t < j PROVE FALSE BY <2>5
    <3>1. b[t] < b[j] /\ b[t] \in Int /\ b[j] \in Int BY <2>5 DEF Climbs
    <3>2. PICK k \in 1 .. m : a[k] = b[t] BY <2>2, <2>3, <2>5, <3>1
    <3>3. a[k] < a[t] /\ a[k] \in Int /\ a[t] \in Int BY <2>2, <2>3, <3>1, <3>2
    <3>4. ~(t < k) /\ k # t BY <2>2, <3>3 DEF Climbs
    <3>5. k \in 1 .. i BY <3>4
    <3>6. b[k] = b[t] BY <2>1, <3>2, <3>5
    <3>7. b[k] < b[t] BY <2>2, <2>5, <3>5 DEF Climbs
    <3> QED BY <3>1, <3>6, <3>7
  <2>7. a[t] = b[t] BY <2>3, <2>6
  <2>8. \A k \in 1 .. t : k \in 1 .. i \/ k = t OBVIOUS
  <2> HIDE DEF t
  <2>9. t <= n /\ \A k \in 1 .. t : a[k] = b[k] BY <2>1, <2>5, <2>7, <2>8
  <2> QED BY <2>9 DEF t
<1> HIDE DEF S
<1>3. Nat \subseteq S BY <1>1, <1>2, AllNumbers
<1> QED BY <1>3 DEF S

(* What is picked is known by its places, an ascending list of them all. *)
ListsPlaces(S, n, a) ==
  /\ n \in Nat /\ Climbs(a, n)
  /\ \A i \in 1 .. n : a[i] \in S
  /\ \A x \in S : \E i \in 1 .. n : a[i] = x

AtPlaces(p, s, n, a) == p = [k \in 1 .. n |-> s[a[k]]]

LEMMA PlacesWithin ==
  ASSUME NEW S, NEW m, NEW n, NEW a, NEW b, ListsPlaces(S, m, a), ListsPlaces(S, n, b)
  PROVE  m <= n /\ \A i \in 1 .. m : a[i] = b[i]
<1>1. /\ m \in Nat /\ n \in Nat /\ Climbs(a, m) /\ Climbs(b, n)
      /\ \A i \in 1 .. m : a[i] \in S
      /\ \A x \in S : \E i \in 1 .. m : a[i] = x
      /\ \A i \in 1 .. n : b[i] \in S
      /\ \A x \in S : \E i \in 1 .. n : b[i] = x
  BY DEF ListsPlaces
<1>2. \A i \in 1 .. m : \E j \in 1 .. n : b[j] = a[i] BY <1>1
<1>3. \A i \in 1 .. m : \A j \in 1 .. n : b[j] < a[i] => \E k \in 1 .. m : a[k] = b[j] BY <1>1
<1>4. m \in Nat /\ n \in Nat BY <1>1
<1>5. Climbs(a, m) BY <1>1
<1>6. Climbs(b, n) BY <1>1
<1> QED BY <1>2, <1>3, <1>4, <1>5, <1>6, SameStart

LEMMA PlacesOnce ==
  ASSUME NEW S, NEW m, NEW n, NEW a, NEW b, ListsPlaces(S, m, a), ListsPlaces(S, n, b)
  PROVE  m = n /\ \A i \in 1 .. m : a[i] = b[i]
<1>1. m \in Nat /\ n \in Nat BY DEF ListsPlaces
<1>2. m <= n /\ \A i \in 1 .. m : a[i] = b[i] BY PlacesWithin
<1>3. n <= m BY PlacesWithin
<1> QED BY <1>1, <1>2, <1>3

(* The places of what is picked, as Arranged lists them. *)
LEMMA PickedAt ==
  ASSUME NEW T, NEW s \in Seq(T), NEW S, S \subseteq DOMAIN s
  PROVE  \E n, a : ListsPlaces(S, n, a) /\ AtPlaces(Picked(s, S), s, n, a)
<1> DEFINE b == Arranged(S)
           n == Len(b)
<1>1. S \subseteq Int /\ IsFiniteSet(S)
  <2>1. DOMAIN s = 1 .. Len(s) /\ Len(s) \in Nat OBVIOUS
  <2>2. IsFiniteSet(DOMAIN s) BY <2>1, FS_Interval
  <2> QED BY <2>1, <2>2, FS_Subset
<1>2. /\ b \in Seq(S)
      /\ \A i, j \in DOMAIN b : i < j => b[i] < b[j]
      /\ \A x \in S : \E i \in DOMAIN b : b[i] = x
  BY <1>1, ArrangedFacts
<1>3. Picked(s, S) = [k \in DOMAIN b |-> s[b[k]]] BY DEF Picked
<1> HIDE DEF b
<1>4. n \in Nat /\ DOMAIN b = 1 .. n /\ b \in [1 .. n -> S] BY <1>2
<1>5. Climbs(b, n) BY <1>1, <1>2, <1>4 DEF Climbs
<1>6. \A x \in S : \E i \in 1 .. n : b[i] = x BY <1>2, <1>4
<1>7. AtPlaces(Picked(s, S), s, n, b) BY <1>3, <1>4 DEF AtPlaces
<1> HIDE DEF n
<1>8. ListsPlaces(S, n, b) BY <1>4, <1>5, <1>6 DEF ListsPlaces
<1> QED BY <1>7, <1>8

LEMMA PickedIs ==
  ASSUME NEW T, NEW s \in Seq(T), NEW S, S \subseteq DOMAIN s, NEW n, NEW a, ListsPlaces(S, n, a)
  PROVE  Picked(s, S) = [k \in 1 .. n |-> s[a[k]]]
<1>1. PICK m, b : ListsPlaces(S, m, b) /\ AtPlaces(Picked(s, S), s, m, b) BY PickedAt
<1>2. m = n /\ \A i \in 1 .. m : b[i] = a[i] BY <1>1, PlacesOnce
<1> QED BY <1>1, <1>2 DEF AtPlaces

(* Of a longer sequence. *)
LEMMA PickedAppend ==
  ASSUME NEW T, NEW s \in Seq(T), NEW x \in T, NEW S, S \subseteq DOMAIN s
  PROVE  /\ Picked(Append(s, x), S) = Picked(s, S)
         /\ Picked(Append(s, x), S \cup {Len(s) + 1}) = Append(Picked(s, S), x)
<1>1. PICK n, a : ListsPlaces(S, n, a) /\ AtPlaces(Picked(s, S), s, n, a) BY PickedAt
<1> DEFINE t == Append(s, x)
           l == Len(s) + 1
           U == S \cup {l}
<1>2. /\ n \in Nat /\ Climbs(a, n)
      /\ \A i \in 1 .. n : a[i] \in S
      /\ \A y \in S : \E i \in 1 .. n : a[i] = y
      /\ Picked(s, S) = [k \in 1 .. n |-> s[a[k]]]
  BY <1>1 DEF ListsPlaces, AtPlaces
<1> n \in Nat BY <1>2
<1>3. /\ t \in Seq(T) /\ DOMAIN s \subseteq DOMAIN t /\ U \subseteq DOMAIN t
      /\ \A k \in DOMAIN s : t[k] = s[k] /\ k < l /\ k \in Int
      /\ t[l] = x /\ l \in Int
  OBVIOUS
<1> HIDE DEF t, l
<1>4. Picked(t, S) = Picked(s, S)
  <2>1. Picked(t, S) = [k \in 1 .. n |-> t[a[k]]]
    <3>1. S \subseteq DOMAIN t BY <1>3
    <3> QED BY <1>1, <1>3, <3>1, PickedIs
  <2>2. \A k \in 1 .. n : t[a[k]] = s[a[k]] BY <1>2, <1>3
  <2> QED BY <1>2, <2>1, <2>2
<1>5. Picked(t, U) = Append(Picked(s, S), x)
  <2> DEFINE b == [k \in 1 .. n + 1 |-> IF k = n + 1 THEN l ELSE a[k]]
  <2>1. b[n + 1] = l /\ \A k \in 1 .. n : b[k] = a[k] /\ k < n + 1 OBVIOUS
  <2>2. \A k \in 1 .. n + 1 : k \in 1 .. n \/ k = n + 1 OBVIOUS
  <2> HIDE DEF b
  <2>3. \A i \in 1 .. n : b[i] \in S /\ b[i] < l /\ b[i] \in Int BY <1>2, <1>3, <2>1
  <2>4. Climbs(b, n + 1)
    <3> SUFFICES ASSUME NEW i \in 1 .. n + 1
                 PROVE  b[i] \in Int /\ \A j \in 1 .. n + 1 : i < j => b[i] < b[j]
      BY DEF Climbs
    <3>1. b[i] \in Int BY <1>3, <2>1, <2>2, <2>3
    <3>2. ASSUME NEW j \in 1 .. n + 1, i < j PROVE b[i] < b[j]
      <4>1. i \in 1 .. n BY <3>2
      <4>2. CASE j = n + 1 BY <2>1, <2>3, <4>1, <4>2
      <4>3. CASE j \in 1 .. n BY <1>2, <2>1, <3>2, <4>1, <4>3 DEF Climbs
      <4> QED BY <2>2, <4>2, <4>3
    <3> QED BY <3>1, <3>2
  <2>5. \A i \in 1 .. n + 1 : b[i] \in U BY <2>1, <2>2, <2>3
  <2>6. \A y \in U : \E i \in 1 .. n + 1 : b[i] = y
    <3> SUFFICES ASSUME NEW y \in U PROVE \E i \in 1 .. n + 1 : b[i] = y OBVIOUS
    <3>1. CASE y = l
      <4>1. n + 1 \in 1 .. n + 1 OBVIOUS
      <4> QED BY <2>1, <3>1, <4>1
    <3>2. CASE y \in S
      <4>1. PICK i \in 1 .. n : a[i] = y BY <1>2, <3>2
      <4>2. i \in 1 .. n + 1 OBVIOUS
      <4> QED BY <2>1, <4>1, <4>2
    <3> QED BY <3>1, <3>2
  <2> DEFINE m == n + 1
  <2>7. Picked(t, U) = [k \in 1 .. m |-> t[b[k]]]
    <3>1. m \in Nat OBVIOUS
    <3>2. ListsPlaces(U, m, b) BY <2>4, <2>5, <2>6, <3>1 DEF ListsPlaces
    <3> HIDE DEF m, U
    <3>3. t \in Seq(T) /\ U \subseteq DOMAIN t BY <1>3 DEF U
    <3> QED BY <3>2, <3>3, PickedIs
  <2>8. t[b[m]] = x /\ \A k \in 1 .. n : t[b[k]] = s[a[k]] BY <1>2, <1>3, <2>1
  <2> DEFINE p == [k \in 1 .. n |-> s[a[k]]]
  <2>9. p \in Seq(T) /\ Len(p) = n /\ n \in Nat
    <3>1. \A k \in 1 .. n : s[a[k]] \in T
      <4> SUFFICES ASSUME NEW k \in 1 .. n PROVE s[a[k]] \in T OBVIOUS
      <4>1. a[k] \in DOMAIN s BY <1>2
      <4> QED BY <4>1
    <3> QED BY <1>2, <3>1
  <2>10. /\ Append(p, x) \in Seq(T) /\ DOMAIN Append(p, x) = 1 .. m
         /\ \A k \in 1 .. m : Append(p, x)[k] = IF k = m THEN x ELSE p[k]
    <3> HIDE DEF p
    <3>1. DOMAIN p = 1 .. n /\ Len(p) + 1 = m BY <2>9
    <3> QED BY <2>9, <3>1
  <2>11. \A k \in 1 .. m : k \in 1 .. n \/ k = m BY <2>2
  <2>12. ASSUME NEW k \in 1 .. m PROVE t[b[k]] = IF k = m THEN x ELSE p[k]
    <3>1. CASE k = m BY <2>8, <3>1
    <3>2. CASE k \in 1 .. n
      <4>1. k # m BY <3>2
      <4> QED BY <2>8, <3>2, <4>1
    <3> QED BY <2>11, <3>1, <3>2
  <2> HIDE DEF p, m
  <2> DEFINE v == Append(p, x)
  <2>13. v = [k \in 1 .. m |-> v[k]]
    <3>1. v \in Seq(T) /\ DOMAIN v = 1 .. m BY <2>10
    <3> HIDE DEF v
    <3>2. v \in [1 .. Len(v) -> T] BY <3>1
    <3>3. v = [k \in DOMAIN v |-> v[k]] BY <3>2
    <3> QED BY <3>1, <3>3
  <2>14. v = [k \in 1 .. m |-> t[b[k]]] BY <2>10, <2>12, <2>13
  <2>15. Picked(t, U) = Append(p, x) BY <2>7, <2>14
  <2> QED BY <1>2, <2>15 DEF p
<1> QED BY <1>4, <1>5 DEF t, l

LEMMA PickedSeq ==
  ASSUME NEW T, NEW s \in Seq(T), NEW S, S \subseteq DOMAIN s, NEW n, NEW a, ListsPlaces(S, n, a)
  PROVE  /\ Picked(s, S) \in Seq(T) /\ DOMAIN Picked(s, S) = 1 .. n /\ Len(Picked(s, S)) = n
         /\ \A k \in 1 .. n : Picked(s, S)[k] = s[a[k]] /\ a[k] \in S
<1>1. n \in Nat /\ \A k \in 1 .. n : a[k] \in S BY DEF ListsPlaces
<1>2. \A k \in 1 .. n : s[a[k]] \in T
  <2> SUFFICES ASSUME NEW k \in 1 .. n PROVE s[a[k]] \in T OBVIOUS
  <2>1. a[k] \in DOMAIN s BY <1>1
  <2> QED BY <2>1
<1>3. Picked(s, S) = [k \in 1 .. n |-> s[a[k]]] BY PickedIs
<1> QED BY <1>1, <1>2, <1>3

(* Of what was picked again. *)
AreValues(W, a, V) == (\A k \in V : a[k] \in W) /\ (\A x \in W : \E k \in V : x = a[k])
AreComposed(c, a, b, m) == \A j \in 1 .. m : c[j] = a[b[j]]

LEMMA PlacesAgain ==
  ASSUME NEW S, NEW n, NEW a, ListsPlaces(S, n, a), NEW V, V \subseteq 1 .. n, NEW m, NEW b, ListsPlaces(V, m, b),
         NEW W, AreValues(W, a, V), NEW c, AreComposed(c, a, b, m)
  PROVE  ListsPlaces(W, m, c)
<1> USE DEF AreValues, AreComposed
<1>1. m \in Nat /\ Climbs(b, m) /\ (\A j \in 1 .. m : b[j] \in V) /\ (\A k \in V : \E j \in 1 .. m : b[j] = k)
  BY DEF ListsPlaces
<1>2. n \in Nat /\ Climbs(a, n) BY DEF ListsPlaces
<1>3. Climbs(c, m)
  <2> SUFFICES ASSUME NEW j \in 1 .. m
               PROVE  c[j] \in Int /\ \A k \in 1 .. m : j < k => c[j] < c[k]
    BY DEF Climbs
  <2>1. b[j] \in 1 .. n /\ c[j] = a[b[j]] BY <1>1
  <2>2. c[j] \in Int BY <1>2, <2>1 DEF Climbs
  <2>3. ASSUME NEW k \in 1 .. m, j < k PROVE c[j] < c[k]
    <3>1. b[k] \in 1 .. n /\ c[k] = a[b[k]] BY <1>1
    <3>2. b[j] < b[k] BY <1>1, <2>3 DEF Climbs
    <3> QED BY <1>2, <2>1, <3>1, <3>2 DEF Climbs
  <2> QED BY <2>2, <2>3
<1>4. \A j \in 1 .. m : c[j] \in W BY <1>1
<1>5. \A x \in W : \E j \in 1 .. m : c[j] = x
  <2> SUFFICES ASSUME NEW x \in W PROVE \E j \in 1 .. m : c[j] = x OBVIOUS
  <2>1. PICK k \in V : x = a[k] OBVIOUS
  <2>2. PICK j \in 1 .. m : b[j] = k BY <1>1
  <2> QED BY <2>1, <2>2
<1> QED BY <1>1, <1>3, <1>4, <1>5 DEF ListsPlaces

(* Of a sequence from its second item on. *)
LEMMA PickedTail ==
  ASSUME NEW T, NEW s \in Seq(T), s # <<>>, NEW S, S \subseteq DOMAIN s
  PROVE  LET U == {k \in DOMAIN Tail(s) : k + 1 \in S}
         IN  /\ 1 \notin S => Picked(s, S) = Picked(Tail(s), U)
             /\ 1 \in S => Picked(s, S) = <<Head(s)>> \o Picked(Tail(s), U)
<1> DEFINE t == Tail(s)
           U == {k \in DOMAIN t : k + 1 \in S}
           l == Len(t)
<1>1. /\ t \in Seq(T) /\ l \in Nat /\ DOMAIN t = 1 .. l /\ DOMAIN s = 1 .. l + 1
      /\ \A k \in 1 .. l : t[k] = s[k + 1]
      /\ Head(s) = s[1] /\ Head(s) \in T
  OBVIOUS
<1>2. U \subseteq DOMAIN t OBVIOUS
<1> HIDE DEF t
<1>3. PICK n, a : ListsPlaces(U, n, a) /\ AtPlaces(Picked(t, U), t, n, a) BY <1>1, <1>2, PickedAt
<1>4. /\ n \in Nat /\ Climbs(a, n)
      /\ \A i \in 1 .. n : a[i] \in U
      /\ \A y \in U : \E i \in 1 .. n : a[i] = y
  BY <1>3 DEF ListsPlaces
<1> DEFINE p == Picked(t, U)
<1>5. /\ p \in Seq(T) /\ DOMAIN p = 1 .. n /\ Len(p) = n
      /\ \A k \in 1 .. n : p[k] = t[a[k]] /\ a[k] \in U
  BY <1>1, <1>2, <1>3, PickedSeq
<1>6. \A k \in U : k \in 1 .. l /\ k + 1 \in S /\ t[k] = s[k + 1] /\ k \in Int /\ k >= 1 BY <1>1
<1>7. \A x \in S : x # 1 => x - 1 \in U /\ x - 1 + 1 = x /\ x \in Int
  <2> SUFFICES ASSUME NEW x \in S, x # 1 PROVE x - 1 \in U /\ x - 1 + 1 = x /\ x \in Int OBVIOUS
  <2>1. x \in 1 .. l + 1 BY <1>1
  <2>2. x - 1 \in 1 .. l /\ x - 1 + 1 = x /\ x \in Int BY <1>1, <2>1
  <2> QED BY <1>1, <2>2
<1> HIDE DEF U, p, l
<1>8. CASE 1 \notin S
  <2> DEFINE b == [k \in 1 .. n |-> a[k] + 1]
  <2>1. \A k \in 1 .. n : b[k] = a[k] + 1 OBVIOUS
  <2> HIDE DEF b
  <2>2. Climbs(b, n)
    <3> SUFFICES ASSUME NEW i \in 1 .. n
                 PROVE  b[i] \in Int /\ \A j \in 1 .. n : i < j => b[i] < b[j]
      BY DEF Climbs
    <3>1. a[i] \in Int /\ b[i] = a[i] + 1 BY <1>4, <1>6, <2>1
    <3>2. ASSUME NEW j \in 1 .. n, i < j PROVE b[i] < b[j]
      <4>1. a[j] \in Int /\ b[j] = a[j] + 1 BY <1>4, <1>6, <2>1
      <4>2. a[i] < a[j] BY <1>4, <3>2 DEF Climbs
      <4> QED BY <3>1, <4>1, <4>2
    <3> QED BY <3>1, <3>2
  <2>3. \A k \in 1 .. n : b[k] \in S BY <1>4, <1>6, <2>1
  <2>4. \A x \in S : \E k \in 1 .. n : b[k] = x
    <3> SUFFICES ASSUME NEW x \in S PROVE \E k \in 1 .. n : b[k] = x OBVIOUS
    <3>1. x - 1 \in U /\ x - 1 + 1 = x BY <1>7, <1>8
    <3>2. PICK k \in 1 .. n : a[k] = x - 1 BY <1>4, <3>1
    <3> QED BY <2>1, <3>1, <3>2
  <2>5. ListsPlaces(S, n, b) BY <1>4, <2>2, <2>3, <2>4 DEF ListsPlaces
  <2>6. Picked(s, S) = [k \in 1 .. n |-> s[b[k]]] BY <2>5, PickedIs
  <2>7. \A k \in 1 .. n : s[b[k]] = t[a[k]] BY <1>5, <1>6, <2>1
  <2>8. p = [k \in 1 .. n |-> t[a[k]]] BY <1>3 DEF AtPlaces, p
  <2>9. Picked(s, S) = p BY <2>6, <2>7, <2>8
  <2> QED BY <1>8, <2>9 DEF p, U, t
<1>9. CASE 1 \in S
  <2> DEFINE m == n + 1
             b == [k \in 1 .. m |-> IF k = 1 THEN 1 ELSE a[k - 1] + 1]
             q == <<Head(s)>> \o p
  <2>0. m \in Nat /\ 1 \in 1 .. m /\ \A k \in 1 .. m : k = 1 \/ (k # 1 /\ k - 1 \in 1 .. n /\ k > 1)
    BY <1>4
  <2>1. b[1] = 1 /\ \A k \in 1 .. m : k # 1 => b[k] = a[k - 1] + 1 BY <2>0
  <2>10. \A k \in 1 .. n : k + 1 \in 1 .. m /\ k + 1 # 1 /\ k + 1 - 1 = k BY <1>4
  <2>11. /\ q \in Seq(T) /\ DOMAIN q = 1 .. m /\ q[1] = Head(s)
         /\ \A k \in 1 .. m : k # 1 => q[k] = p[k - 1]
    <3>1. <<Head(s)>> \in Seq(T) /\ Len(<<Head(s)>>) = 1 BY <1>1
    <3> QED BY <1>4, <1>5, <3>1
  <2> HIDE DEF b, m, q
  <2>2. Climbs(b, m)
    <3> SUFFICES ASSUME NEW i \in 1 .. m
                 PROVE  b[i] \in Int /\ \A j \in 1 .. m : i < j => b[i] < b[j]
      BY DEF Climbs
    <3>1. CASE i = 1
      <4>1. ASSUME NEW j \in 1 .. m, i < j PROVE b[i] < b[j]
        <5>1. j # 1 /\ j - 1 \in 1 .. n BY <2>0, <3>1, <4>1
        <5>2. b[j] = a[j - 1] + 1 /\ a[j - 1] \in Int /\ a[j - 1] >= 1 BY <1>4, <1>6, <2>1, <5>1
        <5> QED BY <2>1, <3>1, <5>2
      <4> QED BY <2>1, <3>1, <4>1
    <3>2. CASE i # 1
      <4>1. i - 1 \in 1 .. n /\ i > 1 BY <2>0, <3>2
      <4>2. b[i] = a[i - 1] + 1 /\ a[i - 1] \in Int BY <1>4, <1>6, <2>1, <3>2, <4>1
      <4>3. ASSUME NEW j \in 1 .. m, i < j PROVE b[i] < b[j]
        <5>1. j # 1 /\ j - 1 \in 1 .. n BY <2>0, <4>1, <4>3
        <5>2. b[j] = a[j - 1] + 1 /\ a[j - 1] \in Int BY <1>4, <1>6, <2>1, <5>1
        <5>3. i - 1 < j - 1 BY <4>3
        <5>4. a[i - 1] < a[j - 1] BY <1>4, <4>1, <5>1, <5>3 DEF Climbs
        <5> QED BY <4>2, <5>2, <5>4
      <4> QED BY <4>2, <4>3
    <3> QED BY <3>1, <3>2
  <2>3. \A k \in 1 .. m : b[k] \in S
    <3> SUFFICES ASSUME NEW k \in 1 .. m PROVE b[k] \in S OBVIOUS
    <3>1. CASE k = 1 BY <1>9, <2>1, <3>1
    <3>2. CASE k # 1
      <4>1. k - 1 \in 1 .. n /\ b[k] = a[k - 1] + 1 BY <2>0, <2>1, <3>2
      <4> QED BY <1>4, <1>6, <4>1
    <3> QED BY <3>1, <3>2
  <2>4. \A x \in S : \E k \in 1 .. m : b[k] = x
    <3> SUFFICES ASSUME NEW x \in S PROVE \E k \in 1 .. m : b[k] = x OBVIOUS
    <3>1. CASE x = 1 BY <2>0, <2>1, <3>1
    <3>2. CASE x # 1
      <4>1. x - 1 \in U /\ x - 1 + 1 = x BY <1>7, <3>2
      <4>2. PICK k \in 1 .. n : a[k] = x - 1 BY <1>4, <4>1
      <4>3. b[k + 1] = a[k] + 1 BY <2>1, <2>10
      <4> QED BY <2>10, <4>1, <4>2, <4>3
    <3> QED BY <3>1, <3>2
  <2>5. ListsPlaces(S, m, b) BY <2>0, <2>2, <2>3, <2>4 DEF ListsPlaces
  <2>6. Picked(s, S) = [k \in 1 .. m |-> s[b[k]]] BY <2>5, PickedIs
  <2>7. ASSUME NEW k \in 1 .. m PROVE s[b[k]] = q[k]
    <3>1. CASE k = 1 BY <1>1, <2>1, <2>11, <3>1
    <3>2. CASE k # 1
      <4>1. k - 1 \in 1 .. n /\ b[k] = a[k - 1] + 1 BY <2>0, <2>1, <3>2
      <4>2. p[k - 1] = t[a[k - 1]] /\ a[k - 1] \in U BY <1>5, <4>1
      <4>3. t[a[k - 1]] = s[a[k - 1] + 1] BY <1>6, <4>2
      <4> QED BY <2>11, <3>2, <4>1, <4>2, <4>3
    <3> QED BY <3>1, <3>2
  <2>8. q = [k \in 1 .. m |-> q[k]]
    <3>1. q \in [1 .. Len(q) -> T] BY <2>11
    <3>2. q = [k \in DOMAIN q |-> q[k]] BY <3>1
    <3> QED BY <2>11, <3>2
  <2>9. Picked(s, S) = q BY <2>6, <2>7, <2>8
  <2> QED BY <1>9, <2>9 DEF q, p, U, t
<1> QED BY <1>8, <1>9
=============================================================================
