--------------------------- MODULE PlannerProofs ---------------------------
(***************************************************************************)
(* For every input of Plan, and every gap and threshold: each range is     *)
(* found in its op, also through LoadedBytes.Get; an op above the          *)
(* threshold is one range; and neighbours share an op whenever they may.   *)
(*                                                                         *)
(* The groups cut the ranges that were looked at into intervals of         *)
(* disjoint ranges, as long as their gaps allow.  The ranges up to a       *)
(* boundary are located, and no other, in ops none of which could hold one *)
(* more; a flush moves the boundary over the ranges of its op.             *)
(***************************************************************************)
EXTENDS Planner, OrderLemmas, TLAPS

GroupType == [offset : Int, end : Int, first : Int, last : Int]
OpType == [offset : Int, length : Int]
Location == [op : Int, off : Int, length : Int]
Packing == [first : Int, offset : Int, end : Int]

(* Ranges first .. last lie between offset and end. *)
Covered(r, first, last, offset, end) ==
  \A i \in first .. last : offset <= r[i].offset /\ End(r[i]) <= end

(* No two of the ranges first .. last have a byte in common. *)
Disjoint(r, first, last) ==
  \A i, j \in first .. last : i < j => End(r[i]) <= r[j].offset

GoodGroup(r, g, upto) ==
  /\ 1 <= g.first /\ g.first <= g.last /\ g.last <= upto
  /\ g.offset = r[g.first].offset
  /\ Covered(r, g.first, g.last, g.offset, g.end)
  /\ Disjoint(r, g.first, g.last)

(* The groups are intervals that follow each other, from 1 to idx - 1. *)
Adjacent(s, upto) ==
  /\ s = <<>> => upto = 0
  /\ s # <<>> => s[1].first = 1 /\ s[Len(s)].last = upto
  /\ \A g \in 1 .. Len(s) - 1 : s[g + 1].first = s[g].last + 1

Found(r, o, loc, i) ==
  /\ loc.op \in 1 .. Len(o)
  /\ loc.off >= 0 /\ loc.off + loc.length <= o[loc.op].length
  /\ o[loc.op].offset + loc.off = r[i].offset
  /\ loc.length = r[i].length

(* Exactly the ranges up to the boundary are located, and rightly. *)
Located(r, o, l, boundary) ==
  \A i \in 1 .. Len(r) : IF i <= boundary THEN Found(r, o, l[i], i) ELSE l[i] = NoLocation

Atomic(r, o, l, threshold) ==
  threshold > 0 =>
    \A n \in 1 .. Len(o) : o[n].length > threshold =>
      \A i, j \in 1 .. Len(r) : l[i].op = n /\ l[j].op = n => i = j

Boundary ==
  IF pc = "coalesce" THEN 0
  ELSE IF k # 0 THEN op.first - 1
  ELSE IF gi <= Len(groups) THEN groups[gi].first - 1
  ELSE Len(ranges)

Types ==
  /\ ranges \in Seq(ByteRange) /\ coalesceGap \in Int /\ splitThreshold \in Int
  /\ pc \in {"coalesce", "split", "done"}
  /\ idx \in 1 .. Len(ranges) + 1
  /\ groups \in Seq(GroupType)
  /\ gi \in 1 .. Len(groups) + 1
  /\ k \in Int
  /\ op \in Packing
  /\ ops \in Seq(OpType)
  /\ locations \in [1 .. Len(ranges) -> Location]

(* The group being split, from its first member to the one before k. *)
PackingInv ==
  k # 0 =>
    /\ pc = "split" /\ gi <= Len(groups)
    /\ op.first \in groups[gi].first .. k - 1 /\ k <= groups[gi].last + 1
    /\ op.offset = ranges[op.first].offset /\ op.end = End(ranges[k - 1])
    /\ splitThreshold > 0
    /\ op.first = k - 1 \/ op.end - op.offset <= splitThreshold

Inv ==
  /\ Types
  /\ \A g \in 1 .. Len(groups) : GoodGroup(ranges, groups[g], idx - 1)
  /\ Adjacent(groups, idx - 1)
  /\ pc # "coalesce" => idx = Len(ranges) + 1
  /\ pc = "coalesce" => gi = 1 /\ k = 0
  /\ pc = "done" => gi = Len(groups) + 1 /\ k = 0
  /\ PackingInv
  /\ Located(ranges, ops, locations, Boundary)
  /\ Atomic(ranges, ops, locations, splitThreshold)
-----------------------------------------------------------------------------
LEMMA RangeFields ==
  ASSUME NEW r \in Seq(ByteRange), NEW i \in 1 .. Len(r)
  PROVE  r[i].offset \in Nat /\ r[i].length \in Nat /\ End(r[i]) = r[i].offset + r[i].length
         /\ End(r[i]) \in Nat
<1>1. r[i] \in ByteRange OBVIOUS
<1> QED BY <1>1 DEF ByteRange, End

(* Flush, as a relation between the ops and locations before and after. *)
Flushed(r, o, l, first, last, offset, end, o2, l2) ==
  /\ o2 = Append(o, [offset |-> offset, length |-> end - offset])
  /\ l2 = [i \in 1 .. Len(r) |->
             IF first <= i /\ i <= last
             THEN [op |-> Len(o) + 1, off |-> r[i].offset - offset, length |-> r[i].length]
             ELSE l[i]]

(* What a flush does to the locations: the boundary moves over its range.  *)
LEMMA FlushLocates ==
  ASSUME NEW r \in Seq(ByteRange), NEW o \in Seq(OpType), NEW l \in [1 .. Len(r) -> Location],
         NEW first \in Int, NEW last \in Int, NEW offset \in Int, NEW end \in Int,
         1 <= first, first <= last, last <= Len(r),
         Located(r, o, l, first - 1), Covered(r, first, last, offset, end),
         NEW o2, NEW l2, Flushed(r, o, l, first, last, offset, end, o2, l2)
  PROVE  /\ o2 \in Seq(OpType) /\ l2 \in [1 .. Len(r) -> Location]
         /\ Located(r, o2, l2, last)
<1> USE DEF Flushed
<1>1. [offset |-> offset, length |-> end - offset] \in OpType BY DEF OpType
<1>2. /\ o2 \in Seq(OpType) /\ Len(o2) = Len(o) + 1
      /\ o2[Len(o) + 1] = [offset |-> offset, length |-> end - offset]
      /\ \A n \in 1 .. Len(o) : o2[n] = o[n]
  BY <1>1
<1>3. l2 \in [1 .. Len(r) -> Location]
  <2> SUFFICES ASSUME NEW i \in 1 .. Len(r) PROVE l2[i] \in Location OBVIOUS
  <2>1. r[i].offset \in Nat /\ r[i].length \in Nat BY RangeFields
  <2>2. Len(o) + 1 \in Int /\ r[i].offset - offset \in Int BY <2>1
  <2>3. [op |-> Len(o) + 1, off |-> r[i].offset - offset, length |-> r[i].length] \in Location
    BY <2>1, <2>2 DEF Location
  <2> QED BY <2>3
<1>4. ASSUME NEW i \in 1 .. Len(r)
      PROVE  IF i <= last THEN Found(r, o2, l2[i], i) ELSE l2[i] = NoLocation
  <2>1. CASE first <= i /\ i <= last
    <3>1. l2[i] = [op |-> Len(o) + 1, off |-> r[i].offset - offset, length |-> r[i].length] BY <2>1
    <3>2. offset <= r[i].offset /\ End(r[i]) <= end BY <2>1 DEF Covered
    <3>3. r[i].offset \in Nat /\ r[i].length \in Nat /\ End(r[i]) = r[i].offset + r[i].length
      BY RangeFields
    <3>4. l2[i].op = Len(o) + 1 /\ l2[i].off = r[i].offset - offset /\ l2[i].length = r[i].length
      BY <3>1
    <3>5. o2[l2[i].op].offset = offset /\ o2[l2[i].op].length = end - offset BY <1>2, <3>4
    <3>6. l2[i].op \in 1 .. Len(o2) BY <1>2, <3>4
    <3>7. /\ l2[i].off >= 0 /\ l2[i].off + l2[i].length <= o2[l2[i].op].length
          /\ o2[l2[i].op].offset + l2[i].off = r[i].offset
      <4>1. /\ r[i].offset - offset >= 0
            /\ r[i].offset - offset + r[i].length <= end - offset
            /\ offset + (r[i].offset - offset) = r[i].offset
        <5> DEFINE a == r[i].offset  b == r[i].length  c == End(r[i])
        <5>1. a \in Int /\ b \in Int /\ c = a + b /\ offset <= a /\ c <= end BY <3>2, <3>3
        <5> HIDE DEF a, b, c
        <5>2. a - offset >= 0 /\ a - offset + b <= end - offset /\ offset + (a - offset) = a BY <5>1
        <5> QED BY <5>2 DEF a, b
      <4> QED BY <3>4, <3>5, <4>1
    <3>8. Found(r, o2, l2[i], i) BY <3>4, <3>6, <3>7 DEF Found
    <3> QED BY <2>1, <3>8
  <2>2. CASE i < first
    <3>1. l2[i] = l[i] /\ Found(r, o, l[i], i) BY <2>2 DEF Located
    <3> QED BY <1>2, <2>2, <3>1 DEF Found
  <2>3. CASE i > last
    <3>1. l2[i] = l[i] /\ l[i] = NoLocation BY <2>3 DEF Located
    <3> QED BY <2>3, <3>1
  <2> QED BY <2>1, <2>2, <2>3
<1> QED BY <1>2, <1>3, <1>4 DEF Located

(* ... and to the ops: the new one is short enough, or is one range. *)
LEMMA FlushAtomic ==
  ASSUME NEW r \in Seq(ByteRange), NEW o \in Seq(OpType), NEW l \in [1 .. Len(r) -> Location],
         NEW first \in Int, NEW last \in Int, NEW offset \in Int, NEW end \in Int, NEW threshold \in Int,
         1 <= first, first <= last, last <= Len(r),
         Located(r, o, l, first - 1), Atomic(r, o, l, threshold),
         threshold <= 0 \/ first = last \/ end - offset <= threshold,
         NEW o2, NEW l2, Flushed(r, o, l, first, last, offset, end, o2, l2)
  PROVE  Atomic(r, o2, l2, threshold)
<1> USE DEF Flushed
<1>1. [offset |-> offset, length |-> end - offset] \in OpType BY DEF OpType
<1>2. /\ Len(o2) = Len(o) + 1
      /\ o2[Len(o) + 1] = [offset |-> offset, length |-> end - offset]
      /\ \A n \in 1 .. Len(o) : o2[n] = o[n]
  BY <1>1
<1>3. ASSUME NEW i \in 1 .. Len(r)
      PROVE  /\ l2[i].op = Len(o) + 1 => first <= i /\ i <= last
             /\ l2[i].op # Len(o) + 1 => l2[i].op = l[i].op
  <2>1. CASE first <= i /\ i <= last BY <2>1
  <2>2. CASE ~(first <= i /\ i <= last)
    <3>1. l2[i] = l[i] BY <2>2
    <3>2. IF i <= first - 1 THEN Found(r, o, l[i], i) ELSE l[i] = NoLocation BY DEF Located
    <3>3. l[i].op # Len(o) + 1
      <4>1. CASE i <= first - 1 BY <3>2, <4>1 DEF Found
      <4>2. CASE ~(i <= first - 1) BY <3>2, <4>2 DEF NoLocation
      <4> QED BY <4>1, <4>2
    <3> QED BY <3>1, <3>3
  <2> QED BY <2>1, <2>2
<1>4. ASSUME threshold > 0, NEW n \in 1 .. Len(o2), o2[n].length > threshold,
             NEW i \in 1 .. Len(r), NEW j \in 1 .. Len(r), l2[i].op = n, l2[j].op = n
      PROVE  i = j
  <2>1. CASE n = Len(o) + 1
    <3>1. o2[n].length = end - offset BY <1>2, <2>1
    <3>2. first = last BY <1>4, <3>1
    <3> QED BY <1>3, <1>4, <2>1, <3>2
  <2>2. CASE n # Len(o) + 1
    <3>1. n \in 1 .. Len(o) /\ o[n].length > threshold BY <1>2, <1>4, <2>2
    <3>2. l[i].op = n /\ l[j].op = n BY <1>3, <1>4, <2>2
    <3> QED BY <1>4, <3>1, <3>2 DEF Atomic
  <2> QED BY <2>1, <2>2
<1> QED BY <1>4 DEF Atomic
-----------------------------------------------------------------------------
LEMMA InitInv == ASSUME PlannerAssumption, Init PROVE Inv
<1>1. /\ ranges \in Seq(ByteRange) /\ coalesceGap \in Int /\ splitThreshold \in Int
  BY DEF Init, PlannerAssumption
<1>2. locations = [i \in 1 .. Len(ranges) |-> NoLocation] BY <1>1 DEF Init
<1>3. NoLocation \in Location /\ NoOp \in Packing BY DEF NoLocation, NoOp, Location, Packing
<1>4. Types BY <1>1, <1>2, <1>3 DEF Init, Types
<1>5. Adjacent(groups, idx - 1) BY DEF Init, Adjacent
<1>6. Located(ranges, ops, locations, Boundary) BY <1>2 DEF Init, Located, Boundary
<1>7. Atomic(ranges, ops, locations, splitThreshold) BY DEF Init, Atomic
<1> QED BY <1>4, <1>5, <1>6, <1>7 DEF Init, Inv, PackingInv

(* A range that joins a group lies behind all of it.  *)
LEMMA JoinExtends ==
  ASSUME Types, NEW g \in GroupType, idx \in 1 .. Len(ranges), GoodGroup(ranges, g, idx - 1),
         g.last = idx - 1, Joins(g, ranges[idx])
  PROVE  /\ Extended(g, idx) \in GroupType /\ GoodGroup(ranges, Extended(g, idx), idx)
         /\ Extended(g, idx).first = g.first /\ Extended(g, idx).last = idx
<1> DEFINE e == IF End(ranges[idx]) > g.end THEN End(ranges[idx]) ELSE g.end
           h == [offset |-> g.offset, end |-> e, first |-> g.first, last |-> idx]
<1>1. ranges \in Seq(ByteRange) /\ idx \in Int BY DEF Types
<1>2. /\ g.offset \in Int /\ g.end \in Int /\ g.first \in Int /\ g.last \in Int BY DEF GroupType
<1>3. /\ ranges[idx].offset \in Nat /\ End(ranges[idx]) \in Nat
      /\ ranges[idx].offset <= End(ranges[idx])
  BY <1>1, RangeFields
<1>4. e \in Int /\ g.end <= e /\ End(ranges[idx]) <= e BY <1>2, <1>3
<1>5. Extended(g, idx) = h BY DEF Extended
<1>6. g.end <= ranges[idx].offset BY <1>2, <1>3 DEF Joins
<1>7. ASSUME NEW i \in g.first .. g.last
      PROVE  /\ i \in 1 .. Len(ranges) /\ g.offset <= ranges[i].offset
             /\ End(ranges[i]) <= g.end
             /\ End(ranges[i]) \in Nat /\ ranges[i].offset \in Nat
  <2>1. i \in 1 .. Len(ranges) BY <1>1, <1>2 DEF GoodGroup
  <2> QED BY <1>1, <2>1, RangeFields DEF GoodGroup, Covered
<1>8. g.first \in g.first .. g.last /\ g.offset <= g.end
  <2>1. g.first \in g.first .. g.last BY <1>2 DEF GoodGroup
  <2>2. g.first \in 1 .. Len(ranges) BY <1>7, <2>1
  <2>3. /\ ranges[g.first].offset \in Nat /\ End(ranges[g.first]) \in Nat
        /\ ranges[g.first].offset <= End(ranges[g.first])
    <3>1. /\ ranges[g.first].offset \in Nat /\ ranges[g.first].length \in Nat
          /\ End(ranges[g.first]) = ranges[g.first].offset + ranges[g.first].length
      BY <1>1, <2>2, RangeFields
    <3> QED BY <3>1
  <2>4. g.offset = ranges[g.first].offset /\ End(ranges[g.first]) <= g.end
    BY <1>7, <2>1 DEF GoodGroup
  <2> QED BY <1>2, <2>1, <2>3, <2>4
<1>9. h \in GroupType BY <1>1, <1>2, <1>4 DEF GroupType
<1>10. Covered(ranges, g.first, idx, g.offset, e)
  <2> SUFFICES ASSUME NEW i \in g.first .. idx
               PROVE  g.offset <= ranges[i].offset /\ End(ranges[i]) <= e
    BY DEF Covered
  <2>1. CASE i = idx BY <1>2, <1>3, <1>4, <1>6, <1>8, <2>1
  <2>2. CASE i # idx
    <3>1. i \in g.first .. g.last BY <1>1, <1>2, <2>2
    <3>2. g.offset <= ranges[i].offset /\ End(ranges[i]) <= g.end /\ End(ranges[i]) \in Nat BY <1>7, <3>1
    <3> HIDE DEF e
    <3> QED BY <1>2, <1>4, <3>2
  <2> QED BY <2>1, <2>2
<1>11. Disjoint(ranges, g.first, idx)
  <2> SUFFICES ASSUME NEW i \in g.first .. idx, NEW j \in g.first .. idx, i < j
               PROVE  End(ranges[i]) <= ranges[j].offset
    BY DEF Disjoint
  <2>1. i \in g.first .. g.last BY <1>1, <1>2
  <2>2. CASE j = idx BY <1>2, <1>3, <1>6, <1>7, <2>1, <2>2
  <2>3. CASE j # idx
    <3>1. j \in g.first .. g.last BY <1>1, <1>2, <2>3
    <3> QED BY <2>1, <3>1 DEF GoodGroup, Disjoint
  <2> QED BY <2>2, <2>3
<1>12. /\ h.offset = g.offset /\ h.end = e /\ h.first = g.first /\ h.last = idx OBVIOUS
<1>13. GoodGroup(ranges, h, idx)
  <2>1. 1 <= g.first /\ g.first <= idx /\ g.offset = ranges[g.first].offset BY <1>1, <1>2 DEF GoodGroup
  <2> HIDE DEF h, e
  <2> QED BY <1>1, <1>10, <1>11, <1>12, <2>1 DEF GoodGroup
<1> HIDE DEF h
<1> QED BY <1>5, <1>9, <1>12, <1>13

LEMMA NewGroup ==
  ASSUME Types, idx \in 1 .. Len(ranges)
  PROVE  /\ Group(idx) \in GroupType /\ GoodGroup(ranges, Group(idx), idx)
         /\ Group(idx).first = idx /\ Group(idx).last = idx
<1>1. ranges \in Seq(ByteRange) /\ idx \in Int BY DEF Types
<1>2. /\ ranges[idx].offset \in Nat /\ End(ranges[idx]) \in Nat
      /\ ranges[idx].offset <= End(ranges[idx])
  BY <1>1, RangeFields
<1>3. Group(idx) = [offset |-> ranges[idx].offset, end |-> End(ranges[idx]), first |-> idx, last |-> idx]
  BY DEF Group
<1>4. Group(idx) \in GroupType BY <1>1, <1>2, <1>3 DEF GroupType
<1>5. \A i \in idx .. idx : i = idx BY <1>1
<1>6. Covered(ranges, idx, idx, ranges[idx].offset, End(ranges[idx])) BY <1>2, <1>5 DEF Covered
<1>7. Disjoint(ranges, idx, idx) BY <1>1, <1>5 DEF Disjoint
<1> QED BY <1>1, <1>3, <1>4, <1>6, <1>7 DEF GoodGroup

(* A group stays good when more ranges have been looked at. *)
LEMMA GoodLater ==
  ASSUME NEW r, NEW g \in GroupType, NEW upto \in Int, NEW later \in Int, upto <= later,
         GoodGroup(r, g, upto)
  PROVE  GoodGroup(r, g, later)
BY DEF GoodGroup, GroupType
-----------------------------------------------------------------------------
LEMMA CoalesceInv == ASSUME Inv, Coalesce PROVE Inv'
<1> DEFINE n == Len(groups)
<1>1. /\ Types /\ Adjacent(groups, idx - 1) /\ pc = "coalesce" /\ gi = 1 /\ k = 0
      /\ \A g \in 1 .. Len(groups) : GoodGroup(ranges, groups[g], idx - 1)
      /\ Located(ranges, ops, locations, 0) /\ Atomic(ranges, ops, locations, splitThreshold)
  BY DEF Inv, Coalesce, Boundary
<1>2. /\ ranges \in Seq(ByteRange) /\ idx \in 1 .. Len(ranges) /\ idx' = idx + 1 /\ idx \in Int
      /\ groups \in Seq(GroupType) /\ n \in Nat
      /\ ranges' = ranges /\ coalesceGap' = coalesceGap /\ splitThreshold' = splitThreshold
      /\ pc' = pc /\ gi' = gi /\ k' = k /\ op' = op /\ ops' = ops /\ locations' = locations
  BY <1>1 DEF Types, Coalesce, args
<1>3. ASSUME NEW g \in 1 .. n PROVE groups[g] \in GroupType /\ GoodGroup(ranges, groups[g], idx)
  <2>1. groups[g] \in GroupType BY <1>2
  <2> QED BY <1>1, <1>2, <2>1, GoodLater
<1>4. /\ groups' \in Seq(GroupType)
      /\ \A g \in 1 .. Len(groups') : GoodGroup(ranges, groups'[g], idx)
      /\ Adjacent(groups', idx)
  <2>1. CASE n > 0 /\ Joins(groups[n], ranges[idx])
    <3> DEFINE h == Extended(groups[n], idx)
    <3>1. groups' = [groups EXCEPT ![n] = h] BY <2>1 DEF Coalesce
    <3>2. n \in 1 .. n BY <1>2, <2>1
    <3>3. groups[n] \in GroupType /\ GoodGroup(ranges, groups[n], idx - 1) /\ groups[n].last = idx - 1
      BY <1>1, <1>2, <3>2 DEF Adjacent
    <3>4. h \in GroupType /\ GoodGroup(ranges, h, idx) /\ h.first = groups[n].first /\ h.last = idx
      BY <1>1, <1>2, <2>1, <3>3, JoinExtends
    <3> HIDE DEF h
    <3>5. /\ groups' \in Seq(GroupType) /\ Len(groups') = n /\ groups'[n] = h
          /\ \A g \in 1 .. n - 1 : groups'[g] = groups[g]
      BY <1>2, <3>1, <3>2, <3>4
    <3>6. ASSUME NEW g \in 1 .. n PROVE GoodGroup(ranges, groups'[g], idx)
      <4>1. CASE g = n BY <3>4, <3>5, <4>1
      <4>2. CASE g # n
        <5>1. g \in 1 .. n - 1
          <6>1. n \in Int /\ g \in Int /\ 1 <= g /\ g <= n /\ g # n BY <1>2, <4>2
          <6> HIDE DEF n
          <6> QED BY ONLY <6>1
        <5>2. groups'[g] = groups[g] BY ONLY <3>5, <5>1
        <5> QED BY <1>3, <5>2
      <4> QED BY <4>1, <4>2
    <3>7. ASSUME NEW g \in 1 .. n PROVE groups'[g].first = groups[g].first
      <4>1. CASE g = n BY <3>4, <3>5, <4>1
      <4>2. CASE g # n
        <5>1. g \in 1 .. n - 1
          <6>1. n \in Int /\ g \in Int /\ 1 <= g /\ g <= n /\ g # n BY <1>2, <4>2
          <6> HIDE DEF n
          <6> QED BY ONLY <6>1
        <5> QED BY ONLY <3>5, <5>1
      <4> QED BY <4>1, <4>2
    <3>8. groups # <<>> BY <1>2, <2>1
    <3>9. /\ groups'[1].first = 1 /\ groups'[Len(groups')].last = idx
          /\ groups' # <<>>
      BY <1>1, <1>2, <2>1, <3>2, <3>4, <3>5, <3>7, <3>8 DEF Adjacent
    <3>10. ASSUME NEW g \in 1 .. n - 1 PROVE groups'[g + 1].first = groups'[g].last + 1
      <4>1. groups[g + 1].first = groups[g].last + 1 BY <1>1 DEF Adjacent
      <4>2. g + 1 \in 1 .. n BY <1>2
      <4> QED BY <3>5, <3>7, <4>1, <4>2
    <3> QED BY <3>5, <3>6, <3>9, <3>10 DEF Adjacent
  <2>2. CASE ~(n > 0 /\ Joins(groups[n], ranges[idx]))
    <3> DEFINE h == Group(idx)
    <3>1. groups' = Append(groups, h) BY <2>2 DEF Coalesce
    <3>2. h \in GroupType /\ GoodGroup(ranges, h, idx) /\ h.first = idx /\ h.last = idx
      BY <1>1, <1>2, NewGroup
    <3> HIDE DEF h
    <3>3. /\ groups' \in Seq(GroupType) /\ Len(groups') = n + 1 /\ groups'[n + 1] = h
          /\ \A g \in 1 .. n : groups'[g] = groups[g]
      BY <1>2, <3>1, <3>2
    <3>4. ASSUME NEW g \in 1 .. n + 1 PROVE GoodGroup(ranges, groups'[g], idx)
      <4>1. CASE g = n + 1 BY <3>2, <3>3, <4>1
      <4>2. CASE g # n + 1
        <5>1. g \in 1 .. n /\ groups'[g] = groups[g] BY <1>2, <3>3, <4>2
        <5> QED BY <1>3, <5>1
      <4> QED BY <4>1, <4>2
    <3>5. groups'[Len(groups')].last = idx /\ groups' # <<>> BY <1>2, <3>2, <3>3
    <3>6. groups'[1].first = 1 /\ (n > 0 => groups[n].last = idx - 1)
      <4>1. CASE n = 0
        <5>1. groups = <<>> BY <1>2, <4>1
        <5>2. idx = 1 BY <1>1, <1>2, <5>1 DEF Adjacent
        <5> QED BY <3>2, <3>3, <4>1, <5>2
      <4>2. CASE n > 0
        <5>1. groups # <<>> /\ 1 \in 1 .. n BY <1>2, <4>2
        <5> QED BY <1>1, <3>3, <5>1 DEF Adjacent
      <4> QED BY <1>2, <4>1, <4>2
    <3>7. ASSUME NEW g \in 1 .. n PROVE groups'[g + 1].first = groups'[g].last + 1
      <4>1. CASE g = n
        <5>1. groups'[g].last = idx - 1 BY <3>3, <3>6, <4>1
        <5> QED BY <1>2, <3>2, <3>3, <4>1, <5>1
      <4>2. CASE g # n
        <5>1. g \in 1 .. n - 1 /\ g + 1 \in 1 .. n BY <1>2, <4>2
        <5>2. groups[g + 1].first = groups[g].last + 1 BY <1>1, <5>1 DEF Adjacent
        <5> QED BY <3>3, <5>1, <5>2
      <4> QED BY <4>1, <4>2
    <3> QED BY <1>2, <3>3, <3>4, <3>5, <3>6, <3>7 DEF Adjacent
  <2> QED BY <2>1, <2>2
<1>5. idx' - 1 = idx /\ idx' \in 1 .. Len(ranges) + 1 /\ gi' \in 1 .. Len(groups') + 1
  BY <1>1, <1>2, <1>4
<1>6. Types' BY <1>1, <1>2, <1>4, <1>5 DEF Types
<1>7. Located(ranges', ops', locations', Boundary') BY <1>1, <1>2 DEF Boundary
<1>8. PackingInv' BY <1>1, <1>2 DEF PackingInv
<1> QED BY <1>1, <1>2, <1>4, <1>5, <1>6, <1>7, <1>8 DEF Inv

(* Where a group ends, the next one starts, or all is located. *)
LEMMA NextBoundary ==
  ASSUME Inv, pc # "coalesce", gi <= Len(groups)
  PROVE  /\ gi \in 1 .. Len(groups) /\ groups[gi] \in GroupType
         /\ GoodGroup(ranges, groups[gi], Len(ranges))
         /\ groups[gi].last
              = IF gi + 1 <= Len(groups) THEN groups[gi + 1].first - 1 ELSE Len(ranges)
<1>1. /\ Types /\ Adjacent(groups, Len(ranges))
      /\ \A g \in 1 .. Len(groups) : GoodGroup(ranges, groups[g], Len(ranges))
  BY DEF Inv, Types
<1>2. groups \in Seq(GroupType) /\ gi \in 1 .. Len(groups) BY <1>1 DEF Types
<1>3. groups[gi] \in GroupType /\ groups[gi].last \in Int
  <2>1. groups[gi] \in GroupType BY <1>2
  <2> QED BY <2>1 DEF GroupType
<1>4. CASE gi + 1 <= Len(groups)
  <2>1. gi \in 1 .. Len(groups) - 1 BY <1>2, <1>4
  <2>2. groups[gi + 1].first = groups[gi].last + 1 BY <1>1, <2>1 DEF Adjacent
  <2> QED BY <1>1, <1>2, <1>3, <1>4, <2>2
<1>5. CASE ~(gi + 1 <= Len(groups))
  <2>1. gi = Len(groups) /\ groups # <<>> BY <1>2, <1>5
  <2>2. groups[gi].last = Len(ranges) BY <1>1, <2>1 DEF Adjacent
  <2> QED BY <1>1, <1>2, <1>3, <1>5, <2>2
<1> QED BY <1>4, <1>5

(* What is packed so far lies between the start and the end of the op. *)
LEMMA OpCovers ==
  ASSUME Inv, k # 0
  PROVE  /\ op.first \in Int /\ op.offset \in Int /\ op.end \in Int /\ k \in Int
         /\ 1 <= op.first /\ op.first <= k - 1 /\ k - 1 <= Len(ranges)
         /\ Covered(ranges, op.first, k - 1, op.offset, op.end)
<1>1. /\ Types /\ pc = "split" /\ gi <= Len(groups)
      /\ op.first \in groups[gi].first .. k - 1 /\ k <= groups[gi].last + 1
      /\ op.offset = ranges[op.first].offset /\ op.end = End(ranges[k - 1])
  BY DEF Inv, PackingInv
<1>2. /\ ranges \in Seq(ByteRange) /\ op.first \in Int /\ op.offset \in Int /\ op.end \in Int /\ k \in Int
  BY <1>1 DEF Types, Packing
<1>3. groups[gi] \in GroupType /\ GoodGroup(ranges, groups[gi], Len(ranges))
  BY <1>1, NextBoundary
<1>4. groups[gi].first \in Int /\ groups[gi].last \in Int BY <1>3 DEF GroupType
<1>5. /\ 1 <= op.first /\ op.first <= k - 1 /\ k - 1 <= Len(ranges)
      /\ groups[gi].first <= op.first /\ k - 1 <= groups[gi].last
  <2>1. /\ 1 <= groups[gi].first /\ groups[gi].last <= Len(ranges) /\ Len(ranges) \in Int
        /\ op.first \in groups[gi].first .. k - 1 /\ k <= groups[gi].last + 1
    BY <1>1, <1>2, <1>3 DEF GoodGroup
  <2> QED BY ONLY <1>2, <1>4, <2>1
<1>6. ASSUME NEW i \in op.first .. k - 1
      PROVE  op.offset <= ranges[i].offset /\ End(ranges[i]) <= op.end
  <2>1. ASSUME NEW m \in op.first .. k - 1
        PROVE  /\ m \in groups[gi].first .. groups[gi].last
               /\ ranges[m].offset \in Nat /\ End(ranges[m]) \in Nat
               /\ ranges[m].offset <= End(ranges[m])
    <3>1. m \in 1 .. Len(ranges) /\ m \in groups[gi].first .. groups[gi].last
      BY <1>2, <1>4, <1>5
    <3>2. /\ ranges[m].offset \in Nat /\ ranges[m].length \in Nat
          /\ End(ranges[m]) = ranges[m].offset + ranges[m].length
      BY <1>2, <3>1, RangeFields
    <3> QED BY <3>1, <3>2
  <2>2. /\ op.first \in op.first .. k - 1 /\ k - 1 \in op.first .. k - 1 BY <1>2, <1>5
  <2>3. op.offset <= ranges[i].offset
    <3>1. CASE i = op.first BY <1>1, <2>1, <3>1
    <3>2. CASE i # op.first
      <4>1. op.first < i BY <1>2, <3>2
      <4>2. End(ranges[op.first]) <= ranges[i].offset
        BY <1>3, <2>1, <2>2, <4>1 DEF GoodGroup, Disjoint
      <4>3. ranges[op.first].offset <= End(ranges[op.first]) /\ ranges[op.first].offset \in Nat
            /\ End(ranges[op.first]) \in Nat /\ ranges[i].offset \in Nat
        BY <2>1, <2>2
      <4> QED BY <1>1, <4>2, <4>3
    <3> QED BY <3>1, <3>2
  <2>4. End(ranges[i]) <= op.end
    <3>1. CASE i = k - 1 BY <1>1, <2>1, <3>1
    <3>2. CASE i # k - 1
      <4>1. i < k - 1 BY <1>2, <3>2
      <4>2. End(ranges[i]) <= ranges[k - 1].offset
        BY <1>3, <2>1, <2>2, <4>1 DEF GoodGroup, Disjoint
      <4>3. ranges[k - 1].offset <= End(ranges[k - 1]) /\ ranges[k - 1].offset \in Nat
            /\ End(ranges[k - 1]) \in Nat /\ End(ranges[i]) \in Nat
        BY <2>1, <2>2
      <4> QED BY <1>1, <4>2, <4>3
    <3> QED BY <3>1, <3>2
  <2> QED BY <2>3, <2>4
<1> QED BY <1>2, <1>5, <1>6 DEF Covered

(* A flush from the boundary on. *)
LEMMA FlushStep ==
  ASSUME Inv, NEW first \in Int, NEW last \in Int, NEW offset \in Int, NEW end \in Int,
         Flush(first, last, offset, end),
         Boundary = first - 1, 1 <= first, first <= last, last <= Len(ranges),
         Covered(ranges, first, last, offset, end),
         splitThreshold <= 0 \/ first = last \/ end - offset <= splitThreshold
  PROVE  /\ ops' \in Seq(OpType) /\ locations' \in [1 .. Len(ranges) -> Location]
         /\ Located(ranges, ops', locations', last)
         /\ Atomic(ranges, ops', locations', splitThreshold)
<1>1. /\ ranges \in Seq(ByteRange) /\ ops \in Seq(OpType) /\ splitThreshold \in Int
      /\ locations \in [1 .. Len(ranges) -> Location]
      /\ Located(ranges, ops, locations, first - 1)
      /\ Atomic(ranges, ops, locations, splitThreshold)
  BY DEF Inv, Types
<1>2. Flushed(ranges, ops, locations, first, last, offset, end, ops', locations')
  BY <1>1 DEF Flush, Flushed
<1>3. /\ ops' \in Seq(OpType) /\ locations' \in [1 .. Len(ranges) -> Location]
      /\ Located(ranges, ops', locations', last)
  BY <1>1, <1>2, FlushLocates
<1>4. Atomic(ranges, ops', locations', splitThreshold)
  BY <1>1, <1>2, FlushAtomic
<1> QED BY <1>3, <1>4
-----------------------------------------------------------------------------
LEMMA EndCoalesceInv == ASSUME Inv, EndCoalesce PROVE Inv'
<1>1. /\ ranges' = ranges /\ coalesceGap' = coalesceGap /\ splitThreshold' = splitThreshold
      /\ pc' = "split" /\ idx' = idx /\ groups' = groups /\ gi' = gi /\ k' = k
      /\ op' = op /\ ops' = ops /\ locations' = locations
      /\ pc = "coalesce" /\ idx > Len(ranges)
  BY DEF EndCoalesce, args
<1>2. Types /\ gi = 1 /\ k = 0 /\ Adjacent(groups, idx - 1) BY <1>1 DEF Inv
<1>3. idx = Len(ranges) + 1 /\ ranges \in Seq(ByteRange) /\ groups \in Seq(GroupType) BY <1>1, <1>2 DEF Types
<1>4. Types' BY <1>1, <1>2 DEF Types
<1>5. Boundary' = 0
  <2>1. CASE groups = <<>> BY <1>1, <1>2, <1>3, <2>1 DEF Boundary, Adjacent
  <2>2. CASE groups # <<>>
    <3>1. 1 <= Len(groups) /\ groups[1].first = 1 BY <1>2, <1>3, <2>2 DEF Adjacent
    <3> QED BY <1>1, <1>2, <3>1 DEF Boundary
  <2> QED BY <2>1, <2>2
<1>6. Located(ranges, ops, locations, 0) BY <1>1 DEF Inv, Boundary
<1>7. PackingInv' BY <1>1, <1>2 DEF PackingInv
<1>8. Located(ranges', ops', locations', Boundary') BY <1>1, <1>5, <1>6
<1>9. /\ \A g \in 1 .. Len(groups') : GoodGroup(ranges', groups'[g], idx' - 1)
      /\ Adjacent(groups', idx' - 1)
      /\ Atomic(ranges', ops', locations', splitThreshold')
  BY <1>1 DEF Inv
<1> QED BY <1>1, <1>3, <1>4, <1>7, <1>8, <1>9 DEF Inv

(* What the steps of the split pass leave alone. *)
LEMMA SplitKeeps ==
  ASSUME Inv, pc = "split", UNCHANGED <<args, pc, idx, groups>>,
         gi' \in 1 .. Len(groups) + 1, k' \in Int, op' \in Packing,
         ops' \in Seq(OpType), locations' \in [1 .. Len(ranges) -> Location],
         PackingInv', Located(ranges, ops', locations', Boundary'),
         Atomic(ranges, ops', locations', splitThreshold)
  PROVE  Inv'
<1>1. /\ ranges' = ranges /\ coalesceGap' = coalesceGap /\ splitThreshold' = splitThreshold
      /\ pc' = "split" /\ idx' = idx /\ groups' = groups
  BY DEF args
<1>2. Types' BY <1>1 DEF Inv, Types
<1>3. /\ \A g \in 1 .. Len(groups') : GoodGroup(ranges', groups'[g], idx' - 1)
      /\ Adjacent(groups', idx' - 1) /\ idx' = Len(ranges') + 1
  BY <1>1 DEF Inv
<1>4. /\ Located(ranges', ops', locations', Boundary')
      /\ Atomic(ranges', ops', locations', splitThreshold')
  BY <1>1
<1> QED BY <1>1, <1>2, <1>3, <1>4 DEF Inv

LEMMA WholeGroupInv == ASSUME Inv, WholeGroup PROVE Inv'
<1> DEFINE g == groups[gi]
<1>1. /\ pc = "split" /\ gi <= Len(groups) /\ k = 0 /\ k' = k /\ op' = op /\ gi' = gi + 1
      /\ FitsInOne(g) /\ Flush(g.first, g.last, g.offset, g.end)
      /\ UNCHANGED <<args, pc, idx, groups>> /\ groups' = groups /\ pc' = pc
      /\ ranges' = ranges
  BY DEF WholeGroup, args
<1>2. Types BY DEF Inv
<1>3. /\ gi \in 1 .. Len(groups) /\ g \in GroupType /\ GoodGroup(ranges, g, Len(ranges))
      /\ g.last = IF gi + 1 <= Len(groups) THEN groups[gi + 1].first - 1 ELSE Len(ranges)
  BY <1>1, NextBoundary
<1>4. /\ Boundary = g.first - 1 /\ Boundary' = g.last
  <2>1. Boundary = g.first - 1 BY <1>1 DEF Boundary
  <2>2. Boundary' = IF gi + 1 <= Len(groups) THEN groups[gi + 1].first - 1 ELSE Len(ranges)
    BY <1>1 DEF Boundary
  <2> QED BY <1>3, <2>1, <2>2
<1> HIDE DEF g
<1>5. /\ g.first \in Int /\ g.last \in Int /\ g.offset \in Int /\ g.end \in Int
  BY <1>3 DEF GroupType
<1>6. /\ 1 <= g.first /\ g.first <= g.last /\ g.last <= Len(ranges)
      /\ Covered(ranges, g.first, g.last, g.offset, g.end)
      /\ splitThreshold <= 0 \/ g.first = g.last \/ g.end - g.offset <= splitThreshold
  BY <1>1, <1>3 DEF GoodGroup, FitsInOne
<1>7. /\ ops' \in Seq(OpType) /\ locations' \in [1 .. Len(ranges) -> Location]
      /\ Located(ranges, ops', locations', g.last)
      /\ Atomic(ranges, ops', locations', splitThreshold)
  BY <1>1, <1>4, <1>5, <1>6, FlushStep
<1>8. PackingInv' BY <1>1 DEF PackingInv
<1>9. gi' \in 1 .. Len(groups) + 1 /\ k' \in Int /\ op' \in Packing
  BY <1>1, <1>2, <1>3 DEF Types
<1>10. Located(ranges, ops', locations', Boundary') BY <1>4, <1>7
<1> QED BY <1>1, <1>7, <1>8, <1>9, <1>10, SplitKeeps

LEMMA StartSplitInv == ASSUME Inv, StartSplit PROVE Inv'
<1> DEFINE g == groups[gi]
           first == g.first
           new == [first |-> first, offset |-> ranges[first].offset, end |-> End(ranges[first])]
<1>1. /\ pc = "split" /\ gi <= Len(groups) /\ k = 0 /\ k' = first + 1 /\ op' = new /\ gi' = gi
      /\ ~FitsInOne(g) /\ ops' = ops /\ locations' = locations
      /\ UNCHANGED <<args, pc, idx, groups>> /\ groups' = groups /\ pc' = pc
      /\ ranges' = ranges /\ splitThreshold' = splitThreshold
  BY DEF StartSplit, args
<1>2. /\ Types /\ Located(ranges, ops, locations, Boundary)
      /\ Atomic(ranges, ops, locations, splitThreshold)
  BY DEF Inv
<1>3. gi \in 1 .. Len(groups) /\ g \in GroupType /\ GoodGroup(ranges, g, Len(ranges))
  BY <1>1, NextBoundary
<1>4. Boundary = first - 1 BY <1>1 DEF Boundary
<1>5. /\ first \in Int /\ g.last \in Int /\ 1 <= first /\ first <= g.last /\ g.last <= Len(ranges)
      /\ ranges \in Seq(ByteRange) /\ splitThreshold \in Int
  <2>1. g.first \in Int /\ g.last \in Int BY <1>3 DEF GroupType
  <2> QED BY <1>2, <1>3, <2>1 DEF GoodGroup, Types
<1>6. /\ ranges[first].offset \in Nat /\ End(ranges[first]) \in Nat
  <2>1. first \in 1 .. Len(ranges) BY <1>5
  <2> QED BY <1>5, <2>1, RangeFields
<1>7. op' \in Packing BY <1>1, <1>5, <1>6 DEF Packing
<1>8. /\ op'.first = first /\ op'.offset = ranges[first].offset /\ op'.end = End(ranges[first]) BY <1>1
<1>9. Boundary' = first - 1
  <2>1. k' # 0 BY <1>1, <1>5
  <2> QED BY <1>1, <1>8, <2>1 DEF Boundary
<1>10. PackingInv'
  <2>1. first \in groups[gi].first .. k' - 1 /\ k' <= groups[gi].last + 1 /\ k' - 1 = first
    BY <1>1, <1>5
  <2>2. splitThreshold > 0 BY <1>1, <1>5 DEF FitsInOne
  <2> HIDE DEF first, new, g
  <2> QED BY <1>1, <1>8, <2>1, <2>2 DEF PackingInv
<1>11. gi' \in 1 .. Len(groups) + 1 /\ k' \in Int /\ ops' \in Seq(OpType)
       /\ locations' \in [1 .. Len(ranges) -> Location]
  BY <1>1, <1>2, <1>5 DEF Types
<1>12. Located(ranges, ops', locations', Boundary') BY <1>1, <1>2, <1>4, <1>9
<1>13. Atomic(ranges, ops', locations', splitThreshold) BY <1>1, <1>2
<1> QED BY <1>1, <1>7, <1>10, <1>11, <1>12, <1>13, SplitKeeps

LEMMA PackInv == ASSUME Inv, Pack PROVE Inv'
<1>1. /\ pc = "split" /\ gi <= Len(groups) /\ k # 0 /\ k <= groups[gi].last /\ k' = k + 1
      /\ gi' = gi /\ UNCHANGED <<args, pc, idx, groups>> /\ groups' = groups /\ pc' = pc
      /\ ranges' = ranges /\ splitThreshold' = splitThreshold
  BY DEF Pack, args
<1>2. /\ Types /\ Located(ranges, ops, locations, Boundary)
      /\ Atomic(ranges, ops, locations, splitThreshold)
      /\ op.first \in groups[gi].first .. k - 1
      /\ op.offset = ranges[op.first].offset /\ splitThreshold > 0
      /\ op.first = k - 1 \/ op.end - op.offset <= splitThreshold
  BY <1>1 DEF Inv, PackingInv
<1>3. /\ gi \in 1 .. Len(groups) /\ groups[gi].first \in Int /\ groups[gi].last \in Int
      /\ 1 <= groups[gi].first /\ groups[gi].last <= Len(ranges)
  <2>1. gi \in 1 .. Len(groups) /\ groups[gi] \in GroupType /\ GoodGroup(ranges, groups[gi], Len(ranges))
    BY <1>1, NextBoundary
  <2>2. groups[gi].first \in Int /\ groups[gi].last \in Int BY <2>1 DEF GroupType
  <2> QED BY <2>1, <2>2 DEF GoodGroup
<1>4. /\ op.first \in Int /\ op.offset \in Int /\ op.end \in Int /\ k \in Int
      /\ 1 <= op.first /\ op.first <= k - 1 /\ k - 1 <= Len(ranges)
      /\ Covered(ranges, op.first, k - 1, op.offset, op.end)
  BY <1>1, OpCovers
<1>5. Boundary = op.first - 1 BY <1>1 DEF Boundary
<1>6. /\ ranges \in Seq(ByteRange) /\ splitThreshold \in Int /\ op \in Packing
      /\ ops \in Seq(OpType) /\ locations \in [1 .. Len(ranges) -> Location]
  BY <1>2 DEF Types
<1>7. ranges[k].offset \in Nat /\ End(ranges[k]) \in Nat
  <2>1. k \in 1 .. Len(ranges) BY <1>1, <1>3, <1>4
  <2> QED BY <1>6, <2>1, RangeFields
<1>8. k' # 0 /\ k' - 1 = k /\ k' \in Int /\ gi' \in 1 .. Len(groups) + 1 /\ k' <= groups[gi].last + 1
  BY <1>1, <1>3, <1>4
<1>9. CASE /\ End(ranges[k]) - op.offset > splitThreshold
           /\ Flush(op.first, k - 1, op.offset, op.end)
           /\ op' = [first |-> k, offset |-> ranges[k].offset, end |-> End(ranges[k])]
  <2>1. /\ op'.first = k /\ op'.offset = ranges[k].offset /\ op'.end = End(ranges[k])
        /\ op' \in Packing
    BY <1>4, <1>7, <1>9 DEF Packing
  <2>2. /\ ops' \in Seq(OpType) /\ locations' \in [1 .. Len(ranges) -> Location]
        /\ Located(ranges, ops', locations', k - 1)
        /\ Atomic(ranges, ops', locations', splitThreshold)
    <3>1. k - 1 \in Int BY <1>4
    <3> QED BY <1>2, <1>4, <1>5, <1>9, <3>1, FlushStep
  <2>3. Boundary' = k - 1 BY <1>1, <1>8, <2>1 DEF Boundary
  <2>4. PackingInv'
    <3>1. k \in groups[gi].first .. k' - 1
      <4>1. groups[gi].first <= op.first BY <1>2
      <4>2. groups[gi].first <= k /\ k <= k BY <1>3, <1>4, <4>1
      <4>3. k \in groups[gi].first .. k BY <1>3, <1>4, <4>2
      <4> QED BY <1>8, <4>3
    <3> QED BY <1>1, <1>2, <1>8, <2>1, <3>1 DEF PackingInv
  <2>5. Located(ranges, ops', locations', Boundary') BY <2>2, <2>3
  <2> QED BY <1>1, <1>8, <2>1, <2>2, <2>4, <2>5, SplitKeeps
<1>10. CASE /\ End(ranges[k]) - op.offset <= splitThreshold
            /\ op' = [op EXCEPT !.end = End(ranges[k])]
            /\ UNCHANGED <<ops, locations>>
  <2>1. /\ op'.first = op.first /\ op'.offset = op.offset /\ op'.end = End(ranges[k])
        /\ op' \in Packing
    BY <1>6, <1>7, <1>10 DEF Packing
  <2>2. Boundary' = op.first - 1 BY <1>1, <1>8, <2>1 DEF Boundary
  <2>3. PackingInv'
    <3>1. op.first \in groups[gi].first .. k' - 1 BY <1>2, <1>3, <1>4, <1>8
    <3>2. op'.end - op'.offset <= splitThreshold BY <1>10, <2>1
    <3> QED BY <1>1, <1>2, <1>8, <2>1, <3>1, <3>2 DEF PackingInv
  <2>4. /\ ops' \in Seq(OpType) /\ locations' \in [1 .. Len(ranges) -> Location]
        /\ Located(ranges, ops', locations', Boundary')
        /\ Atomic(ranges, ops', locations', splitThreshold)
    BY <1>2, <1>5, <1>6, <1>10, <2>2
  <2> QED BY <1>1, <1>8, <2>1, <2>3, <2>4, SplitKeeps
<1> QED BY <1>9, <1>10 DEF Pack

LEMMA EndSplitInv == ASSUME Inv, EndSplit PROVE Inv'
<1> DEFINE last == groups[gi].last
<1>1. /\ pc = "split" /\ gi <= Len(groups) /\ k > last /\ k' = 0 /\ op' = NoOp /\ gi' = gi + 1
      /\ Flush(op.first, last, op.offset, op.end)
      /\ UNCHANGED <<args, pc, idx, groups>> /\ groups' = groups /\ pc' = pc
      /\ ranges' = ranges
  BY DEF EndSplit, args
<1>2. Types BY DEF Inv
<1>3. /\ gi \in 1 .. Len(groups) /\ groups[gi] \in GroupType /\ GoodGroup(ranges, groups[gi], Len(ranges))
      /\ last = IF gi + 1 <= Len(groups) THEN groups[gi + 1].first - 1 ELSE Len(ranges)
  BY <1>1, NextBoundary
<1>4. last \in Int /\ 1 <= last /\ last <= Len(ranges)
  <2>1. groups[gi].first \in Int /\ groups[gi].last \in Int BY <1>3 DEF GroupType
  <2> QED BY <1>3, <2>1 DEF GoodGroup
<1>5. k # 0 /\ k \in Int BY <1>1, <1>2, <1>4 DEF Types
<1>6. /\ k <= last + 1
      /\ op.first = k - 1 \/ op.end - op.offset <= splitThreshold
  BY <1>5 DEF Inv, PackingInv
<1>7. k - 1 = last BY <1>1, <1>4, <1>5, <1>6
<1>8. /\ op.first \in Int /\ op.offset \in Int /\ op.end \in Int
      /\ 1 <= op.first /\ op.first <= last
      /\ Covered(ranges, op.first, last, op.offset, op.end)
  BY <1>5, <1>7, OpCovers
<1>9. /\ Boundary = op.first - 1 /\ Boundary' = last
  <2>1. Boundary = op.first - 1 BY <1>1, <1>5 DEF Boundary
  <2>2. Boundary' = IF gi + 1 <= Len(groups) THEN groups[gi + 1].first - 1 ELSE Len(ranges)
    BY <1>1 DEF Boundary
  <2> QED BY <1>3, <2>1, <2>2
<1> HIDE DEF last
<1>10. /\ ops' \in Seq(OpType) /\ locations' \in [1 .. Len(ranges) -> Location]
       /\ Located(ranges, ops', locations', last)
       /\ Atomic(ranges, ops', locations', splitThreshold)
  BY <1>1, <1>4, <1>6, <1>7, <1>8, <1>9, FlushStep
<1>11. PackingInv' BY <1>1 DEF PackingInv
<1>12. gi' \in 1 .. Len(groups) + 1 /\ k' \in Int /\ op' \in Packing
  BY <1>1, <1>3 DEF NoOp, Packing
<1>13. Located(ranges, ops', locations', Boundary') BY <1>9, <1>10
<1> QED BY <1>1, <1>10, <1>11, <1>12, <1>13, SplitKeeps

LEMMA EndPlanInv == ASSUME Inv, EndPlan PROVE Inv'
<1>1. /\ ranges' = ranges /\ coalesceGap' = coalesceGap /\ splitThreshold' = splitThreshold
      /\ pc' = "done" /\ idx' = idx /\ groups' = groups /\ gi' = gi /\ k' = k
      /\ op' = op /\ ops' = ops /\ locations' = locations
      /\ pc = "split" /\ gi > Len(groups)
  BY DEF EndPlan, args
<1>2. Types /\ PackingInv BY DEF Inv
<1>3. gi = Len(groups) + 1 /\ k = 0 BY <1>1, <1>2 DEF Types, PackingInv
<1>4. Types' BY <1>1, <1>2 DEF Types
<1>5. Boundary' = Boundary BY <1>1, <1>3 DEF Boundary
<1>6. PackingInv' BY <1>1, <1>3 DEF PackingInv
<1>7. /\ \A g \in 1 .. Len(groups') : GoodGroup(ranges', groups'[g], idx' - 1)
      /\ Adjacent(groups', idx' - 1) /\ idx' = Len(ranges') + 1
      /\ Located(ranges', ops', locations', Boundary')
      /\ Atomic(ranges', ops', locations', splitThreshold')
  BY <1>1, <1>5 DEF Inv
<1> QED BY <1>1, <1>3, <1>4, <1>6, <1>7 DEF Inv

LEMMA StutterInv == ASSUME Inv, UNCHANGED vars PROVE Inv'
<1>1. /\ ranges' = ranges /\ coalesceGap' = coalesceGap /\ splitThreshold' = splitThreshold
      /\ pc' = pc /\ idx' = idx /\ groups' = groups /\ gi' = gi /\ k' = k
      /\ op' = op /\ ops' = ops /\ locations' = locations
  BY DEF vars, args
<1> QED BY <1>1 DEF Inv, Types, PackingInv, Boundary

LEMMA StepInv == ASSUME Inv, [Next]_vars PROVE Inv'
BY CoalesceInv, EndCoalesceInv, WholeGroupInv, StartSplitInv, PackInv, EndSplitInv,
   EndPlanInv, StutterInv DEF Next, Done
-----------------------------------------------------------------------------
(* The invariant is inductive. *)
THEOREM PlannerInv == Spec => []Inv
<1>1. Init => Inv BY InitInv, PlannerAssumption
<1>2. Inv /\ [Next]_vars => Inv' BY StepInv
<1> QED BY <1>1, <1>2, PTL DEF Spec

(* Every range that has a location is, whole, in the op it is located in,  *)
(* at its place, and when Plan returns every range has one.                *)
THEOREM RangesFound == Spec => []RangesLocated
<1>1. ASSUME Inv PROVE RangesLocated
  <2>1. /\ ranges \in Seq(ByteRange) /\ ops \in Seq(OpType)
        /\ locations \in [1 .. Len(ranges) -> Location]
        /\ Located(ranges, ops, locations, Boundary)
    BY <1>1 DEF Inv, Types
  <2> SUFFICES ASSUME NEW i \in 1 .. Len(ranges), locations[i] # NoLocation \/ pc = "done"
               PROVE  Within(i)
    BY <2>1 DEF RangesLocated
  <2>2. i <= Boundary
    <3>1. CASE pc = "done"
      <4>1. gi = Len(groups) + 1 /\ k = 0 /\ groups \in Seq(GroupType) BY <1>1, <3>1 DEF Inv, Types
      <4>2. Boundary = Len(ranges) BY <3>1, <4>1 DEF Boundary
      <4> QED BY <4>2
    <3>2. CASE pc # "done" BY <2>1, <3>2 DEF Located
    <3> QED BY <3>1, <3>2
  <2>3. Found(ranges, ops, locations[i], i) BY <2>1, <2>2 DEF Located
  <2> QED BY <2>1, <2>3 DEF Found, Within
<1> QED BY <1>1, PlannerInv, PTL

(* An op longer than the split threshold holds the bytes of one range.     *)
THEOREM OversizeIsOneRange == Spec => []OversizeIsAtomic
<1>1. ASSUME Inv PROVE OversizeIsAtomic
  <2>1. /\ ranges \in Seq(ByteRange) /\ ops \in Seq(OpType)
        /\ Atomic(ranges, ops, locations, splitThreshold)
    BY <1>1 DEF Inv, Types
  <2>2. DOMAIN ranges = 1 .. Len(ranges) /\ DOMAIN ops = 1 .. Len(ops) BY <2>1
  <2> QED BY <2>1, <2>2 DEF Atomic, OversizeIsAtomic, Member
<1> QED BY <1>1, PlannerInv, PTL
-----------------------------------------------------------------------------
(* The plan is the greedy one.  Neighbours are near if their gap may be    *)
(* read; groups are the longest runs of near neighbours, and each op takes *)
(* all it can of its group.                                                *)

Near(i) == ranges[i + 1].offset - End(ranges[i]) \in 0 .. coalesceGap - 1

NearIn(g) ==
  /\ g.end = End(ranges[g.last])
  /\ \A i \in g.first .. g.last - 1 : Near(i)

GroupsInv ==
  /\ \A g \in 1 .. Len(groups) : NearIn(groups[g])
  /\ \A g \in 1 .. Len(groups) - 1 : ~Near(groups[g].last)

(* Range i + 1 may be in an op that starts at the offset and has range i. *)
Fits(i, offset) == Near(i) /\ (splitThreshold <= 0 \/ End(ranges[i + 1]) - offset <= splitThreshold)
SharesIn(o, l, i) == Fits(i, o[l[i].op].offset)

(* The ops hold the ranges up to the boundary, and none can hold the next. *)
Greedy(o, l, boundary) ==
  /\ IF boundary = 0 THEN o = <<>> ELSE l[boundary].op = Len(o)
  /\ \A i \in 1 .. boundary - 1 :
       /\ l[i + 1].op = l[i].op \/ l[i + 1].op = l[i].op + 1
       /\ l[i + 1].op = l[i].op <=> SharesIn(o, l, i)
  /\ boundary \in 1 .. Len(ranges) - 1 => ~SharesIn(o, l, boundary)
  /\ \A n \in 1 .. Len(o) :
       /\ \E i \in 1 .. boundary : l[i].op = n /\ o[n].offset = ranges[i].offset
       /\ \E i \in 1 .. boundary : l[i].op = n /\ o[n].offset + o[n].length = End(ranges[i])

PackedInv == k # 0 => \A i \in op.first .. k - 2 : End(ranges[i + 1]) - op.offset <= splitThreshold

GreedyInv == GroupsInv /\ PackedInv /\ Greedy(ops, locations, Boundary)

(* A flush of ranges that fit makes a greedy plan longer, if the range     *)
(* after them does not fit.                                                *)
LEMMA FlushGreedy ==
  ASSUME Types, NEW o \in Seq(OpType), NEW l \in [1 .. Len(ranges) -> Location],
         NEW first \in Int, NEW last \in Int, NEW offset \in Int, NEW end \in Int,
         1 <= first, first <= last, last <= Len(ranges),
         Located(ranges, o, l, first - 1), Greedy(o, l, first - 1),
         offset = ranges[first].offset, end = End(ranges[last]),
         \A i \in first .. last - 1 : Fits(i, offset),
         last < Len(ranges) => ~Fits(last, offset),
         NEW o2, NEW l2, Flushed(ranges, o, l, first, last, offset, end, o2, l2)
  PROVE  Greedy(o2, l2, last)
<1> DEFINE L == Len(ranges)
           new == Len(o) + 1
<1>0. ranges \in Seq(ByteRange) /\ L \in Nat BY DEF Types
<1>1. [offset |-> offset, length |-> end - offset] \in OpType BY DEF OpType
<1>2. /\ Len(o) \in Nat /\ Len(o2) = new
      /\ o2[new].offset = offset /\ o2[new].length = end - offset
      /\ \A n \in 1 .. Len(o) : o2[n] = o[n]
  BY <1>1 DEF Flushed
<1>3. ASSUME NEW i \in 1 .. first - 1
      PROVE  l2[i] = l[i] /\ l[i].op \in 1 .. Len(o) /\ (SharesIn(o2, l2, i) <=> SharesIn(o, l, i))
  <2>1. i \in 1 .. L /\ ~(first <= i) BY <1>0
  <2>2. l2[i] = l[i] BY <2>1 DEF Flushed
  <2>3. l[i].op \in 1 .. Len(o) BY <2>1 DEF Located, Found
  <2>4. o2[l2[i].op] = o[l[i].op] BY <1>2, <2>2, <2>3
  <2> QED BY <2>2, <2>3, <2>4 DEF SharesIn
<1>4. ASSUME NEW i \in first .. last
      PROVE  l2[i].op = new /\ (SharesIn(o2, l2, i) <=> Fits(i, offset))
  <2>1. i \in 1 .. L /\ first <= i /\ i <= last BY <1>0
  <2>2. l2[i].op = new BY <2>1 DEF Flushed
  <2> QED BY <1>2, <2>2 DEF SharesIn
<1>5. last # 0 /\ l2[last].op = Len(o2) BY <1>2, <1>4
<1>6. ASSUME NEW i \in 1 .. last - 1
      PROVE  /\ l2[i + 1].op = l2[i].op \/ l2[i + 1].op = l2[i].op + 1
             /\ l2[i + 1].op = l2[i].op <=> SharesIn(o2, l2, i)
  <2>1. CASE i < first - 1
    <3>1. i \in 1 .. first - 1 /\ i + 1 \in 1 .. first - 1 /\ i \in 1 .. (first - 1) - 1 BY <2>1
    <3>2. /\ l[i + 1].op = l[i].op \/ l[i + 1].op = l[i].op + 1
          /\ l[i + 1].op = l[i].op <=> SharesIn(o, l, i)
      BY <3>1 DEF Greedy
    <3> QED BY <1>3, <3>1, <3>2
  <2>2. CASE i = first - 1
    <3>1. i \in 1 .. first - 1 /\ i \in 1 .. L - 1 /\ i # 0 /\ i + 1 = first BY <1>0, <2>2
    <3>2. l[i].op = Len(o) /\ ~SharesIn(o, l, i) BY <2>2, <3>1 DEF Greedy
    <3>3. l2[i].op = Len(o) /\ ~SharesIn(o2, l2, i) BY <1>3, <3>1, <3>2
    <3>4. l2[i + 1].op = new BY <1>4, <3>1
    <3> QED BY <1>2, <3>3, <3>4
  <2>3. CASE i >= first
    <3>1. i \in first .. last /\ i + 1 \in first .. last /\ i \in first .. last - 1 BY <2>3
    <3> QED BY <1>4, <3>1
  <2> QED BY <2>1, <2>2, <2>3
<1>7. last \in 1 .. L - 1 => ~SharesIn(o2, l2, last)
  <2>1. last \in first .. last OBVIOUS
  <2> QED BY <1>0, <1>4, <2>1
<1>8. ASSUME NEW n \in 1 .. Len(o2)
      PROVE  /\ \E i \in 1 .. last : l2[i].op = n /\ o2[n].offset = ranges[i].offset
             /\ \E i \in 1 .. last : l2[i].op = n /\ o2[n].offset + o2[n].length = End(ranges[i])
  <2>1. CASE n = new
    <3>1. first \in 1 .. last /\ last \in 1 .. last /\ first \in first .. last /\ last \in first .. last
      OBVIOUS
    <3>2. l2[first].op = n /\ o2[n].offset = ranges[first].offset BY <1>2, <1>4, <2>1, <3>1
    <3>3. offset + (end - offset) = end OBVIOUS
    <3>4. l2[last].op = n /\ o2[n].offset + o2[n].length = End(ranges[last])
      BY <1>2, <1>4, <2>1, <3>1, <3>3
    <3> QED BY <3>1, <3>2, <3>4
  <2>2. CASE n # new
    <3>1. n \in 1 .. Len(o)
      <4>1. Len(o) \in Nat /\ Len(o2) = Len(o) + 1 /\ n # Len(o) + 1 BY <1>2, <2>2
      <4> QED BY ONLY <1>8, <4>1
    <3>2. o2[n] = o[n] BY <1>2, <3>1
    <3>3. /\ \E i \in 1 .. first - 1 : l[i].op = n /\ o[n].offset = ranges[i].offset
          /\ \E i \in 1 .. first - 1 : l[i].op = n /\ o[n].offset + o[n].length = End(ranges[i])
      BY <3>1 DEF Greedy
    <3>4. \A i \in 1 .. first - 1 : i \in 1 .. last /\ l2[i] = l[i] BY <1>3
    <3> QED BY <3>2, <3>3, <3>4
  <2> QED BY <2>1, <2>2
<1> QED BY <1>5, <1>6, <1>7, <1>8 DEF Greedy

LEMMA SameArgs ==
  ASSUME UNCHANGED args
  PROVE  /\ ranges' = ranges /\ coalesceGap' = coalesceGap /\ splitThreshold' = splitThreshold
         /\ \A i : Near(i)' <=> Near(i)
BY DEF args, Near

(* What the steps of the split pass have to show. *)
LEMMA GreedyStep ==
  ASSUME GreedyInv, UNCHANGED <<args, groups>>, PackedInv', Greedy(ops', locations', Boundary')
  PROVE  GreedyInv'
<1>1. /\ ranges' = ranges /\ coalesceGap' = coalesceGap /\ splitThreshold' = splitThreshold
      /\ groups' = groups /\ \A i : Near(i)' <=> Near(i)
  BY SameArgs
<1>2. GroupsInv' BY <1>1 DEF GreedyInv, GroupsInv, NearIn, Near
<1>3. Greedy(ops, locations, Boundary)' BY <1>1 DEF Greedy, SharesIn, Fits, Near
<1> QED BY <1>2, <1>3 DEF GreedyInv

LEMMA CoalesceGreedy == ASSUME Inv, GreedyInv, Coalesce PROVE GreedyInv'
<1> DEFINE n == Len(groups)
<1>1. /\ Types /\ Adjacent(groups, idx - 1) /\ pc = "coalesce" /\ gi = 1 /\ k = 0
      /\ \A g \in 1 .. Len(groups) : GoodGroup(ranges, groups[g], idx - 1)
  BY DEF Inv, Coalesce
<1>2. /\ ranges \in Seq(ByteRange) /\ idx \in 1 .. Len(ranges) /\ idx \in Int /\ coalesceGap \in Int
      /\ groups \in Seq(GroupType) /\ n \in Nat
      /\ ranges' = ranges /\ coalesceGap' = coalesceGap /\ splitThreshold' = splitThreshold
      /\ pc' = pc /\ k' = k /\ op' = op /\ ops' = ops /\ locations' = locations /\ UNCHANGED args
  BY <1>1 DEF Types, Coalesce, args
<1>3. \A i : Near(i)' <=> Near(i) BY <1>2, SameArgs
<1>4. GroupsInv BY DEF GreedyInv
<1>5. /\ ranges[idx].offset \in Nat /\ End(ranges[idx]) \in Nat
      /\ ranges[idx].offset <= End(ranges[idx])
  <2>1. /\ ranges[idx].offset \in Nat /\ ranges[idx].length \in Nat
        /\ End(ranges[idx]) = ranges[idx].offset + ranges[idx].length
    BY <1>2, RangeFields
  <2> QED BY <2>1
(* The last group and the range after it. *)
<1>6. ASSUME n > 0
      PROVE  /\ n \in 1 .. n /\ groups[n] \in GroupType /\ groups[n].last = idx - 1
             /\ groups[n].first \in Int /\ groups[n].end \in Int
             /\ Joins(groups[n], ranges[idx]) <=> Near(idx - 1)
  <2>1. n \in 1 .. n /\ groups # <<>> BY <1>2, <1>6
  <2>2. groups[n] \in GroupType /\ groups[n].last = idx - 1 BY <1>1, <1>2, <2>1 DEF Adjacent
  <2>3. groups[n].first \in Int /\ groups[n].end \in Int BY <2>2 DEF GroupType
  <2>4. groups[n].end = End(ranges[idx - 1]) BY <1>4, <2>1, <2>2 DEF GroupsInv, NearIn
  <2>5. idx - 1 + 1 = idx BY <1>2
  <2> DEFINE a == ranges[idx].offset
             e == groups[n].end
  <2>6. Joins(groups[n], ranges[idx]) <=> a - e >= 0 /\ a - e < coalesceGap BY DEF Joins
  <2>7. Near(idx - 1) <=> a - e \in 0 .. coalesceGap - 1 BY <2>4, <2>5 DEF Near
  <2> HIDE DEF a, e
  <2>8. a \in Int /\ e \in Int BY <1>5, <2>3 DEF a, e
  <2>9. a - e \in 0 .. coalesceGap - 1 <=> a - e >= 0 /\ a - e < coalesceGap BY <1>2, <2>8
  <2> QED BY <2>1, <2>2, <2>3, <2>6, <2>7, <2>9
<1>7. GroupsInv'
  <2>1. CASE n > 0 /\ Joins(groups[n], ranges[idx])
    <3> DEFINE h == Extended(groups[n], idx)
    <3>1. groups' = [groups EXCEPT ![n] = h] BY <2>1 DEF Coalesce
    <3>2. h.last = idx /\ h.first = groups[n].first /\ h.end = End(ranges[idx])
      <4>1. groups[n].end <= ranges[idx].offset /\ groups[n].end \in Int BY <1>5, <1>6, <2>1 DEF Joins
      <4>2. (IF End(ranges[idx]) > groups[n].end THEN End(ranges[idx]) ELSE groups[n].end) = End(ranges[idx])
        BY <1>5, <4>1
      <4> QED BY <4>2 DEF Extended
    <3>3. NearIn(h)
      <4> SUFFICES ASSUME NEW i \in groups[n].first .. idx - 1 PROVE Near(i) BY <3>2 DEF NearIn
      <4>1. CASE i = idx - 1 BY <1>6, <2>1, <4>1
      <4>2. CASE i # idx - 1
        <5>1. i \in groups[n].first .. groups[n].last - 1 BY <1>2, <1>6, <2>1, <4>2
        <5> QED BY <1>4, <1>6, <2>1, <5>1 DEF GroupsInv, NearIn
      <4> QED BY <4>1, <4>2
    <3> HIDE DEF h
    <3>4. /\ Len(groups') = n /\ groups'[n] = h
          /\ \A g \in 1 .. n - 1 : g \in 1 .. n /\ groups'[g] = groups[g]
      BY <1>2, <1>6, <2>1, <3>1
    <3>5. ASSUME NEW g \in 1 .. n PROVE NearIn(groups'[g])
      <4>1. CASE g = n BY <3>3, <3>4, <4>1
      <4>2. CASE g # n
        <5>1. groups'[g] = groups[g] BY <1>2, <3>4, <4>2
        <5> QED BY <1>4, <5>1 DEF GroupsInv
      <4> QED BY <4>1, <4>2
    <3>6. ASSUME NEW g \in 1 .. n - 1 PROVE ~Near(groups'[g].last)
      BY <1>4, <3>4 DEF GroupsInv
    <3> QED BY <1>2, <1>3, <3>4, <3>5, <3>6 DEF GroupsInv, NearIn
  <2>2. CASE ~(n > 0 /\ Joins(groups[n], ranges[idx]))
    <3> DEFINE h == Group(idx)
    <3>1. groups' = Append(groups, h) BY <2>2 DEF Coalesce
    <3>2. h.last = idx /\ h.first = idx /\ h.end = End(ranges[idx]) BY DEF Group
    <3>3. NearIn(h) BY <1>2, <3>2 DEF NearIn
    <3>4. h \in GroupType BY <1>1, <1>2, NewGroup
    <3> HIDE DEF h
    <3>5. /\ Len(groups') = n + 1 /\ groups'[n + 1] = h
          /\ \A g \in 1 .. n : groups'[g] = groups[g]
      BY <1>2, <3>1, <3>4
    <3>6. ASSUME NEW g \in 1 .. n + 1 PROVE NearIn(groups'[g])
      <4>1. CASE g = n + 1 BY <3>3, <3>5, <4>1
      <4>2. CASE g # n + 1
        <5>1. g \in 1 .. n /\ groups'[g] = groups[g] BY <1>2, <3>5, <4>2
        <5> QED BY <1>4, <5>1 DEF GroupsInv
      <4> QED BY <4>1, <4>2
    <3>7. ASSUME NEW g \in 1 .. n PROVE ~Near(groups'[g].last)
      <4>1. groups'[g] = groups[g] BY <3>5
      <4>2. CASE g = n
        <5>1. n > 0 BY <1>2, <4>2
        <5> QED BY <1>6, <2>2, <4>1, <4>2, <5>1
      <4>3. CASE g # n
        <5>1. g \in 1 .. n - 1 BY <1>2, <4>3
        <5> QED BY <1>4, <4>1, <5>1 DEF GroupsInv
      <4> QED BY <4>2, <4>3
    <3>8. n + 1 - 1 = n BY <1>2
    <3> QED BY <1>2, <1>3, <3>5, <3>6, <3>7, <3>8 DEF GroupsInv, NearIn
  <2> QED BY <2>1, <2>2
<1>8. PackedInv' BY <1>1, <1>2 DEF PackedInv
<1>9. Boundary = 0 /\ Boundary' = 0 BY <1>1, <1>2 DEF Boundary
<1>10. Greedy(ops, locations, Boundary)'
  BY <1>2, <1>3, <1>9 DEF GreedyInv, Greedy, SharesIn, Fits
<1> QED BY <1>7, <1>8, <1>10 DEF GreedyInv

LEMMA EndCoalesceGreedy == ASSUME Inv, Inv', GreedyInv, EndCoalesce PROVE GreedyInv'
<1>1. /\ pc = "coalesce" /\ k = 0 /\ k' = 0 /\ pc' = "split" /\ ops' = ops /\ locations' = locations
      /\ groups' = groups /\ gi' = 1 /\ UNCHANGED <<args, groups>> /\ idx' = idx
  BY DEF EndCoalesce, Inv
<1>2. groups \in Seq(GroupType) /\ Adjacent(groups, idx - 1) /\ idx \in Int /\ idx = Len(ranges) + 1
  <2>1. ranges' = ranges BY <1>1, SameArgs
  <2> QED BY <1>1, <2>1 DEF Inv, Types
<1>3. Boundary = 0 BY <1>1 DEF Boundary
<1>4. Boundary' = 0
  <2>1. ranges' = ranges /\ ranges \in Seq(ByteRange) BY <1>1, SameArgs DEF Inv, Types
  <2>2. CASE groups = <<>>
    <3>1. Len(ranges) = 0 /\ Len(groups) = 0 BY <1>2, <2>1, <2>2 DEF Adjacent
    <3> QED BY <1>1, <2>1, <3>1 DEF Boundary
  <2>3. CASE groups # <<>>
    <3>1. 1 <= Len(groups) /\ groups[1].first = 1 BY <1>2, <2>3 DEF Adjacent
    <3> QED BY <1>1, <3>1 DEF Boundary
  <2> QED BY <2>2, <2>3
<1>5. PackedInv' BY <1>1 DEF PackedInv
<1>6. Greedy(ops', locations', Boundary') BY <1>1, <1>3, <1>4 DEF GreedyInv
<1> QED BY <1>1, <1>5, <1>6, GreedyStep

(* A flush, from the boundary on, in the split pass. *)
LEMMA FlushStepGreedy ==
  ASSUME Inv, GreedyInv, NEW first \in Int, NEW last \in Int, NEW offset \in Int, NEW end \in Int,
         Flush(first, last, offset, end), Boundary = first - 1,
         1 <= first, first <= last, last <= Len(ranges),
         offset = ranges[first].offset, end = End(ranges[last]),
         \A i \in first .. last - 1 : Fits(i, offset),
         last < Len(ranges) => ~Fits(last, offset)
  PROVE  Greedy(ops', locations', last)
<1>1. /\ Types /\ ops \in Seq(OpType) /\ locations \in [1 .. Len(ranges) -> Location]
      /\ Located(ranges, ops, locations, first - 1)
  BY DEF Inv, Types
<1>2. Greedy(ops, locations, first - 1) BY DEF GreedyInv
<1>3. Flushed(ranges, ops, locations, first, last, offset, end, ops', locations')
  BY <1>1 DEF Flush, Flushed
<1> QED BY <1>1, <1>2, <1>3, FlushGreedy

(* What is known of the group at hand: the ranges in it are near, and the  *)
(* range after it is not.                                                  *)
LEMMA GroupAtHand ==
  ASSUME Inv, GreedyInv, pc = "split", gi <= Len(groups)
  PROVE  LET g == groups[gi]
         IN  /\ gi \in 1 .. Len(groups) /\ g \in GroupType /\ GoodGroup(ranges, g, Len(ranges))
             /\ g.first \in Int /\ g.last \in Int /\ g.offset \in Int /\ g.end \in Int
             /\ g.last = IF gi + 1 <= Len(groups) THEN groups[gi + 1].first - 1 ELSE Len(ranges)
             /\ NearIn(g)
             /\ g.last < Len(ranges) => ~Near(g.last)
<1> DEFINE g == groups[gi]
<1>1. /\ gi \in 1 .. Len(groups) /\ g \in GroupType /\ GoodGroup(ranges, g, Len(ranges))
      /\ g.last = IF gi + 1 <= Len(groups) THEN groups[gi + 1].first - 1 ELSE Len(ranges)
  BY NextBoundary
<1>2. groups \in Seq(GroupType) /\ ranges \in Seq(ByteRange) BY DEF Inv, Types
<1>3. /\ g.first \in Int /\ g.last \in Int /\ g.offset \in Int /\ g.end \in Int
  BY <1>1 DEF GroupType
<1>4. NearIn(g) BY <1>1 DEF GreedyInv, GroupsInv
<1>5. ASSUME g.last < Len(ranges) PROVE ~Near(g.last)
  <2>1. gi + 1 <= Len(groups) BY <1>1, <1>2, <1>5
  <2>2. gi \in 1 .. Len(groups) - 1 BY <1>1, <1>2, <2>1
  <2> QED BY <2>2 DEF GreedyInv, GroupsInv
<1> QED BY <1>1, <1>3, <1>4, <1>5

LEMMA WholeGroupGreedy == ASSUME Inv, GreedyInv, WholeGroup PROVE GreedyInv'
<1> DEFINE g == groups[gi]
<1>1. /\ pc = "split" /\ gi <= Len(groups) /\ k = 0 /\ k' = k /\ gi' = gi + 1 /\ pc' = pc
      /\ FitsInOne(g) /\ Flush(g.first, g.last, g.offset, g.end)
      /\ UNCHANGED <<args, groups>> /\ groups' = groups
  BY DEF WholeGroup
<1>2. /\ gi \in 1 .. Len(groups) /\ g \in GroupType /\ GoodGroup(ranges, g, Len(ranges))
      /\ g.first \in Int /\ g.last \in Int /\ g.offset \in Int /\ g.end \in Int
      /\ g.last = IF gi + 1 <= Len(groups) THEN groups[gi + 1].first - 1 ELSE Len(ranges)
      /\ NearIn(g)
      /\ g.last < Len(ranges) => ~Near(g.last)
  BY <1>1, GroupAtHand
<1>3. ranges' = ranges /\ ranges \in Seq(ByteRange) /\ splitThreshold \in Int
  BY <1>1, SameArgs DEF Inv, Types
<1>4. Boundary = g.first - 1 BY <1>1 DEF Boundary
<1>5. Boundary' = g.last
  <2>1. Boundary' = IF gi + 1 <= Len(groups) THEN groups[gi + 1].first - 1 ELSE Len(ranges)
    BY <1>1, <1>3 DEF Boundary
  <2> QED BY <1>2, <2>1
<1> HIDE DEF g
<1>6. /\ 1 <= g.first /\ g.first <= g.last /\ g.last <= Len(ranges)
      /\ g.offset = ranges[g.first].offset /\ g.end = End(ranges[g.last])
      /\ Covered(ranges, g.first, g.last, g.offset, g.end)
  BY <1>2 DEF GoodGroup, NearIn
<1>7. ASSUME NEW i \in g.first .. g.last - 1 PROVE Fits(i, g.offset)
  <2>1. Near(i) BY <1>2 DEF NearIn
  <2>2. i + 1 \in g.first .. g.last /\ i + 1 \in 1 .. Len(ranges) BY <1>2, <1>3, <1>6
  <2>3. End(ranges[i + 1]) <= g.end /\ End(ranges[i + 1]) \in Nat
    BY <1>3, <1>6, <2>2, RangeFields DEF Covered
  <2>4. splitThreshold <= 0 \/ g.end - g.offset <= splitThreshold BY <1>1 DEF FitsInOne
  <2>5. splitThreshold <= 0 \/ End(ranges[i + 1]) - g.offset <= splitThreshold
    <3> DEFINE e == End(ranges[i + 1])
    <3>1. e <= g.end /\ e \in Int BY <2>3
    <3> HIDE DEF e
    <3>2. splitThreshold <= 0 \/ e - g.offset <= splitThreshold BY <1>2, <1>3, <2>4, <3>1
    <3> QED BY <3>2 DEF e
  <2> QED BY <2>1, <2>5 DEF Fits
<1>8. g.last < Len(ranges) => ~Fits(g.last, g.offset) BY <1>2 DEF Fits
<1>9. Greedy(ops', locations', g.last)
  BY <1>1, <1>2, <1>4, <1>6, <1>7, <1>8, FlushStepGreedy
<1>10. PackedInv' BY <1>1 DEF PackedInv
<1> QED BY <1>1, <1>5, <1>9, <1>10, GreedyStep

LEMMA StartSplitGreedy == ASSUME Inv, GreedyInv, StartSplit PROVE GreedyInv'
<1> DEFINE first == groups[gi].first
           new == [first |-> first, offset |-> ranges[first].offset, end |-> End(ranges[first])]
<1>1. /\ pc = "split" /\ gi <= Len(groups) /\ k = 0 /\ k' = first + 1 /\ op' = new /\ gi' = gi
      /\ ops' = ops /\ locations' = locations /\ UNCHANGED <<args, groups>> /\ pc' = pc
  BY DEF StartSplit
<1>2. first \in Int /\ 1 <= first
  <2>1. groups[gi].first \in Int /\ GoodGroup(ranges, groups[gi], Len(ranges)) BY <1>1, GroupAtHand
  <2> QED BY <2>1 DEF GoodGroup
<1>3. op'.first = first BY <1>1
<1> HIDE DEF new
<1>4. Boundary = first - 1 BY <1>1 DEF Boundary
<1> HIDE DEF first
<1>5. k' # 0 /\ k' - 2 < first BY <1>1, <1>2
<1>6. Boundary' = first - 1 BY <1>1, <1>3, <1>5 DEF Boundary
<1>7. PackedInv' BY <1>1, <1>2, <1>3, <1>5 DEF PackedInv
<1>8. Greedy(ops', locations', Boundary') BY <1>1, <1>4, <1>6 DEF GreedyInv
<1> QED BY <1>1, <1>7, <1>8, GreedyStep

(* What is packed so far fits in the op.  *)
LEMMA PackedFits ==
  ASSUME Inv, GreedyInv, k # 0
  PROVE  /\ pc = "split" /\ gi <= Len(groups) /\ splitThreshold \in Int /\ splitThreshold > 0
         /\ op.first \in Int /\ op.offset \in Int /\ op.end \in Int /\ k \in Int
         /\ 1 <= op.first /\ op.first <= k - 1 /\ k - 1 <= groups[gi].last /\ k - 1 <= Len(ranges)
         /\ groups[gi].first <= op.first
         /\ op.offset = ranges[op.first].offset /\ op.end = End(ranges[k - 1])
         /\ Boundary = op.first - 1
         /\ \A i \in op.first .. (k - 1) - 1 : Fits(i, op.offset)
<1>1. /\ pc = "split" /\ gi <= Len(groups) /\ splitThreshold \in Int /\ splitThreshold > 0
      /\ op.first \in groups[gi].first .. k - 1 /\ k <= groups[gi].last + 1
      /\ op.offset = ranges[op.first].offset /\ op.end = End(ranges[k - 1])
  BY DEF Inv, Types, PackingInv
<1>2. /\ op.first \in Int /\ op.offset \in Int /\ op.end \in Int /\ k \in Int
      /\ 1 <= op.first /\ op.first <= k - 1 /\ k - 1 <= Len(ranges)
  BY OpCovers
<1>3. groups[gi].first \in Int /\ groups[gi].last \in Int /\ NearIn(groups[gi]) BY <1>1, GroupAtHand
<1>4. groups[gi].first <= op.first /\ k - 1 <= groups[gi].last BY <1>1, <1>2, <1>3
<1>5. Boundary = op.first - 1 BY <1>1 DEF Boundary
<1>6. ASSUME NEW i \in op.first .. (k - 1) - 1 PROVE Fits(i, op.offset)
  <2>1. i \in groups[gi].first .. groups[gi].last - 1 /\ i \in op.first .. k - 2
    <3>1. /\ i \in op.first .. (k - 1) - 1 /\ op.first \in Int /\ k \in Int
          /\ groups[gi].first \in Int /\ groups[gi].last \in Int
      BY <1>2, <1>3, <1>6
    <3> QED BY ONLY <1>4, <3>1
  <2>2. Near(i) BY <1>3, <2>1 DEF NearIn
  <2>3. End(ranges[i + 1]) - op.offset <= splitThreshold BY <2>1 DEF GreedyInv, PackedInv
  <2> QED BY <2>2, <2>3 DEF Fits
<1> QED BY <1>1, <1>2, <1>4, <1>5, <1>6

LEMMA PackGreedy == ASSUME Inv, GreedyInv, Pack PROVE GreedyInv'
<1>1. /\ pc = "split" /\ gi <= Len(groups) /\ k # 0 /\ k <= groups[gi].last /\ k' = k + 1
      /\ gi' = gi /\ UNCHANGED <<args, groups>> /\ pc' = pc
  BY DEF Pack
<1>2. /\ splitThreshold \in Int /\ splitThreshold > 0
      /\ op.first \in Int /\ op.offset \in Int /\ op.end \in Int /\ k \in Int
      /\ 1 <= op.first /\ op.first <= k - 1 /\ k - 1 <= Len(ranges)
      /\ op.offset = ranges[op.first].offset /\ op.end = End(ranges[k - 1])
      /\ Boundary = op.first - 1
      /\ \A i \in op.first .. (k - 1) - 1 : Fits(i, op.offset)
  BY <1>1, PackedFits
<1>3. /\ ranges' = ranges /\ splitThreshold' = splitThreshold /\ ranges \in Seq(ByteRange) /\ op \in Packing
  BY <1>1, SameArgs DEF Inv, Types
<1>4. k \in 1 .. Len(ranges)
  <2>1. groups[gi].last \in Int /\ GoodGroup(ranges, groups[gi], Len(ranges)) BY <1>1, GroupAtHand
  <2>2. groups[gi].last <= Len(ranges) BY <2>1 DEF GoodGroup
  <2>3. /\ k \in Int /\ op.first \in Int /\ Len(ranges) \in Int
        /\ 1 <= op.first /\ op.first <= k - 1 /\ k <= groups[gi].last
    BY <1>1, <1>2, <1>3
  <2> QED BY ONLY <2>1, <2>2, <2>3
<1>5. k' # 0 /\ k' - 2 = k - 1 /\ k - 1 + 1 = k BY <1>1, <1>2
<1>6. End(ranges[k]) \in Nat BY <1>3, <1>4, RangeFields
<1>7. CASE /\ End(ranges[k]) - op.offset > splitThreshold
           /\ Flush(op.first, k - 1, op.offset, op.end)
           /\ op' = [first |-> k, offset |-> ranges[k].offset, end |-> End(ranges[k])]
  <2>1. op'.first = k BY <1>7
  <2>2. ~Fits(k - 1, op.offset)
    <3> DEFINE d == End(ranges[k]) - op.offset
    <3>1. ~(d <= splitThreshold) /\ ~(splitThreshold <= 0)
      <4>1. d \in Int /\ d > splitThreshold BY <1>2, <1>6, <1>7
      <4> HIDE DEF d
      <4> QED BY <1>2, <4>1
    <3> HIDE DEF d
    <3> QED BY <1>5, <3>1 DEF Fits, d
  <2>3. k - 1 \in Int BY <1>2
  <2>4. Greedy(ops', locations', k - 1)
    BY <1>2, <1>7, <2>2, <2>3, FlushStepGreedy
  <2>5. Boundary' = k - 1 BY <1>1, <1>5, <2>1 DEF Boundary
  <2>6. PackedInv' BY <1>2, <1>5, <2>1 DEF PackedInv
  <2> QED BY <1>1, <2>4, <2>5, <2>6, GreedyStep
<1>8. CASE /\ End(ranges[k]) - op.offset <= splitThreshold
           /\ op' = [op EXCEPT !.end = End(ranges[k])]
           /\ UNCHANGED <<ops, locations>>
  <2>1. op'.first = op.first /\ op'.offset = op.offset BY <1>3, <1>8 DEF Packing
  <2>2. Boundary' = op.first - 1 BY <1>1, <1>5, <2>1 DEF Boundary
  <2>3. ASSUME NEW i \in op.first .. k - 1 PROVE End(ranges[i + 1]) - op.offset <= splitThreshold
    <3>1. CASE i = k - 1 BY <1>5, <1>8, <3>1
    <3>2. CASE i # k - 1
      <4>1. i \in op.first .. k - 2 BY <1>2, <3>2
      <4> QED BY <1>1, <4>1 DEF GreedyInv, PackedInv
    <3> QED BY <3>1, <3>2
  <2>4. PackedInv' BY <1>3, <1>5, <2>1, <2>3 DEF PackedInv
  <2>5. Greedy(ops', locations', Boundary') BY <1>2, <1>8, <2>2 DEF GreedyInv
  <2> QED BY <1>1, <2>4, <2>5, GreedyStep
<1> QED BY <1>7, <1>8 DEF Pack

LEMMA EndSplitGreedy == ASSUME Inv, GreedyInv, EndSplit PROVE GreedyInv'
<1> DEFINE last == groups[gi].last
<1>1. /\ pc = "split" /\ gi <= Len(groups) /\ k > last /\ k' = 0 /\ gi' = gi + 1
      /\ Flush(op.first, last, op.offset, op.end)
      /\ UNCHANGED <<args, groups>> /\ groups' = groups /\ pc' = pc
  BY DEF EndSplit
<1>2. /\ last \in Int /\ GoodGroup(ranges, groups[gi], Len(ranges)) /\ groups[gi].first \in Int
      /\ last = IF gi + 1 <= Len(groups) THEN groups[gi + 1].first - 1 ELSE Len(ranges)
      /\ last < Len(ranges) => ~Near(last)
  BY <1>1, GroupAtHand
<1>3. k \in Int /\ 1 <= last /\ k # 0
  <2>1. k \in Int BY DEF Inv, Types
  <2>2. 1 <= last BY <1>2 DEF GoodGroup
  <2> QED BY <1>1, <1>2, <2>1, <2>2
<1>4. /\ op.first \in Int /\ op.offset \in Int /\ op.end \in Int
      /\ 1 <= op.first /\ op.first <= k - 1 /\ k - 1 <= last /\ k - 1 <= Len(ranges)
      /\ op.offset = ranges[op.first].offset /\ op.end = End(ranges[k - 1])
      /\ Boundary = op.first - 1
      /\ \A i \in op.first .. (k - 1) - 1 : Fits(i, op.offset)
  BY <1>3, PackedFits
<1>5. k - 1 = last
  <2>1. k \in Int /\ last \in Int /\ k > last /\ k - 1 <= last BY <1>1, <1>2, <1>3, <1>4
  <2> HIDE DEF last
  <2> QED BY ONLY <2>1
<1>6. Boundary' = last
  <2>1. ranges' = ranges BY <1>1, SameArgs
  <2>2. Boundary' = IF gi + 1 <= Len(groups) THEN groups[gi + 1].first - 1 ELSE Len(ranges)
    BY <1>1, <2>1 DEF Boundary
  <2> QED BY <1>2, <2>2
<1> HIDE DEF last
<1>7. last < Len(ranges) => ~Fits(last, op.offset) BY <1>2 DEF Fits
<1>8. Greedy(ops', locations', last)
  BY <1>1, <1>2, <1>4, <1>5, <1>7, FlushStepGreedy
<1>9. PackedInv' BY <1>1 DEF PackedInv
<1> QED BY <1>1, <1>6, <1>8, <1>9, GreedyStep

LEMMA EndPlanGreedy == ASSUME Inv, GreedyInv, EndPlan \/ UNCHANGED vars PROVE GreedyInv'
<1>1. /\ UNCHANGED <<args, groups>> /\ ranges' = ranges /\ groups' = groups /\ gi' = gi /\ k' = k
      /\ op' = op /\ ops' = ops /\ locations' = locations /\ splitThreshold' = splitThreshold
      /\ pc' = pc \/ (pc = "split" /\ pc' = "done")
  BY DEF EndPlan, vars, args
<1>2. Boundary' = Boundary BY <1>1 DEF Boundary
<1>3. PackedInv' BY <1>1 DEF GreedyInv, PackedInv
<1>4. Greedy(ops', locations', Boundary') BY <1>1, <1>2 DEF GreedyInv
<1> QED BY <1>1, <1>3, <1>4, GreedyStep

LEMMA InitGreedy == ASSUME PlannerAssumption, Init PROVE GreedyInv
<1>1. groups = <<>> /\ ops = <<>> /\ k = 0 /\ pc = "coalesce" BY DEF Init
<1>2. Boundary = 0 BY <1>1 DEF Boundary
<1>3. GroupsInv BY <1>1 DEF GroupsInv
<1>4. PackedInv BY <1>1 DEF PackedInv
<1>5. Greedy(ops, locations, Boundary) BY <1>1, <1>2 DEF Greedy
<1> QED BY <1>3, <1>4, <1>5 DEF GreedyInv

LEMMA StepGreedy == ASSUME Inv, Inv', GreedyInv, [Next]_vars PROVE GreedyInv'
BY CoalesceGreedy, EndCoalesceGreedy, WholeGroupGreedy, StartSplitGreedy, PackGreedy,
   EndSplitGreedy, EndPlanGreedy DEF Next, Done

(* Plan is greedy: when it returns, two neighbours are in one op exactly   *)
(* if their gap may be read and the op is not too long for both, and an op *)
(* starts and ends with a range.                                           *)
THEOREM PlansAreGreedy == Spec => []PlanIsGreedy
<1>1. Init => Inv /\ GreedyInv BY InitInv, InitGreedy, PlannerAssumption
<1>2. Inv /\ GreedyInv /\ [Next]_vars => (Inv /\ GreedyInv)' BY StepInv, StepGreedy
<1>3. ASSUME Inv, GreedyInv PROVE PlanIsGreedy
  <2> SUFFICES ASSUME pc = "done" PROVE PlanIsGreedy BY DEF PlanIsGreedy
  <2>1. /\ ranges \in Seq(ByteRange) /\ ops \in Seq(OpType) /\ groups \in Seq(GroupType)
        /\ gi = Len(groups) + 1 /\ k = 0
    BY <1>3 DEF Inv, Types
  <2>2. Boundary = Len(ranges) BY <2>1 DEF Boundary
  <2>3. Greedy(ops, locations, Len(ranges)) BY <1>3, <2>2 DEF GreedyInv
  <2>4. DOMAIN ranges = 1 .. Len(ranges) /\ DOMAIN ops = 1 .. Len(ops) /\ Len(ranges) \in Nat BY <2>1
  <2>5. ASSUME NEW i \in DOMAIN ranges, i + 1 \in DOMAIN ranges
        PROVE  /\ locations[i + 1].op = locations[i].op \/ locations[i + 1].op = locations[i].op + 1
               /\ locations[i + 1].op = locations[i].op <=> Together(i)
    <3>1. i \in 1 .. Len(ranges) - 1 BY <2>4, <2>5
    <3>2. SharesIn(ops, locations, i) <=> Together(i)
      BY DEF SharesIn, Fits, Near, Together, OpStart
    <3> QED BY <2>3, <3>1, <3>2 DEF Greedy
  <2>6. ASSUME NEW n \in DOMAIN ops
        PROVE  /\ \E i \in DOMAIN ranges : Member(i, n) /\ ops[n].offset = ranges[i].offset
               /\ \E i \in DOMAIN ranges : Member(i, n) /\ ops[n].offset + ops[n].length = End(ranges[i])
    <3>1. n \in 1 .. Len(ops) BY <2>4, <2>6
    <3>2. /\ \E i \in 1 .. Len(ranges) : locations[i].op = n /\ ops[n].offset = ranges[i].offset
          /\ \E i \in 1 .. Len(ranges) :
               locations[i].op = n /\ ops[n].offset + ops[n].length = End(ranges[i])
      BY <2>3, <3>1 DEF Greedy
    <3> QED BY ONLY <2>4, <3>2 DEF Member
  <2> QED BY <2>5, <2>6 DEF PlanIsGreedy
<1> QED BY <1>1, <1>2, <1>3, PTL DEF Spec

(* LoadedBytes.Get: the last range registered at an offset. *)
LEMMA LastRegistered ==
  ASSUME Types, NEW i \in DOMAIN ranges
  PROVE  \E m \in Registered(ranges[i].offset) : \A j \in Registered(ranges[i].offset) : j <= m
<1> DEFINE S == Registered(ranges[i].offset)
<1>1. ranges \in Seq(ByteRange) BY DEF Types
<1>2. S \subseteq Int /\ S # {} /\ Len(ranges) \in Int /\ \A j \in S : j <= Len(ranges)
  BY <1>1 DEF Registered
<1> HIDE DEF S
<1>3. \E m \in S : \A j \in S : j <= m BY <1>2, GreatestExists
<1> QED BY <1>3 DEF S

(* Get finds all the bytes of a range, unless a shorter one follows it at  *)
(* the same offset.                                                        *)
THEOREM GetsCover == Spec => []GetCovers
<1>1. ASSUME Inv, RangesLocated PROVE GetCovers
  <2> SUFFICES ASSUME pc = "done", NEW i \in DOMAIN ranges
               PROVE  /\ Get(ranges[i].offset).offset = ranges[i].offset
                      /\ (\A j \in Registered(ranges[i].offset) : j > i => ranges[j].length >= ranges[i].length)
                           => Get(ranges[i].offset).length >= ranges[i].length
    BY DEF GetCovers
  <2> DEFINE S == Registered(ranges[i].offset)
             m == CHOOSE m \in S : \A j \in S : j <= m
  <2>1. Types BY <1>1 DEF Inv
  <2>2. m \in S /\ \A j \in S : j <= m BY <2>1, LastRegistered
  <2>3. Get(ranges[i].offset)
          = [offset |-> ops[locations[m].op].offset + locations[m].off, length |-> locations[m].length]
    BY DEF Get
  <2>4. i \in S BY DEF Registered
  <2> HIDE DEF m
  <2>5. m \in DOMAIN ranges /\ ranges[m].offset = ranges[i].offset BY <2>2 DEF Registered
  <2>6. Within(m) BY <1>1, <2>5 DEF RangesLocated
  <2>7. /\ Get(ranges[i].offset).offset = ranges[i].offset
        /\ Get(ranges[i].offset).length = ranges[m].length
    BY <2>3, <2>5, <2>6 DEF Within
  <2>8. i \in Int /\ m \in Int /\ i <= m /\ ranges[i].length \in Nat /\ ranges[m].length \in Nat
    <3>1. ranges \in Seq(ByteRange) BY <2>1 DEF Types
    <3>2. i \in 1 .. Len(ranges) /\ m \in 1 .. Len(ranges) BY <2>5, <3>1
    <3> QED BY <2>2, <2>4, <3>1, <3>2, RangeFields
  <2>9. ASSUME \A j \in S : j > i => ranges[j].length >= ranges[i].length
        PROVE  ranges[m].length >= ranges[i].length
    <3>1. CASE m = i BY <2>8, <3>1
    <3>2. CASE m # i BY <2>2, <2>8, <2>9, <3>2
    <3> QED BY <3>1, <3>2
  <2> QED BY <2>7, <2>9
<1> QED BY <1>1, PlannerInv, RangesFound, PTL
=============================================================================
