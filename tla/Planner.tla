------------------------------ MODULE Planner ------------------------------
(***************************************************************************)
(* Plan (go/turbodata/internal/iorange/planner.go, and its ports in        *)
(* py/turbodata/_iorange.py and ts/src/read_planner.ts): byte ranges are   *)
(* coalesced into groups, groups that are too long are split at range      *)
(* boundaries, and every range is told where in the ops it will be found.  *)
(* Then LoadedBytes (loaded.go), which looks ranges up by their offset.    *)
(*                                                                         *)
(* One action per turn of the loops.                                       *)
(***************************************************************************)
EXTENDS Integers, Sequences

CONSTANTS
  Inputs,       \* sequences of ranges callers pass: [offset, length]
  CoalesceGaps, \* values of coalesceGap
  Thresholds    \* values of splitThreshold

ByteRange == [offset : Nat, length : Nat]

(* The precondition of Plan: offsets do not decrease. *)
ASSUME PlannerAssumption ==
  /\ \A s \in Inputs : /\ s \in Seq(ByteRange)
                       /\ \A i, j \in DOMAIN s : i <= j => s[i].offset <= s[j].offset
  /\ CoalesceGaps \subseteq Int /\ Thresholds \subseteq Int

VARIABLES
  ranges, coalesceGap, splitThreshold,   \* the arguments
  pc,         \* "coalesce", "split", "done"
  idx,        \* the range at hand
  groups,     \* [offset, end, first, last]: members are the ranges first .. last
  gi,         \* the group at hand
  k,          \* its member at hand, or 0 before the group is looked at
  op,         \* the op being packed: [first, offset, end]
  ops,        \* [offset, length]
  locations   \* where each range is: [op, off, length]

args == <<ranges, coalesceGap, splitThreshold>>
vars == <<args, pc, idx, groups, gi, k, op, ops, locations>>

End(r) == r.offset + r.length
Group(i) == [offset |-> ranges[i].offset, end |-> End(ranges[i]), first |-> i, last |-> i]
NoOp == [first |-> 0, offset |-> 0, end |-> 0]
NoLocation == [op |-> 0, off |-> 0, length |-> 0]

Init ==
  /\ ranges \in Inputs
  /\ coalesceGap \in CoalesceGaps
  /\ splitThreshold \in Thresholds
  /\ pc = "coalesce"
  /\ idx = 1
  /\ groups = <<>>
  /\ gi = 1
  /\ k = 0
  /\ op = NoOp
  /\ ops = <<>>
  /\ locations = [i \in DOMAIN ranges |-> NoLocation]
-----------------------------------------------------------------------------
(* Mutant: a gap that is all that is allowed joins too. *)
JoinsAtGap(g, r) == r.offset - g.end >= 0 /\ r.offset - g.end <= coalesceGap

(* Does a range join the group: an overlap does not, 0 disables it. *)
Joins(g, r) == r.offset - g.end >= 0 /\ r.offset - g.end < coalesceGap

Extended(g, i) ==
  [offset |-> g.offset, end |-> IF End(ranges[i]) > g.end THEN End(ranges[i]) ELSE g.end,
   first |-> g.first, last |-> i]

(* One turn of the coalesce pass. *)
Coalesce ==
  /\ pc = "coalesce" /\ idx <= Len(ranges)
  /\ LET n == Len(groups)
     IN  groups' = IF n > 0 /\ Joins(groups[n], ranges[idx])
                   THEN [groups EXCEPT ![n] = Extended(@, idx)]
                   ELSE Append(groups, Group(idx))
  /\ idx' = idx + 1
  /\ UNCHANGED <<args, pc, gi, k, op, ops, locations>>

EndCoalesce ==
  /\ pc = "coalesce" /\ idx > Len(ranges)
  /\ pc' = "split"
  /\ UNCHANGED <<args, idx, groups, gi, k, op, ops, locations>>
-----------------------------------------------------------------------------
(* One more op, and the locations of the ranges first .. last in it. *)
Flush(first, last, offset, end) ==
  /\ ops' = Append(ops, [offset |-> offset, length |-> end - offset])
  /\ locations' = [i \in DOMAIN locations |->
                     IF first <= i /\ i <= last
                     THEN [op |-> Len(ops) + 1, off |-> ranges[i].offset - offset,
                           length |-> ranges[i].length]
                     ELSE locations[i]]

FitsInOne(g) == splitThreshold <= 0 \/ g.end - g.offset <= splitThreshold

WholeGroup ==
  /\ pc = "split" /\ gi <= Len(groups) /\ k = 0
  /\ LET g == groups[gi] IN FitsInOne(g) /\ Flush(g.first, g.last, g.offset, g.end)
  /\ gi' = gi + 1
  /\ UNCHANGED <<args, pc, idx, groups, k, op>>

StartSplit ==
  /\ pc = "split" /\ gi <= Len(groups) /\ k = 0
  /\ LET first == groups[gi].first
     IN  /\ ~FitsInOne(groups[gi])
         /\ op' = [first |-> first, offset |-> ranges[first].offset, end |-> End(ranges[first])]
         /\ k' = first + 1
  /\ UNCHANGED <<args, pc, idx, groups, gi, ops, locations>>

(* Mutants: the length of the op is not counted from its start; the op     *)
(* that was cut goes on from its old start.                                *)
PackByMember ==
  /\ pc = "split" /\ gi <= Len(groups) /\ k # 0 /\ k <= groups[gi].last
  /\ \/ /\ ranges[k].length > splitThreshold
        /\ Flush(op.first, k - 1, op.offset, op.end)
        /\ op' = [first |-> k, offset |-> ranges[k].offset, end |-> End(ranges[k])]
     \/ /\ ranges[k].length <= splitThreshold
        /\ op' = [op EXCEPT !.end = End(ranges[k])]
        /\ UNCHANGED <<ops, locations>>
  /\ k' = k + 1
  /\ UNCHANGED <<args, pc, idx, groups, gi>>
PackFromOldStart ==
  /\ pc = "split" /\ gi <= Len(groups) /\ k # 0 /\ k <= groups[gi].last
  /\ \/ /\ End(ranges[k]) - op.offset > splitThreshold
        /\ Flush(op.first, k - 1, op.offset, op.end)
        /\ op' = [op EXCEPT !.offset = ranges[k].offset, !.end = End(ranges[k])]
     \/ /\ End(ranges[k]) - op.offset <= splitThreshold
        /\ op' = [op EXCEPT !.end = End(ranges[k])]
        /\ UNCHANGED <<ops, locations>>
  /\ k' = k + 1
  /\ UNCHANGED <<args, pc, idx, groups, gi>>

(* Greedy packing: the op is cut before the member that would make it too  *)
(* long.                                                                   *)
Pack ==
  /\ pc = "split" /\ gi <= Len(groups) /\ k # 0 /\ k <= groups[gi].last
  /\ \/ /\ End(ranges[k]) - op.offset > splitThreshold
        /\ Flush(op.first, k - 1, op.offset, op.end)
        /\ op' = [first |-> k, offset |-> ranges[k].offset, end |-> End(ranges[k])]
     \/ /\ End(ranges[k]) - op.offset <= splitThreshold
        /\ op' = [op EXCEPT !.end = End(ranges[k])]
        /\ UNCHANGED <<ops, locations>>
  /\ k' = k + 1
  /\ UNCHANGED <<args, pc, idx, groups, gi>>

EndSplit ==
  /\ pc = "split" /\ gi <= Len(groups) /\ k > groups[gi].last
  /\ Flush(op.first, groups[gi].last, op.offset, op.end)
  /\ gi' = gi + 1
  /\ k' = 0
  /\ op' = NoOp
  /\ UNCHANGED <<args, pc, idx, groups>>

EndPlan ==
  /\ pc = "split" /\ gi > Len(groups)
  /\ pc' = "done"
  /\ UNCHANGED <<args, idx, groups, gi, k, op, ops, locations>>

Done == pc = "done" /\ UNCHANGED vars

Next == Coalesce \/ EndCoalesce \/ WholeGroup \/ StartSplit \/ Pack \/ EndSplit \/ EndPlan \/ Done

Spec == Init /\ [][Next]_vars
-----------------------------------------------------------------------------
(* LoadedBytes: the index maps an offset to the last range registered at   *)
(* it.  Get answers with the bytes [offset, length] of the file, when op n *)
(* was read at ops[n].                                                     *)
Registered(offset) == {i \in DOMAIN ranges : ranges[i].offset = offset}

(* Mutant: the first range registered at the offset is kept. *)
GetFirst(offset) ==
  LET i == CHOOSE i \in Registered(offset) : \A j \in Registered(offset) : i <= j
  IN  [offset |-> ops[locations[i].op].offset + locations[i].off, length |-> locations[i].length]

Get(offset) ==
  LET i == CHOOSE i \in Registered(offset) : \A j \in Registered(offset) : j <= i
  IN  [offset |-> ops[locations[i].op].offset + locations[i].off, length |-> locations[i].length]
-----------------------------------------------------------------------------
Member(i, n) == locations[i].op = n

(* A located range is entirely in the op it is located in, at its place:   *)
(* the buffers that are returned hold the bytes that were asked for.       *)
Within(i) ==
  LET loc == locations[i] IN
    /\ loc.op \in DOMAIN ops
    /\ loc.off >= 0 /\ loc.off + loc.length <= ops[loc.op].length
    /\ ops[loc.op].offset + loc.off = ranges[i].offset
    /\ loc.length = ranges[i].length

RangesLocated ==
  \A i \in DOMAIN ranges : locations[i] # NoLocation \/ pc = "done" => Within(i)

(* What the comment on Plan promises of splitThreshold: an op above it is  *)
(* one range, which is never divided.  (DESIGN.md says the opposite: a     *)
(* range larger than SplitThreshold is split into parallel sub-reads.      *)
(* Plan does not, and its callers do not either.)                          *)
OversizeIsAtomic ==
  splitThreshold > 0 =>
    \A n \in DOMAIN ops : ops[n].length > splitThreshold =>
      \A i, j \in DOMAIN ranges : Member(i, n) /\ Member(j, n) => i = j

(* The plan reads what a reference definition says: two neighbours are in  *)
(* the same op exactly if their gap is allowed and the op they would share *)
(* is not too long; nothing is read but the ranges and those gaps.         *)
OpStart(i) == ops[locations[i].op].offset
Together(i) ==
  /\ ranges[i + 1].offset - End(ranges[i]) \in 0 .. coalesceGap - 1
  /\ \/ splitThreshold <= 0
     \/ End(ranges[i + 1]) - OpStart(i) <= splitThreshold
PlanIsGreedy ==
  pc = "done" =>
    /\ \A i \in DOMAIN ranges : i + 1 \in DOMAIN ranges =>
         /\ locations[i + 1].op = locations[i].op \/ locations[i + 1].op = locations[i].op + 1
         /\ locations[i + 1].op = locations[i].op <=> Together(i)
    /\ \A n \in DOMAIN ops :
         /\ \E i \in DOMAIN ranges : Member(i, n) /\ ops[n].offset = ranges[i].offset
         /\ \E i \in DOMAIN ranges : Member(i, n) /\ ops[n].offset + ops[n].length = End(ranges[i])

(* Get finds all the bytes of a range: what is registered at its offset    *)
(* starts with them.  A shorter range before a longer one at the same      *)
(* offset finds more than its own bytes.                                   *)
GetCovers ==
  pc = "done" =>
    \A i \in DOMAIN ranges :
      /\ Get(ranges[i].offset).offset = ranges[i].offset
      /\ (\A j \in Registered(ranges[i].offset) : j > i => ranges[j].length >= ranges[i].length)
           => Get(ranges[i].offset).length >= ranges[i].length
=============================================================================
