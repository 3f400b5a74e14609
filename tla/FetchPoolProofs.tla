-------------------------- MODULE FetchPoolProofs --------------------------
(* Proofs about FetchPool, for every number of ops and any maxConcurrency. *)
EXTENDS FetchPool, FiniteSetTheorems, TLAPS

Errors == {F!Error(i) : i \in Ops}

TypeOK ==
  /\ pc \in {"start", "awaiting", "returned"}
  /\ nextIdx \in Nat \ {0}
  /\ at \in [Pool -> 0 .. N]
  /\ out \in [Ops -> {"empty", "full", "failed"}]
  /\ firstErr \in Errors \cup {NoErr}

(* nextIdx separates the ops that were asked for from the others, and each *)
(* op in progress is that of one runOne.                                   *)
HandedOut ==
  /\ \A w \in Pool : at[w] # 0 => at[w] < nextIdx /\ out[at[w]] = "empty"
  /\ \A v, w \in Pool : at[v] # 0 /\ at[v] = at[w] => v = w
  /\ \A i \in Ops : i >= nextIdx => out[i] = "empty"
  /\ \A i \in Ops : i < nextIdx /\ out[i] = "empty" => i \in Awaited

(* The error kept is that of a read which failed; every failure leaves one.*)
ErrorKept ==
  /\ \A i \in Ops : out[i] = "failed" => firstErr # NoErr
  /\ \A i \in Ops : firstErr = F!Error(i) => out[i] = "failed"

(* A runOne that has returned saw an error or the end of the ops. *)
Returned ==
  /\ pc = "start" => nextIdx = 1 /\ \A w \in Pool : at[w] = 0
  /\ pc # "start" => \A w \in Pool : at[w] = 0 => firstErr # NoErr \/ nextIdx > N

Answered ==
  /\ pc # "returned" => result = F!Pending
  /\ pc = "returned" => \A w \in Pool : at[w] = 0

Inv == TypeOK /\ HandedOut /\ ErrorKept /\ Returned /\ Answered

LEMMA PoolSize ==
  ASSUME FetchPoolInput
  PROVE  /\ Workers \in Nat \ {0}
         /\ Pool \subseteq Ops /\ 1 \in Pool /\ IsFiniteSet(Pool)
         /\ Cardinality(Pool) \in Nat /\ Cardinality(Pool) <= Workers
         /\ Pool = 1 .. Cardinality(Pool) /\ Cardinality(Pool) <= N
<1>1. Workers \in Nat \ {0} BY DEF Workers, FetchPoolInput
<1> DEFINE m == IF Workers < N THEN Workers ELSE N
<1>2. m \in Nat \ {0} /\ m <= N /\ m <= Workers BY <1>1 DEF FetchPoolInput
<1>3. Pool = 1 .. m BY DEF Pool
<1> HIDE DEF m
<1>4. IsFiniteSet(1 .. m) /\ Cardinality(1 .. m) = m BY <1>2, FS_Interval
<1> QED BY <1>1, <1>2, <1>3, <1>4 DEF Ops, FetchPoolInput

LEMMA Answers ==
  /\ \A i \in Ops : F!Error(i) # NoErr /\ F!Error(i) # F!Pending
  /\ F!Ok # F!Pending /\ F!Ok # NoErr
  /\ \A i, j \in Ops : F!Error(i) = F!Error(j) => i = j
BY DEF F!Error, F!Pending, F!Ok, NoErr

LEMMA InitInv == ASSUME FetchPoolInput, Init PROVE Inv
<1>1. TypeOK BY DEF Init, TypeOK, FetchPoolInput
<1>2. HandedOut BY DEF Init, HandedOut, Ops, FetchPoolInput
<1>3. ErrorKept BY Answers DEF Init, ErrorKept
<1>4. Returned /\ Answered BY DEF Init, Returned, Answered
<1> QED BY <1>1, <1>2, <1>3, <1>4 DEF Inv

LEMMA BeginInv == ASSUME FetchPoolInput, Inv, Begin PROVE Inv'
<1>1. /\ pc = "start" /\ pc' = "awaiting" /\ at' = [w \in Pool |-> w]
      /\ nextIdx' = Cardinality(Pool) + 1 /\ UNCHANGED <<out, firstErr, result>>
  BY DEF Begin
<1>2. nextIdx = 1 /\ \A i \in Ops : out[i] = "empty"
  BY <1>1 DEF Inv, Returned, HandedOut, Ops, FetchPoolInput
<1>3. TypeOK' BY <1>1, PoolSize DEF Inv, TypeOK, Ops
<1>4. HandedOut'
  <2>1. \A i \in Ops : i < nextIdx' => i \in Pool BY <1>1, PoolSize DEF Ops
  <2>2. \A w \in Pool : at'[w] = w /\ w # 0 /\ w < nextIdx' /\ out'[w] = "empty"
    BY <1>1, <1>2, PoolSize DEF Ops
  <2>3. \A w \in Pool : w \in Awaited' BY <2>2 DEF Awaited
  <2> QED BY <1>1, <1>2, <2>1, <2>2, <2>3 DEF HandedOut
<1>5. ErrorKept' BY <1>1 DEF Inv, ErrorKept
<1>6. Returned' /\ Answered' BY <1>1, PoolSize DEF Inv, Returned, Answered, Ops
<1> QED BY <1>3, <1>4, <1>5, <1>6 DEF Inv

(* What a turn of runOne w leaves: its op is over, the others are still in *)
(* progress, and it may have taken the next one.                           *)
LEMMA TurnHands ==
  ASSUME FetchPoolInput, Inv, NEW w \in Pool, at[w] # 0, NEW s \in {"full", "failed"},
         out' = [out EXCEPT ![at[w]] = s],
         \/ nextIdx' = nextIdx + 1 /\ at' = [at EXCEPT ![w] = IF nextIdx <= N THEN nextIdx ELSE 0]
         \/ nextIdx' = nextIdx /\ at' = [at EXCEPT ![w] = 0]
  PROVE  HandedOut' /\ nextIdx' \in Nat \ {0} /\ at' \in [Pool -> 0 .. N]
         /\ out' \in [Ops -> {"empty", "full", "failed"}] /\ at[w] \in Ops
<1>1. /\ at \in [Pool -> 0 .. N] /\ out \in [Ops -> {"empty", "full", "failed"}]
      /\ nextIdx \in Nat \ {0} /\ at[w] \in Ops /\ N \in Nat \ {0}
  BY DEF Inv, TypeOK, Ops, FetchPoolInput
<1>2. nextIdx' \in Nat \ {0} /\ at' \in [Pool -> 0 .. N] /\ out' \in [Ops -> {"empty", "full", "failed"}]
  BY <1>1
<1>3. \A v \in Pool : v # w => at'[v] = at[v] BY <1>1
<1>4. at'[w] = 0 \/ (at'[w] = nextIdx /\ nextIdx <= N /\ nextIdx' = nextIdx + 1) BY <1>1
<1>5. nextIdx' >= nextIdx BY <1>1
<1>6. at[w] < nextIdx BY DEF Inv, HandedOut
<1>7. \A i \in Ops : out'[i] = IF i = at[w] THEN s ELSE out[i] BY <1>1
<1>8. \A v \in Pool : at'[v] # 0 => at'[v] < nextIdx' /\ out'[at'[v]] = "empty"
  <2> SUFFICES ASSUME NEW v \in Pool, at'[v] # 0 PROVE at'[v] < nextIdx' /\ out'[at'[v]] = "empty"
    OBVIOUS
  <2>1. CASE v = w
    <3>1. at'[v] = nextIdx /\ nextIdx \in Ops /\ nextIdx' = nextIdx + 1 BY <1>1, <1>4, <2>1 DEF Ops
    <3>2. out[nextIdx] = "empty" BY <1>1, <3>1 DEF Inv, HandedOut
    <3> QED BY <1>1, <1>6, <1>7, <3>1, <3>2 DEF Ops
  <2>2. CASE v # w
    <3>1. at'[v] = at[v] /\ at[v] # at[w] /\ at[v] \in Ops
      BY <1>1, <1>3, <2>2 DEF Inv, HandedOut, Ops
    <3>2. at[v] < nextIdx /\ out[at[v]] = "empty" BY <3>1 DEF Inv, HandedOut, Ops
    <3> QED BY <1>1, <1>2, <1>5, <1>7, <3>1, <3>2 DEF Ops
  <2> QED BY <2>1, <2>2
<1>9. \A u, v \in Pool : at'[u] # 0 /\ at'[u] = at'[v] => u = v
  <2>1. \A v \in Pool : v # w /\ at'[v] # 0 => at'[v] < nextIdx BY <1>3 DEF Inv, HandedOut
  <2> QED BY <1>1, <1>3, <1>4, <2>1 DEF Inv, HandedOut
<1>10. \A i \in Ops : i >= nextIdx' => out'[i] = "empty"
  BY <1>1, <1>2, <1>5, <1>6, <1>7 DEF Inv, HandedOut, Ops
<1>11. ASSUME NEW i \in Ops, i < nextIdx', out'[i] = "empty" PROVE i \in Awaited'
  <2>1. i # at[w] /\ out[i] = "empty" BY <1>7, <1>11
  <2>2. CASE i < nextIdx
    <3>1. i \in Awaited BY <2>1, <2>2 DEF Inv, HandedOut
    <3>2. PICK v \in Pool : at[v] = i /\ i # 0 BY <3>1 DEF Awaited
    <3>3. at'[v] = i BY <1>3, <2>1, <3>2
    <3> QED BY <3>2, <3>3 DEF Awaited
  <2>3. CASE i >= nextIdx
    <3>1. i = nextIdx /\ nextIdx' = nextIdx + 1 BY <1>1, <1>11, <2>3 DEF Ops
    <3>2. at'[w] = i /\ i # 0 BY <1>1, <3>1 DEF Ops
    <3> QED BY <3>2 DEF Awaited
  <2> QED BY <1>1, <2>2, <2>3 DEF Ops
<1> QED BY <1>1, <1>2, <1>8, <1>9, <1>10, <1>11 DEF HandedOut

LEMMA FullInv == ASSUME FetchPoolInput, Inv, NEW w \in Pool, Full(w) PROVE Inv'
<1>1. /\ at[w] # 0 /\ out' = [out EXCEPT ![at[w]] = "full"] /\ firstErr' = firstErr
      /\ UNCHANGED <<pc, result>>
  BY DEF Full
<1>2. \/ firstErr = NoErr /\ nextIdx' = nextIdx + 1
         /\ at' = [at EXCEPT ![w] = IF nextIdx <= N THEN nextIdx ELSE 0]
      \/ firstErr # NoErr /\ nextIdx' = nextIdx /\ at' = [at EXCEPT ![w] = 0]
  BY DEF Full, GoesOn
<1>3. /\ HandedOut' /\ nextIdx' \in Nat \ {0} /\ at' \in [Pool -> 0 .. N]
      /\ out' \in [Ops -> {"empty", "full", "failed"}] /\ at[w] \in Ops
  BY <1>1, <1>2, TurnHands
<1>4. TypeOK' BY <1>1, <1>3 DEF Inv, TypeOK
<1>5. out[at[w]] = "empty" BY <1>1 DEF Inv, HandedOut
<1>6. ErrorKept' BY <1>1, <1>3, <1>5 DEF Inv, TypeOK, ErrorKept
<1>7. pc = "awaiting" BY <1>1 DEF Inv, TypeOK, Returned, Answered
<1>8. Returned'
  <2>1. nextIdx \in Nat \ {0} /\ N \in Nat /\ at \in [Pool -> 0 .. N]
    BY DEF Inv, TypeOK, FetchPoolInput
  <2>2. ASSUME NEW v \in Pool, at'[v] = 0 PROVE firstErr' # NoErr' \/ nextIdx' > N
    <3>1. CASE v = w BY <1>1, <1>2, <2>1, <2>2, <3>1 DEF NoErr, F!Pending
    <3>2. CASE v # w
      <4>1. at[v] = 0 /\ nextIdx' >= nextIdx BY <1>2, <2>1, <2>2, <3>2
      <4> QED BY <1>1, <1>3, <1>7, <2>1, <4>1 DEF Inv, Returned, NoErr, F!Pending
    <3> QED BY <3>1, <3>2
  <2> QED BY <1>1, <1>7, <2>2 DEF Returned
<1>9. Answered' BY <1>1, <1>7 DEF Inv, Answered
<1> QED BY <1>3, <1>4, <1>6, <1>8, <1>9 DEF Inv

LEMMA FailedInv == ASSUME FetchPoolInput, Inv, NEW w \in Pool, Failed(w) PROVE Inv'
<1>1. /\ at[w] # 0 /\ out' = [out EXCEPT ![at[w]] = "failed"]
      /\ firstErr' = IF firstErr = NoErr THEN F!Error(at[w]) ELSE firstErr
      /\ at' = [at EXCEPT ![w] = 0] /\ UNCHANGED <<pc, nextIdx, result>>
  BY DEF Failed
<1>2. /\ HandedOut' /\ at' \in [Pool -> 0 .. N]
      /\ out' \in [Ops -> {"empty", "full", "failed"}] /\ at[w] \in Ops
  BY <1>1, TurnHands
<1>3. TypeOK' BY <1>1, <1>2 DEF Inv, TypeOK, Errors
<1>4. firstErr' # NoErr BY <1>1, <1>2, Answers
<1>5. \A i \in Ops : firstErr' = F!Error(i) => out'[i] = "failed"
  BY <1>1, <1>2, Answers DEF Inv, TypeOK, ErrorKept
<1>6. ErrorKept' BY <1>4, <1>5 DEF ErrorKept
<1>7. pc = "awaiting" BY <1>1 DEF Inv, TypeOK, Returned, Answered
<1>8. Returned' /\ Answered' BY <1>1, <1>4, <1>7 DEF Inv, Returned, Answered
<1> QED BY <1>2, <1>3, <1>6, <1>8 DEF Inv

LEMMA NextInv == ASSUME FetchPoolInput, Inv, [Next]_vars PROVE Inv'
<1>1. CASE Begin BY <1>1, BeginInv
<1>2. CASE \E w \in Pool : Turn(w) BY <1>2, FullInv, FailedInv DEF Turn
<1>3. CASE Await
  BY <1>3 DEF Await, Inv, TypeOK, HandedOut, Awaited, ErrorKept, Returned, Answered
<1>4. CASE UNCHANGED vars
  BY <1>4 DEF vars, Inv, TypeOK, HandedOut, Awaited, ErrorKept, Returned, Answered
<1> QED BY <1>1, <1>2, <1>3, <1>4 DEF Next, Step, Done

LEMMA Invariance == ASSUME FetchPoolInput PROVE Spec => []Inv
<1>1. Init => Inv BY InitInv
<1>2. Inv /\ [Next]_vars => Inv' BY NextInv
<1> QED BY <1>1, <1>2, PTL DEF Spec

(* Once a read has failed no other one is started: the index moves only    *)
(* when firstErr is still not set after the read that ended.               *)
THEOREM Stops == ASSUME FetchPoolInput PROVE Spec => TsStopsAfterError
<1>1. ASSUME Inv, Next, firstErr # NoErr PROVE nextIdx' = nextIdx
  <2>1. CASE Begin
    <3>1. PICK i \in Ops : firstErr = F!Error(i) BY <1>1 DEF Inv, TypeOK, Errors
    <3>2. out[i] = "failed" BY <1>1, <3>1 DEF Inv, ErrorKept
    <3>3. out[i] = "empty" BY <1>1, <2>1 DEF Begin, Inv, Returned, HandedOut, Ops
    <3> QED BY <3>2, <3>3
  <2>2. CASE \E w \in Pool : Turn(w) BY <1>1, <2>2 DEF Turn, Full, Failed, GoesOn
  <2>3. CASE Await \/ Done BY <2>3 DEF Await, Done, vars
  <2> QED BY <1>1, <2>1, <2>2, <2>3 DEF Next, Step
<1>2. Inv /\ [Next]_vars => [firstErr # NoErr => nextIdx' = nextIdx]_vars BY <1>1
<1> QED BY <1>2, Invariance, PTL DEF Spec, TsStopsAfterError
-----------------------------------------------------------------------------
(* fetchAll implements Fetch. *)

LEMMA SameCardinality == ASSUME NEW S PROVE F!Cardinality(S) = Cardinality(S)
BY DEF F!Cardinality, Cardinality

(* A runOne awaits one read at a time, so the reads in progress are at     *)
(* most as many as the pool.                                               *)
LEMMA AwaitedBounded ==
  ASSUME FetchPoolInput, NEW a, NEW A, A = {a[w] : w \in Pool} \ {0}
  PROVE  IsFiniteSet(A) /\ Cardinality(A) \in Nat /\ Cardinality(A) <= Workers
<1> DEFINE P == {w \in Pool : a[w] # 0}
           f == [w \in P |-> a[w]]
<1>1. P \in SUBSET Pool OBVIOUS
<1>2. IsFiniteSet(P) /\ Cardinality(P) <= Cardinality(Pool) BY <1>1, PoolSize, FS_Subset
<1>3. A = {a[w] : w \in P} OBVIOUS
<1>4. f \in Surjection(P, A) BY <1>3 DEF Surjection
<1>5. IsFiniteSet(A) /\ Cardinality(A) <= Cardinality(P)
  <2> HIDE DEF P, f
  <2> QED BY <1>2, <1>4, FS_Surjection
<1>6. Cardinality(A) \in Nat /\ Cardinality(P) \in Nat BY <1>2, <1>5, FS_CardinalityType
<1> HIDE DEF P
<1> QED BY <1>2, <1>5, <1>6, PoolSize

LEMMA ReadsBounded ==
  ASSUME FetchPoolInput, Inv'
  PROVE  F!Cardinality({i \in Ops : Reads'[i] = "reading"}) <= Workers
<1> DEFINE S == {i \in Ops : Reads'[i] = "reading"}
<1>1. S \in SUBSET Awaited'
  <2>1. ASSUME NEW i \in Ops, i \notin Awaited' PROVE Reads'[i] # "reading"
    <3>1. Reads'[i] = IF out'[i] = "empty" THEN "unread" ELSE out'[i] BY <2>1 DEF Reads
    <3> QED BY <3>1 DEF Inv, TypeOK
  <2> QED BY <2>1
<1>2. Awaited' = {at'[w] : w \in Pool} \ {0} BY DEF Awaited
<1>3. IsFiniteSet(Awaited') /\ Cardinality(Awaited') \in Nat /\ Cardinality(Awaited') <= Workers
  BY <1>2, AwaitedBounded
<1>4. Cardinality(S) <= Cardinality(Awaited') /\ IsFiniteSet(S) BY <1>1, <1>3, FS_Subset
<1>5. Cardinality(S) \in Nat BY <1>4, FS_CardinalityType
<1>6. F!Cardinality(S) = Cardinality(S) BY SameCardinality
<1> HIDE DEF S
<1>7. Cardinality(S) <= Workers BY <1>3, <1>4, <1>5, PoolSize
<1> QED BY <1>6, <1>7 DEF S

(* What a read looks like from nextIdx and out. *)
LEMMA ReadsOf ==
  ASSUME FetchPoolInput, Inv, NEW i \in Ops
  PROVE  Reads[i] = IF i >= nextIdx THEN "unread"
                    ELSE IF out[i] = "empty" THEN "reading" ELSE out[i]
<1>1. nextIdx \in Nat /\ i \in Nat BY DEF Inv, TypeOK, Ops
<1>2. i \in Awaited <=> i < nextIdx /\ out[i] = "empty" BY DEF Awaited, Inv, HandedOut
<1>3. i >= nextIdx => out[i] = "empty" BY DEF Inv, HandedOut
<1>4. Reads[i] = IF i \in Awaited THEN "reading" ELSE IF out[i] = "empty" THEN "unread" ELSE out[i]
  BY DEF Reads
<1> QED BY <1>1, <1>2, <1>3, <1>4

LEMMA AdvanceRefines ==
  ASSUME FetchPoolInput, Inv, Inv', pc # "returned", result' = result,
         \A i \in Ops : <<Reads[i], Reads'[i]>> \in F!Moves
  PROVE  F!Advance
<1>1. result = F!Pending BY DEF Inv, Answered
<1>2. Reads' \in [Ops -> F!States] BY DEF Reads, Inv, TypeOK, F!States
<1>3. F!Cardinality({j \in Ops : Reads'[j] = "reading"}) <= Workers BY ReadsBounded
<1> QED BY <1>1, <1>2, <1>3 DEF F!Advance

LEMMA BeginRefines == ASSUME FetchPoolInput, Inv, Inv', Begin PROVE F!Advance
<1>1. pc = "start" /\ UNCHANGED <<out, result>> BY DEF Begin
<1>2. ASSUME NEW i \in Ops PROVE <<Reads[i], Reads'[i]>> \in F!Moves
  <2>1. nextIdx = 1 /\ nextIdx <= i /\ out[i] = "empty" BY <1>1 DEF Inv, Returned, HandedOut, Ops
  <2>2. Reads[i] = "unread" BY <2>1, ReadsOf DEF Inv, TypeOK, Ops
  <2>3. Reads'[i] \in {"unread", "reading"} BY <1>1, <2>1 DEF Reads
  <2> QED BY <2>2, <2>3 DEF F!Moves, F!States
<1> QED BY <1>1, <1>2, AdvanceRefines

LEMMA TurnRefines == ASSUME FetchPoolInput, Inv, Inv', NEW w \in Pool, Turn(w) PROVE F!Advance
<1>1. at[w] # 0 /\ result' = result /\ (nextIdx' = nextIdx \/ nextIdx' = nextIdx + 1)
  BY DEF Turn, Full, Failed, GoesOn
<1>2. PICK s \in {"full", "failed"} : out' = [out EXCEPT ![at[w]] = s]
  BY DEF Turn, Full, Failed
<1>3. /\ at[w] \in Ops /\ nextIdx \in Nat /\ nextIdx' \in Nat
      /\ out \in [Ops -> {"empty", "full", "failed"}]
  BY <1>1 DEF Inv, TypeOK, Ops, FetchPoolInput
<1>4. out[at[w]] = "empty" /\ at[w] < nextIdx BY <1>1 DEF Inv, HandedOut
<1>5. ASSUME NEW i \in Ops PROVE <<Reads[i], Reads'[i]>> \in F!Moves
  <2>1. i \in Nat /\ at[w] \in Nat BY <1>3 DEF Ops
  <2>2. Reads[i] = IF i >= nextIdx THEN "unread" ELSE IF out[i] = "empty" THEN "reading" ELSE out[i]
    BY ReadsOf
  <2>3. Reads'[i] = IF i >= nextIdx' THEN "unread" ELSE IF out'[i] = "empty" THEN "reading" ELSE out'[i]
    <3>1. i \in Awaited' <=> i < nextIdx' /\ out'[i] = "empty" BY DEF Awaited, Inv, HandedOut
    <3>2. i >= nextIdx' => out'[i] = "empty" BY DEF Inv, HandedOut
    <3>3. Reads'[i] = IF i \in Awaited' THEN "reading" ELSE IF out'[i] = "empty" THEN "unread" ELSE out'[i]
      BY DEF Reads
    <3> QED BY <1>3, <2>1, <3>1, <3>2, <3>3
  <2>4. CASE i = at[w]
    <3>1. Reads[i] = "reading" /\ Reads'[i] = s BY <1>1, <1>2, <1>3, <1>4, <2>1, <2>2, <2>3, <2>4
    <3> QED BY <3>1 DEF F!Moves
  <2>5. CASE i # at[w]
    <3>1. out'[i] = out[i] BY <1>2, <1>3, <2>5
    <3>2. Reads'[i] = Reads[i] \/ (Reads[i] = "unread" /\ Reads'[i] \in {"reading", "unread"})
      <4>1. i >= nextIdx => out[i] = "empty" BY DEF Inv, HandedOut
      <4> QED BY <1>1, <1>3, <2>1, <2>2, <2>3, <3>1, <4>1
    <3>3. Reads[i] \in F!States BY <1>3, <2>2 DEF F!States
    <3> QED BY <3>2, <3>3 DEF F!Moves, F!States
  <2> QED BY <2>4, <2>5
<1>6. pc # "returned" BY <1>1 DEF Inv, Answered
<1> QED BY <1>1, <1>5, <1>6, AdvanceRefines

LEMMA AwaitRefines ==
  ASSUME FetchPoolInput, Inv, Await
  PROVE  \E answer \in {F!Ok, F!Canceled} \cup {F!Error(i) : i \in Ops} : F!Return(answer)
<1>1. /\ pc = "awaiting" /\ \A w \in Pool : at[w] = 0
      /\ result' = IF firstErr = NoErr THEN F!Ok ELSE firstErr
      /\ UNCHANGED <<at, out>>
  BY DEF Await
<1>2. Awaited = {} BY <1>1 DEF Awaited
<1>3. Reads = [i \in Ops |-> IF out[i] = "empty" THEN "unread" ELSE out[i]] BY <1>2 DEF Reads
<1>4. F!Reading = {} BY <1>3 DEF F!Reading, Inv, TypeOK
<1>5. result = F!Pending /\ Reads' = Reads BY <1>1 DEF Inv, Answered, Reads, Awaited
<1>6. CASE firstErr = NoErr
  <2>1. nextIdx > N BY <1>1, <1>6, PoolSize DEF Inv, Returned
  <2>2. ASSUME NEW i \in Ops PROVE Reads[i] = "full"
    <3>1. i < nextIdx BY <2>1 DEF Ops, Inv, TypeOK, FetchPoolInput
    <3>2. out[i] # "empty" BY <1>2, <3>1 DEF Inv, HandedOut
    <3>3. out[i] # "failed" BY <1>6 DEF Inv, ErrorKept
    <3> QED BY <1>3, <3>2, <3>3 DEF Inv, TypeOK
  <2>3. F!Return(F!Ok) BY <1>1, <1>4, <1>5, <1>6, <2>2 DEF F!Return
  <2> QED BY <2>3
<1>7. CASE firstErr \in Errors
  <2>1. PICK i \in Ops : firstErr = F!Error(i) BY <1>7 DEF Errors
  <2>2. Reads[i] = "failed" BY <1>3, <2>1 DEF Inv, ErrorKept
  <2>3. result' = F!Error(i) BY <1>1, <2>1, Answers
  <2>4. F!Return(F!Error(i)) BY <1>4, <1>5, <2>2, <2>3 DEF F!Return
  <2> QED BY <2>4
<1> QED BY <1>6, <1>7 DEF Inv, TypeOK

LEMMA NextRefines == ASSUME FetchPoolInput, Inv, [Next]_vars PROVE [F!Next]_(F!vars)
<1>1. Inv' BY NextInv
<1>2. CASE Begin BY <1>1, <1>2, BeginRefines DEF F!Next
<1>3. CASE \E w \in Pool : Turn(w) BY <1>1, <1>3, TurnRefines DEF F!Next
<1>4. CASE Await BY <1>4, AwaitRefines DEF F!Next
<1>5. CASE UNCHANGED vars BY <1>5 DEF vars, F!vars, Reads, Awaited
<1> QED BY <1>2, <1>3, <1>4, <1>5 DEF Next, Step, Done

(* fetchAll implements Fetch: never more reads in progress than asked for, *)
(* an answer only when none is, all the buffers only if all are complete,  *)
(* and otherwise the error of a read that failed.                          *)
THEOREM Refinement == ASSUME FetchPoolInput PROVE Spec => TsImplementsFetch
<1>1. Init => F!Init BY DEF Init, F!Init, Reads, Awaited
<1>2. Inv /\ [Next]_vars => [F!Next]_(F!vars) BY NextRefines
<1> QED BY <1>1, <1>2, Invariance, PTL DEF Spec, F!Spec, TsImplementsFetch
=============================================================================
