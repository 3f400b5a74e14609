-------------------------- MODULE PyFetcherProofs --------------------------
(* Proofs about PyFetcher, for every number of ops and of workers. *)
EXTENDS PyFetcher, FiniteSetTheorems, TLAPS

Futures == {"none", "pending", "running", "full", "failed", "cancelled"}

Active == In({"running"})

TypeOK ==
  /\ pc \in {"serial", "submit", "wait", "cancel", "shutdown", "returned"}
  /\ future \in [Ops -> Futures]
  /\ notDone \subseteq Ops
  /\ raised \in 0 .. N

(* The threads of the pool are the workers; the serial path has no pool. *)
Bounded ==
  /\ Cardinality(Active) <= Workers
  /\ pc = "serial" => In({"pending", "cancelled"}) = {}

(* What the caller raises happened, and what it does not raise did not. *)
Raised ==
  /\ raised # 0 => future[raised] = "failed"
  /\ pc = "cancel" => raised # 0
  /\ pc = "shutdown" /\ raised = 0 => In({"full"}) = Ops

Answered ==
  /\ pc # "returned" => result = F!Pending
  /\ pc = "returned" => In({"pending", "running"}) = {}

Inv == TypeOK /\ Bounded /\ Raised /\ Answered

LEMMA ActiveFinite ==
  ASSUME PyFetcherInput, NEW S \in SUBSET Ops
  PROVE  IsFiniteSet(S) /\ Cardinality(S) \in Nat
<1>1. IsFiniteSet(Ops) BY FS_Interval DEF Ops, PyFetcherInput
<1> QED BY <1>1, FS_Subset, FS_CardinalityType

LEMMA InitInv == ASSUME PyFetcherInput, Init PROVE Inv
<1>1. Active = {} /\ In({"pending", "cancelled"}) = {} BY DEF Init, Active, In
<1>2. Cardinality(Active) <= Workers BY <1>1, FS_EmptySet DEF PyFetcherInput
<1>3. TypeOK BY DEF Init, TypeOK, Futures, PyFetcherInput
<1>4. pc \in {"serial", "submit"} /\ raised = 0 /\ result = F!Pending BY DEF Init
<1> QED BY <1>1, <1>2, <1>3, <1>4 DEF Inv, Bounded, Raised, Answered

(* Steps of the caller that start no read. *)
LEMMA CallerInv ==
  ASSUME PyFetcherInput, Inv, SerialReturn \/ Wake \/ Shutdown
  PROVE  Inv'
<1>1. future' = future BY DEF SerialReturn, Wake, Shutdown
<1>2. \A s : In(s)' = In(s) BY <1>1 DEF In
<1>3. Active' = Active BY <1>2 DEF Active
<1>4. CASE SerialReturn
  <2>1. /\ pc = "serial" /\ pc' = "returned" /\ In({"running"}) = {}
        /\ UNCHANGED <<notDone, raised>>
    BY <1>4 DEF SerialReturn
  <2>2. In({"pending", "running"}) = {} BY <2>1 DEF Inv, Bounded, In
  <2>3. TypeOK' BY <1>1, <2>1 DEF Inv, TypeOK
  <2> QED BY <1>1, <1>2, <1>3, <2>1, <2>2, <2>3 DEF Inv, Bounded, Raised, Answered
<1>5. CASE Wake
  <2>1. pc = "wait" /\ result' = result BY <1>5 DEF Wake
  <2>2. CASE raised' \in In({"failed"}) /\ notDone' = In({"pending", "running"}) /\ pc' = "cancel"
    <3>1. raised' \in Ops /\ future[raised'] = "failed" /\ raised' # 0 BY <2>2 DEF In, Ops
    <3>2. TypeOK' BY <1>1, <2>2, <3>1 DEF Inv, TypeOK, In, Ops
    <3> QED BY <1>1, <1>3, <2>1, <2>2, <3>1, <3>2 DEF Inv, Bounded, Raised, Answered
  <2>3. CASE In({"full"}) = Ops /\ pc' = "shutdown" /\ UNCHANGED <<notDone, raised>>
    <3>1. TypeOK' BY <1>1, <2>3 DEF Inv, TypeOK
    <3> QED BY <1>1, <1>2, <1>3, <2>1, <2>3, <3>1 DEF Inv, Bounded, Raised, Answered
  <2> QED BY <1>5, <2>2, <2>3 DEF Wake
<1>6. CASE Shutdown
  <2>1. /\ pc = "shutdown" /\ pc' = "returned" /\ In({"pending", "running"}) = {}
        /\ UNCHANGED <<notDone, raised>>
    BY <1>6 DEF Shutdown
  <2>2. TypeOK' BY <1>1, <2>1 DEF Inv, TypeOK
  <2> QED BY <1>1, <1>2, <1>3, <2>1, <2>2 DEF Inv, Bounded, Raised, Answered
<1> QED BY <1>4, <1>5, <1>6

(* A step that moves one future, and not out of a final state, keeps what  *)
(* was raised.                                                             *)
LEMMA OneFuture ==
  ASSUME Inv, NEW i \in Ops, future[i] \notin {"full", "failed"}, NEW s \in Futures,
         future' = [future EXCEPT ![i] = s], raised' = raised
  PROVE  /\ raised' # 0 => future'[raised'] = "failed"
         /\ In({"full"}) = Ops => In({"full"})' = Ops
BY DEF Inv, TypeOK, Raised, In

LEMMA SubmitInv == ASSUME PyFetcherInput, Inv, Submit PROVE Inv'
<1>1. PICK i \in Ops : /\ future[i] = "none" /\ future' = [future EXCEPT ![i] = "pending"]
                       /\ pc' = IF i = N THEN "wait" ELSE pc
  BY DEF Submit, In
<1>2. pc = "submit" /\ UNCHANGED <<notDone, raised, result>> BY DEF Submit
<1>3. future \in [Ops -> Futures] BY DEF Inv, TypeOK
<1>4. Active' = Active BY <1>1, <1>3 DEF Active, In
<1>5. TypeOK' BY <1>1, <1>2, <1>3 DEF Inv, TypeOK, Futures
<1>6. raised' # 0 => future'[raised'] = "failed" BY <1>1, <1>2, OneFuture DEF Futures
<1> QED BY <1>1, <1>2, <1>4, <1>5, <1>6 DEF Inv, Bounded, Raised, Answered

LEMMA CancelInv == ASSUME PyFetcherInput, Inv, Cancel PROVE Inv'
<1>1. pc = "cancel" /\ pc' \in {"cancel", "shutdown"} /\ UNCHANGED <<raised, result>>
  BY DEF Cancel
<1>2. raised # 0 /\ future \in [Ops -> Futures] BY <1>1 DEF Inv, TypeOK, Raised
<1>3. notDone' \subseteq Ops BY DEF Cancel, Inv, TypeOK
<1>4. CASE future' = future
  <2>1. Active' = Active /\ TypeOK' BY <1>1, <1>3, <1>4 DEF Active, In, Inv, TypeOK
  <2> QED BY <1>1, <1>2, <1>4, <2>1 DEF Inv, Bounded, Raised, Answered
<1>5. CASE \E i \in Ops : future[i] = "pending" /\ future' = [future EXCEPT ![i] = "cancelled"]
  <2>1. PICK i \in Ops : future[i] = "pending" /\ future' = [future EXCEPT ![i] = "cancelled"]
    BY <1>5
  <2>2. Active' = Active BY <1>2, <2>1 DEF Active, In
  <2>3. TypeOK' BY <1>1, <1>2, <1>3, <2>1 DEF Inv, TypeOK, Futures
  <2>4. future'[raised'] = "failed" BY <1>1, <1>2, <2>1, OneFuture DEF Futures
  <2> QED BY <1>1, <1>2, <2>2, <2>3, <2>4 DEF Inv, Bounded, Raised, Answered
<1> QED BY <1>4, <1>5 DEF Cancel, Inv, TypeOK

(* A read starts where there is room for it. *)
LEMMA StartInv ==
  ASSUME PyFetcherInput, Inv, NEW i \in Ops, future[i] \in {"none", "pending"},
         Cardinality(Active) < Workers, pc # "returned",
         future' = [future EXCEPT ![i] = "running"], UNCHANGED <<pc, notDone, raised, result>>
  PROVE  Inv'
<1>1. future \in [Ops -> Futures] BY DEF Inv, TypeOK
<1>2. Active' = Active \cup {i} /\ i \notin Active BY <1>1 DEF Active, In
<1>3. IsFiniteSet(Active) /\ Cardinality(Active) \in Nat BY ActiveFinite DEF Active, In
<1>4. Cardinality(Active') = Cardinality(Active) + 1 BY <1>2, <1>3, FS_AddElement
<1>5. In({"pending", "cancelled"})' \subseteq In({"pending", "cancelled"}) BY <1>1 DEF In
<1>6. Bounded' BY <1>3, <1>4, <1>5 DEF Inv, Bounded, PyFetcherInput
<1>7. TypeOK' BY <1>1 DEF Inv, TypeOK, Futures
<1>8. Raised'
  <2>1. raised' # 0 => future'[raised'] = "failed" BY OneFuture DEF Futures
  <2>2. In({"full"}) = Ops => In({"full"})' = Ops BY OneFuture DEF Futures
  <2> QED BY <2>1, <2>2 DEF Inv, Raised
<1>9. Answered' BY DEF Inv, Answered
<1> QED BY <1>6, <1>7, <1>8, <1>9 DEF Inv

LEMMA SerialReadInv == ASSUME PyFetcherInput, Inv, SerialRead PROVE Inv'
<1>1. PICK i \in Ops : future[i] = "none" /\ future' = [future EXCEPT ![i] = "running"]
  BY DEF SerialRead, In
<1>2. /\ pc = "serial" /\ In({"running", "failed"}) = {}
      /\ UNCHANGED <<pc, notDone, raised, result>>
  BY DEF SerialRead
<1>3. Active = {} BY <1>2 DEF Active, In
<1>4. Cardinality(Active) < Workers BY <1>3, FS_EmptySet DEF PyFetcherInput
<1> QED BY <1>1, <1>2, <1>4, StartInv

LEMMA TakeInv == ASSUME PyFetcherInput, Inv, Take PROVE Inv'
<1>1. PICK i \in Ops : future[i] = "pending" /\ future' = [future EXCEPT ![i] = "running"]
  BY DEF Take, In
<1>2. Cardinality(Active) < Workers /\ UNCHANGED <<pc, notDone, raised, result>>
  BY DEF Take, Active
<1>3. pc # "returned" BY <1>1 DEF Inv, Answered, In
<1> QED BY <1>1, <1>2, <1>3, StartInv

LEMMA ReadOneInv == ASSUME PyFetcherInput, Inv, NEW i \in Ops, ReadOne(i) PROVE Inv'
<1>1. future[i] = "running" /\ UNCHANGED <<pc, notDone, raised, result>> BY DEF ReadOne
<1>2. PICK s \in {"full", "failed"} : future' = [future EXCEPT ![i] = s] BY DEF ReadOne
<1>3. future \in [Ops -> Futures] BY DEF Inv, TypeOK
<1>4. Active' = Active \ {i} /\ i \in Active BY <1>1, <1>2, <1>3 DEF Active, In
<1>5. IsFiniteSet(Active) /\ Cardinality(Active) \in Nat BY ActiveFinite DEF Active, In
<1>6. Cardinality(Active') = Cardinality(Active) - 1 BY <1>4, <1>5, FS_RemoveElement
<1>7. In({"pending", "cancelled"})' \subseteq In({"pending", "cancelled"}) BY <1>2, <1>3 DEF In
<1>8. Bounded' BY <1>1, <1>5, <1>6, <1>7 DEF Inv, Bounded, PyFetcherInput
<1>9. TypeOK' BY <1>1, <1>2, <1>3 DEF Inv, TypeOK, Futures
<1>10. Raised'
  <2>1. raised' # 0 => future'[raised'] = "failed" BY <1>1, <1>2, OneFuture DEF Futures
  <2>2. In({"full"}) = Ops => In({"full"})' = Ops BY <1>1, <1>2, OneFuture DEF Futures
  <2> QED BY <1>1, <2>1, <2>2 DEF Inv, Raised
<1>11. Answered' BY <1>1 DEF Inv, Answered, In
<1> QED BY <1>8, <1>9, <1>10, <1>11 DEF Inv

LEMMA NextInv == ASSUME PyFetcherInput, Inv, [Next]_vars PROVE Inv'
<1>1. CASE Caller BY <1>1, SerialReadInv, CallerInv, SubmitInv, CancelInv DEF Caller
<1>2. CASE Take BY <1>2, TakeInv
<1>3. CASE \E i \in Ops : ReadOne(i) BY <1>3, ReadOneInv
<1>4. CASE UNCHANGED vars
  BY <1>4 DEF vars, Inv, TypeOK, Bounded, Raised, Answered, Active, In
<1> QED BY <1>1, <1>2, <1>3, <1>4 DEF Next, Step, Done

LEMMA Invariance == ASSUME PyFetcherInput PROVE Spec => []Inv
<1>1. Init => Inv BY InitInv
<1>2. Inv /\ [Next]_vars => Inv' BY NextInv
<1> QED BY <1>1, <1>2, PTL DEF Spec
-----------------------------------------------------------------------------
(* execute implements Fetch. *)

LEMMA ReadsOf ==
  ASSUME Inv, NEW i \in Ops
  PROVE  /\ Reads[i] = "reading" <=> future[i] = "running"
         /\ Reads[i] = "unread" <=> future[i] \in {"none", "pending", "cancelled"}
         /\ Reads[i] = "full" <=> future[i] = "full"
         /\ Reads[i] = "failed" <=> future[i] = "failed"
         /\ Reads[i] \in F!States
BY DEF Reads, Inv, TypeOK, Futures, F!States

LEMMA SameCardinality == ASSUME NEW S PROVE F!Cardinality(S) = Cardinality(S)
BY DEF F!Cardinality, Cardinality

(* A step that changes the state of one read is an Advance. *)
LEMMA AdvanceRefines ==
  ASSUME PyFetcherInput, Inv, Inv', NEW i \in Ops, NEW s \in Futures,
         future' = [future EXCEPT ![i] = s], result' = result, pc # "returned",
         \/ future[i] \in {"none", "pending"} /\ s = "running"
         \/ future[i] = "running" /\ s \in {"full", "failed"}
  PROVE  F!Advance
<1>1. result = F!Pending BY DEF Inv, Answered
<1>2. future \in [Ops -> Futures] BY DEF Inv, TypeOK
<1>3. Reads' \in [Ops -> F!States] BY DEF Reads, Inv, TypeOK, Futures, F!States
<1>4. s \in {"running", "full", "failed"} OBVIOUS
<1>5. \A j \in Ops : <<Reads[j], Reads'[j]>> \in F!Moves
  <2>1. \A j \in Ops : future'[j] = IF j = i THEN s ELSE future[j] BY <1>2
  <2>2. \A j \in Ops : Reads[j] \in F!States BY ReadsOf
  <2>3. \A j \in Ops \ {i} : Reads'[j] = Reads[j] BY <2>1 DEF Reads
  <2>4. CASE s = "running"
    <3>1. Reads[i] = "unread" BY <2>4, ReadsOf
    <3>2. Reads'[i] = "reading" BY <2>1, <2>4 DEF Reads
    <3> QED BY <2>2, <2>3, <3>1, <3>2 DEF F!Moves
  <2>5. CASE s # "running"
    <3>1. Reads[i] = "reading" BY <2>5, ReadsOf
    <3>2. Reads'[i] = s BY <1>4, <2>1, <2>5 DEF Reads
    <3> QED BY <1>4, <2>2, <2>3, <2>5, <3>1, <3>2 DEF F!Moves
  <2> QED BY <2>4, <2>5
<1>6. {j \in Ops : Reads'[j] = "reading"} = Active' BY DEF Reads, Active, In, Inv, TypeOK, Futures
<1>7. F!Cardinality({j \in Ops : Reads'[j] = "reading"}) <= Workers
  BY <1>6, SameCardinality DEF Inv, Bounded
<1> QED BY <1>1, <1>3, <1>5, <1>7 DEF F!Advance

LEMMA StartRefines == ASSUME PyFetcherInput, Inv, Inv', SerialRead \/ Take PROVE F!Advance
<1>1. PICK i \in Ops : /\ future[i] \in {"none", "pending"}
                       /\ future' = [future EXCEPT ![i] = "running"]
  BY DEF SerialRead, Take, In
<1>2. result' = result /\ pc # "returned"
  BY DEF SerialRead, Take, Inv, Answered, In
<1> QED BY <1>1, <1>2, AdvanceRefines DEF Futures

LEMMA ReadOneRefines == ASSUME PyFetcherInput, Inv, Inv', NEW i \in Ops, ReadOne(i) PROVE F!Advance
<1>1. PICK s \in {"full", "failed"} : future' = [future EXCEPT ![i] = s] BY DEF ReadOne
<1>2. future[i] = "running" /\ result' = result BY DEF ReadOne
<1>3. pc # "returned" BY <1>2 DEF Inv, Answered, In
<1> QED BY <1>1, <1>2, <1>3, AdvanceRefines DEF Futures

(* Submitting, waking and cancelling start no read and end none. *)
LEMMA RestRefines ==
  ASSUME Inv, Submit \/ Wake \/ Cancel
  PROVE  UNCHANGED <<Reads, result>>
<1>1. result' = result BY DEF Submit, Wake, Cancel
<1>2. future \in [Ops -> Futures] BY DEF Inv, TypeOK
<1>3. CASE future' = future BY <1>1, <1>3 DEF Reads
<1>4. CASE \E i \in Ops, s \in {"pending", "cancelled"} :
             /\ future[i] \in {"none", "pending"} /\ future' = [future EXCEPT ![i] = s]
  BY <1>1, <1>2, <1>4 DEF Reads
<1>5. notDone \subseteq Ops BY DEF Inv, TypeOK
<1> QED BY <1>3, <1>4, <1>5 DEF Submit, Wake, Cancel, In

(* An answer comes when no read is in progress, and is what happened. *)
LEMMA ReturnRefines ==
  ASSUME PyFetcherInput, Inv, SerialReturn \/ Shutdown
  PROVE  \E answer \in {F!Ok, F!Canceled} \cup {F!Error(i) : i \in Ops} : F!Return(answer)
<1>1. future' = future /\ pc # "returned" /\ In({"running"}) = {}
  BY DEF SerialReturn, Shutdown, In
<1>2. result = F!Pending /\ Reads' = Reads BY <1>1 DEF Inv, Answered, Reads
<1>3. F!Reading = {} BY <1>1, ReadsOf DEF F!Reading, In
<1>4. \/ result' = F!Ok /\ In({"full"}) = Ops
      \/ \E i \in Ops : result' = F!Error(i) /\ future[i] = "failed"
  <2>1. CASE SerialReturn BY <2>1 DEF SerialReturn, In
  <2>2. CASE Shutdown /\ raised = 0 BY <2>2 DEF Shutdown, Inv, Raised
  <2>3. CASE Shutdown /\ raised # 0
    <3>1. raised \in Ops BY <2>3 DEF Inv, TypeOK, Ops
    <3> QED BY <2>3, <3>1 DEF Shutdown, Inv, Raised
  <2> QED BY <2>1, <2>2, <2>3
<1>5. CASE result' = F!Ok /\ In({"full"}) = Ops
  <2>1. \A i \in Ops : Reads[i] = "full" BY <1>5, ReadsOf DEF In
  <2>2. F!Return(F!Ok) BY <1>2, <1>3, <1>5, <2>1 DEF F!Return
  <2> QED BY <2>2
<1>6. ASSUME NEW i \in Ops, result' = F!Error(i), future[i] = "failed"
      PROVE  \E answer \in {F!Ok, F!Canceled} \cup {F!Error(j) : j \in Ops} : F!Return(answer)
  <2>1. Reads[i] = "failed" BY <1>6, ReadsOf
  <2>2. F!Return(F!Error(i)) BY <1>2, <1>3, <1>6, <2>1 DEF F!Return
  <2> QED BY <2>2
<1> QED BY <1>4, <1>5, <1>6

LEMMA NextRefines == ASSUME PyFetcherInput, Inv, [Next]_vars PROVE [F!Next]_(F!vars)
<1>1. Inv' BY NextInv
<1>2. CASE SerialRead \/ Take BY <1>1, <1>2, StartRefines DEF F!Next
<1>3. CASE \E i \in Ops : ReadOne(i) BY <1>1, <1>3, ReadOneRefines DEF F!Next
<1>4. CASE Submit \/ Wake \/ Cancel BY <1>4, RestRefines DEF F!vars
<1>5. CASE SerialReturn \/ Shutdown BY <1>5, ReturnRefines DEF F!Next
<1>6. CASE UNCHANGED vars BY <1>6 DEF vars, F!vars, Reads
<1> QED BY <1>2, <1>3, <1>4, <1>5, <1>6 DEF Next, Step, Caller, Done

(* execute implements Fetch, with a pool of threads and without: never     *)
(* more reads in progress than workers, an answer only when none is, all   *)
(* the buffers only if all are complete, and otherwise the exception of a  *)
(* read that failed.                                                       *)
THEOREM Refinement == ASSUME PyFetcherInput PROVE Spec => PyImplementsFetch
<1>1. Init => F!Init BY DEF Init, F!Init, Reads
<1>2. Inv /\ [Next]_vars => [F!Next]_(F!vars) BY NextRefines
<1> QED BY <1>1, <1>2, Invariance, PTL DEF Spec, F!Spec, PyImplementsFetch
=============================================================================
