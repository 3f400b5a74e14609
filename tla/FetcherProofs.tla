--------------------------- MODULE FetcherProofs ---------------------------
(* Proofs about Fetcher, for every number of ops and any maxConcurrency. *)
EXTENDS Fetcher, FiniteSetTheorems, TLAPS

(* The goroutines that hold a token, and those wg counts. *)
Holding == {i \in Ops : worker[i] \in {"reading", "failing", "canceling", "leaving"}}
Running == {i \in Ops : worker[i] \in {"reading", "failing", "canceling", "leaving", "exiting"}}

Counters == tokens = Cardinality(Holding) /\ wg = Cardinality(Running)

Dispatched == /\ \A i \in Ops : worker[i] = "none" <=> i >= next
              /\ pc = "wait" => next = N + 1

Buffers == \A i \in Ops :
  /\ worker[i] \in {"none", "reading"} => bufs[i] = "empty"
  /\ worker[i] \in {"failing", "canceling"} => bufs[i] = "failed"
  /\ worker[i] \in {"leaving", "exiting", "done"} => bufs[i] \in {"full", "failed"}

(* Every failure but the ones about to call setErr has left an error, and  *)
(* the error that is kept is that of a read or a wish of the caller.       *)
ErrorKept ==
  /\ \A i \in Ops : bufs[i] = "failed" /\ worker[i] # "failing" => firstErr # NoErr
  /\ \A i \in Ops : firstErr = F!Error(i) => bufs[i] = "failed"
  /\ firstErr = F!Canceled => canceled
  /\ ctxDone => canceled \/ firstErr # NoErr
  /\ pc = "drain" => firstErr # NoErr

Answered ==
  /\ pc = "returned" => wg = 0
  /\ pc # "returned" => result = F!Pending

Inv == TypeOK /\ Counters /\ Dispatched /\ Buffers /\ ErrorKept /\ Answered

LEMMA WorkersType == ASSUME FetcherInput PROVE Workers \in Nat \ {0}
BY DEF FetcherInput, Workers

LEMMA OpsFinite == ASSUME FetcherInput, NEW S \in SUBSET Ops
                   PROVE  IsFiniteSet(S) /\ Cardinality(S) \in Nat
<1>1. IsFiniteSet(Ops) BY FS_Interval DEF Ops, FetcherInput
<1> QED BY <1>1, FS_Subset, FS_CardinalityType

LEMMA Answers ==
  /\ \A i \in Ops : F!Error(i) # NoErr /\ F!Error(i) # F!Canceled /\ F!Error(i) # F!Pending
  /\ NoErr # F!Canceled /\ F!Canceled # F!Pending /\ F!Ok # F!Pending
  /\ \A i, j \in Ops : F!Error(i) = F!Error(j) => i = j
BY DEF F!Error, F!Canceled, F!Pending, F!Ok, NoErr

LEMMA InitInv == ASSUME FetcherInput, Init PROVE Inv
<1>1. Holding = {} /\ Running = {} BY DEF Init, Holding, Running
<1>2. Counters BY <1>1, FS_EmptySet DEF Init, Counters
<1>3. TypeOK
  <2>1. next \in 1 .. N + 1 /\ tokens \in 0 .. Workers /\ wg \in Nat
    BY WorkersType DEF Init, FetcherInput
  <2>2. worker \in [Ops -> WorkerStates] /\ bufs \in [Ops -> {"empty", "full", "failed"}]
    BY DEF Init, WorkerStates
  <2>3. /\ pc \in {"loop", "drain", "wait", "returned"}
        /\ firstErr \in Errors \cup {NoErr, F!Canceled}
        /\ result \in Errors \cup {F!Pending, F!Ok, F!Canceled}
    BY DEF Init
  <2>4. ctxDone \in BOOLEAN /\ canceled \in BOOLEAN BY Zenon DEF Init
  <2> QED BY <2>1, <2>2, <2>3, <2>4 DEF TypeOK
<1>4. Dispatched BY DEF Init, Dispatched, Ops
<1>5. Buffers BY DEF Init, Buffers
<1>6. ErrorKept BY Answers DEF Init, ErrorKept
<1>7. Answered BY DEF Init, Answered
<1> QED BY <1>2, <1>3, <1>4, <1>5, <1>6, <1>7 DEF Inv

(* A step that changes the state of no goroutine keeps the counters. *)
LEMMA SameWorkers ==
  ASSUME Inv, UNCHANGED <<worker, tokens, wg>>
  PROVE  Counters'
BY DEF Inv, Counters, Holding, Running

(* A goroutine that goes on and holds its token keeps the counters. *)
LEMMA WorkerGoesOn ==
  ASSUME Inv, NEW i \in Ops, NEW s,
         worker[i] \in {"reading", "failing", "canceling", "leaving"},
         s \in {"reading", "failing", "canceling", "leaving"},
         worker' = [worker EXCEPT ![i] = s], UNCHANGED <<tokens, wg>>
  PROVE  Counters'
<1>1. worker \in [Ops -> WorkerStates] BY DEF Inv, TypeOK
<1>2. Holding' = Holding BY <1>1 DEF Holding
<1>3. Running' = Running BY <1>1 DEF Running
<1> QED BY <1>2, <1>3 DEF Inv, Counters

LEMMA DispatchInv == ASSUME FetcherInput, Inv, Dispatch PROVE Inv'
<1>1. /\ pc = "loop" /\ next <= N /\ tokens < Workers /\ tokens' = tokens + 1 /\ wg' = wg + 1
      /\ worker' = [worker EXCEPT ![next] = "reading"] /\ next' = next + 1
      /\ UNCHANGED <<pc, bufs, firstErr, ctxDone, canceled, result>>
  BY DEF Dispatch
<1>2. /\ next \in Ops /\ worker \in [Ops -> WorkerStates] /\ tokens \in Nat /\ wg \in Nat
      /\ worker[next] = "none"
  BY <1>1 DEF Inv, TypeOK, Ops, Dispatched
<1>3. TypeOK' BY <1>1, <1>2, WorkersType DEF Inv, TypeOK, WorkerStates, FetcherInput
<1>4. Counters'
  <2>1. Holding' = Holding \cup {next} /\ next \notin Holding BY <1>1, <1>2 DEF Holding
  <2>2. Running' = Running \cup {next} /\ next \notin Running BY <1>1, <1>2 DEF Running
  <2>3. IsFiniteSet(Holding) /\ IsFiniteSet(Running) BY OpsFinite DEF Holding, Running
  <2>4. Cardinality(Holding') = Cardinality(Holding) + 1 BY <2>1, <2>3, FS_AddElement
  <2>5. Cardinality(Running') = Cardinality(Running) + 1 BY <2>2, <2>3, FS_AddElement
  <2> QED BY <1>1, <2>4, <2>5 DEF Inv, Counters
<1>5. Dispatched' BY <1>1, <1>2 DEF Inv, TypeOK, Dispatched, Ops
<1>6. Buffers' BY <1>1, <1>2 DEF Inv, Buffers
<1>7. ErrorKept' BY <1>1, <1>2 DEF Inv, Buffers, ErrorKept
<1>8. Answered' BY <1>1 DEF Inv, Answered
<1> QED BY <1>3, <1>4, <1>5, <1>6, <1>7, <1>8 DEF Inv

LEMMA DispatcherInv ==
  ASSUME FetcherInput, Inv, SeeDone \/ EndLoop \/ ReturnError \/ Return
  PROVE  Inv'
<1>1. UNCHANGED <<next, worker, bufs, tokens, wg, ctxDone, canceled>>
  BY DEF SeeDone, EndLoop, ReturnError, Return
<1>2. firstErr' \in Errors \cup {NoErr, F!Canceled}
      /\ result' \in Errors \cup {F!Pending, F!Ok, F!Canceled}
      /\ pc' \in {"loop", "drain", "wait", "returned"}
  <2>1. CASE SeeDone \/ EndLoop BY <2>1 DEF SeeDone, EndLoop, Inv, TypeOK
  <2>2. CASE ReturnError BY <2>2 DEF ReturnError, Inv, TypeOK, ErrorKept
  <2>3. CASE Return BY <2>3 DEF Return, Inv, TypeOK
  <2> QED BY <2>1, <2>2, <2>3
<1>3. TypeOK' BY <1>1, <1>2 DEF Inv, TypeOK
<1>4. Counters' BY <1>1, SameWorkers
<1>5. Dispatched' BY <1>1 DEF Inv, TypeOK, FetcherInput, Dispatched, SeeDone, EndLoop, ReturnError, Return
<1>6. Buffers' BY <1>1 DEF Inv, Buffers
<1>7. ErrorKept'
  <2>1. CASE SeeDone
    <3>1. CASE firstErr = NoErr
      <4>1. firstErr' = F!Canceled /\ canceled BY <2>1, <3>1 DEF SeeDone, Inv, ErrorKept
      <4> QED BY <1>1, <4>1, Answers DEF ErrorKept
    <3>2. CASE firstErr # NoErr BY <1>1, <2>1, <3>2 DEF SeeDone, Inv, ErrorKept
    <3> QED BY <3>1, <3>2
  <2>2. CASE EndLoop \/ ReturnError \/ Return
    BY <1>1, <2>2 DEF EndLoop, ReturnError, Return, Inv, ErrorKept
  <2> QED BY <2>1, <2>2
<1>8. Answered' BY <1>1 DEF Inv, Answered, SeeDone, EndLoop, ReturnError, Return
<1> QED BY <1>3, <1>4, <1>5, <1>6, <1>7, <1>8 DEF Inv

LEMMA CallerCancelsInv == ASSUME Inv, CallerCancels PROVE Inv'
<1>1. /\ canceled' = TRUE /\ ctxDone' = TRUE
      /\ UNCHANGED <<next, pc, worker, bufs, tokens, wg, firstErr, result>>
  BY DEF CallerCancels
<1>2. Counters' BY <1>1, SameWorkers
<1> QED BY <1>1, <1>2 DEF Inv, TypeOK, Dispatched, Buffers, ErrorKept, Answered

LEMMA ReadAtInv == ASSUME Inv, NEW i \in Ops, ReadAt(i) PROVE Inv'
<1>1. /\ worker[i] = "reading" /\ UNCHANGED <<next, pc, tokens, wg, firstErr, ctxDone, canceled, result>>
      /\ worker \in [Ops -> WorkerStates] /\ bufs \in [Ops -> {"empty", "full", "failed"}]
  BY DEF ReadAt, Inv, TypeOK
<1>2. PICK b, s : /\ <<b, s>> = <<"full", "leaving">> \/ <<b, s>> = <<"failed", "failing">>
                  /\ bufs' = [bufs EXCEPT ![i] = b] /\ worker' = [worker EXCEPT ![i] = s]
  BY DEF ReadAt
<1>3. Counters' BY <1>1, <1>2, WorkerGoesOn
<1>4. TypeOK' BY <1>1, <1>2 DEF Inv, TypeOK, WorkerStates
<1>5. Dispatched' BY <1>1, <1>2 DEF Inv, Dispatched
<1>6. Buffers' BY <1>1, <1>2 DEF Inv, Buffers
<1>7. ErrorKept'
  <2>1. bufs[i] = "empty" BY <1>1 DEF Inv, Buffers
  <2> QED BY <1>1, <1>2, <2>1 DEF Inv, ErrorKept
<1>8. Answered' BY <1>1 DEF Inv, Answered
<1> QED BY <1>3, <1>4, <1>5, <1>6, <1>7, <1>8 DEF Inv

LEMMA SetErrInv == ASSUME Inv, NEW i \in Ops, SetErr(i) PROVE Inv'
<1>1. /\ worker[i] = "failing" /\ worker' = [worker EXCEPT ![i] = "canceling"]
      /\ firstErr' = IF firstErr = NoErr THEN F!Error(i) ELSE firstErr
      /\ UNCHANGED <<next, pc, bufs, tokens, wg, ctxDone, canceled, result>>
      /\ worker \in [Ops -> WorkerStates]
  BY DEF SetErr, Inv, TypeOK
<1>2. Counters' BY <1>1, WorkerGoesOn
<1>3. TypeOK' BY <1>1 DEF Inv, TypeOK, WorkerStates, Errors
<1>4. Dispatched' BY <1>1 DEF Inv, Dispatched
<1>5. Buffers' BY <1>1 DEF Inv, Buffers
<1>6. ErrorKept'
  <2>1. bufs[i] = "failed" BY <1>1 DEF Inv, Buffers
  <2>2. firstErr' # NoErr BY <1>1, Answers
  <2>3. \A j \in Ops : firstErr' = F!Error(j) => bufs'[j] = "failed"
    BY <1>1, <2>1, Answers DEF Inv, ErrorKept
  <2>4. firstErr' = F!Canceled => canceled' BY <1>1, Answers DEF Inv, ErrorKept
  <2> QED BY <2>2, <2>3, <2>4 DEF ErrorKept
<1>7. Answered' BY <1>1 DEF Inv, Answered
<1> QED BY <1>2, <1>3, <1>4, <1>5, <1>6, <1>7 DEF Inv

LEMMA CancelContextInv == ASSUME Inv, NEW i \in Ops, CancelContext(i) PROVE Inv'
<1>1. /\ worker[i] = "canceling" /\ worker' = [worker EXCEPT ![i] = "leaving"] /\ ctxDone' = TRUE
      /\ UNCHANGED <<next, pc, bufs, tokens, wg, firstErr, canceled, result>>
      /\ worker \in [Ops -> WorkerStates]
  BY DEF CancelContext, Inv, TypeOK
<1>2. Counters' BY <1>1, WorkerGoesOn
<1>3. TypeOK' BY <1>1 DEF Inv, TypeOK, WorkerStates
<1>4. Dispatched' BY <1>1 DEF Inv, Dispatched
<1>5. Buffers' BY <1>1 DEF Inv, Buffers
<1>6. firstErr # NoErr BY <1>1 DEF Inv, Buffers, ErrorKept
<1>7. ErrorKept' BY <1>1, <1>6 DEF Inv, ErrorKept
<1>8. Answered' BY <1>1 DEF Inv, Answered
<1> QED BY <1>2, <1>3, <1>4, <1>5, <1>7, <1>8 DEF Inv

LEMMA ReleaseTokenInv == ASSUME FetcherInput, Inv, NEW i \in Ops, ReleaseToken(i) PROVE Inv'
<1>1. /\ worker[i] = "leaving" /\ worker' = [worker EXCEPT ![i] = "exiting"] /\ tokens' = tokens - 1
      /\ UNCHANGED <<next, pc, bufs, wg, firstErr, ctxDone, canceled, result>>
      /\ worker \in [Ops -> WorkerStates]
  BY DEF ReleaseToken, Inv, TypeOK
<1>2. Holding' = Holding \ {i} /\ i \in Holding /\ Running' = Running BY <1>1 DEF Holding, Running
<1>3. IsFiniteSet(Holding) /\ IsFiniteSet(Holding') /\ Cardinality(Holding') \in Nat
  BY OpsFinite, <1>2 DEF Holding
<1>4. Cardinality(Holding') = Cardinality(Holding) - 1 BY <1>2, <1>3, FS_RemoveElement
<1>5. Counters' BY <1>1, <1>2, <1>4 DEF Inv, Counters
<1>6. tokens' \in Nat BY <1>3, <1>5 DEF Counters
<1>7. TypeOK' BY <1>1, <1>6, WorkersType DEF Inv, TypeOK, WorkerStates
<1>8. Dispatched' /\ Buffers' /\ ErrorKept' /\ Answered'
  BY <1>1 DEF Inv, Dispatched, Buffers, ErrorKept, Answered
<1> QED BY <1>5, <1>7, <1>8 DEF Inv

LEMMA WgDoneInv == ASSUME FetcherInput, Inv, NEW i \in Ops, WgDone(i) PROVE Inv'
<1>1. /\ worker[i] = "exiting" /\ worker' = [worker EXCEPT ![i] = "done"] /\ wg' = wg - 1
      /\ UNCHANGED <<next, pc, bufs, tokens, firstErr, ctxDone, canceled, result>>
      /\ worker \in [Ops -> WorkerStates]
  BY DEF WgDone, Inv, TypeOK
<1>2. Running' = Running \ {i} /\ i \in Running /\ Holding' = Holding BY <1>1 DEF Holding, Running
<1>3. IsFiniteSet(Running) /\ IsFiniteSet(Running') /\ Cardinality(Running') \in Nat
  BY OpsFinite, <1>2 DEF Running
<1>4. Cardinality(Running') = Cardinality(Running) - 1 BY <1>2, <1>3, FS_RemoveElement
<1>5. Counters' BY <1>1, <1>2, <1>4 DEF Inv, Counters
<1>6. wg' \in Nat BY <1>3, <1>5 DEF Counters
<1>7. TypeOK' BY <1>1, <1>6 DEF Inv, TypeOK, WorkerStates
<1>8. Dispatched' /\ Buffers' /\ ErrorKept'
  BY <1>1 DEF Inv, Dispatched, Buffers, ErrorKept
<1>9. Answered'
  <2>1. wg # 0
    <3>1. Cardinality(Running) \in Nat BY OpsFinite DEF Running
    <3> QED BY <1>3, <1>4, <3>1 DEF Inv, Counters
  <2> QED BY <1>1, <2>1 DEF Inv, Answered
<1> QED BY <1>5, <1>7, <1>8, <1>9 DEF Inv

LEMMA NextInv == ASSUME FetcherInput, Inv, [Next]_vars PROVE Inv'
<1>1. CASE Dispatcher BY <1>1, DispatchInv, DispatcherInv DEF Dispatcher
<1>2. CASE \E i \in Ops : Worker(i)
  BY <1>2, ReadAtInv, SetErrInv, CancelContextInv, ReleaseTokenInv, WgDoneInv DEF Worker
<1>3. CASE CallerCancels BY <1>3, CallerCancelsInv
<1>4. CASE UNCHANGED vars
  BY <1>4 DEF vars, Inv, TypeOK, Counters, Holding, Running, Dispatched, Buffers, ErrorKept, Answered
<1> QED BY <1>1, <1>2, <1>3, <1>4 DEF Next, Done

LEMMA Invariance == ASSUME FetcherInput PROVE Spec => []Inv
<1>1. Init => Inv BY FetcherInput, InitInv
<1>2. Inv /\ [Next]_vars => Inv' BY FetcherInput, NextInv
<1> QED BY <1>1, <1>2, PTL DEF Spec

(* Every variable keeps its type; the token channel never holds more than  *)
(* its capacity and the WaitGroup's counter is never negative.             *)
THEOREM TypeCorrect == ASSUME FetcherInput PROVE Spec => []TypeOK
<1>1. Inv => TypeOK BY DEF Inv
<1> QED BY <1>1, Invariance, PTL

(* wg.Wait is enough: when its counter is zero no goroutine is left. *)
LEMMA NobodyRuns == ASSUME FetcherInput, Inv, wg = 0
                    PROVE  Running = {} /\ Holding = {} /\ tokens = 0
<1>1. IsFiniteSet(Running) BY OpsFinite DEF Running
<1>2. Running = {} BY <1>1, FS_EmptySet DEF Inv, Counters
<1>3. Holding = {} BY <1>2 DEF Holding, Running
<1> QED BY <1>2, <1>3, FS_EmptySet DEF Inv, Counters

(* No goroutine outlives Execute and all the tokens are back. *)
THEOREM Quiet == ASSUME FetcherInput PROVE Spec => []QuietWhenReturned
<1>1. Inv => QuietWhenReturned
  <2> SUFFICES ASSUME Inv, pc = "returned" PROVE QuietWhenReturned BY DEF QuietWhenReturned
  <2>1. wg = 0 BY DEF Inv, Answered
  <2>2. Running = {} /\ tokens = 0 BY <2>1, NobodyRuns, FetcherInput
  <2>3. \A i \in Ops : worker[i] \in {"none", "done"} BY <2>2 DEF Running, Inv, TypeOK, WorkerStates
  <2> QED BY <2>1, <2>2, <2>3 DEF QuietWhenReturned
<1> QED BY <1>1, Invariance, PTL
-----------------------------------------------------------------------------
(* The Go Fetcher implements Fetch. *)

LEMMA InitRefines == ASSUME Init PROVE F!Init
BY DEF Init, F!Init, Reads

LEMMA ReadsOf == ASSUME Inv, NEW i \in Ops
                 PROVE  /\ Reads[i] = "reading" <=> worker[i] = "reading"
                        /\ Reads[i] = "unread" <=> worker[i] = "none"
                        /\ bufs[i] = "failed" => Reads[i] = "failed"
                        /\ bufs[i] = "full" => Reads[i] = "full"
BY DEF Reads, Inv, TypeOK, Buffers

LEMMA SameCardinality == ASSUME NEW S PROVE F!Cardinality(S) = Cardinality(S)
BY DEF F!Cardinality, Cardinality

(* The reads in progress hold a token each. *)
LEMMA ReadsBounded ==
  ASSUME FetcherInput, Inv'
  PROVE  F!Cardinality({i \in Ops : Reads'[i] = "reading"}) <= Workers
<1> DEFINE S == {i \in Ops : Reads'[i] = "reading"}
<1>1. S \in SUBSET Holding' BY DEF Reads, Holding, Inv, TypeOK
<1>2. IsFiniteSet(Holding') /\ Cardinality(Holding') \in Nat BY OpsFinite DEF Holding
<1>3. Cardinality(S) <= Cardinality(Holding') /\ IsFiniteSet(S) BY <1>1, <1>2, FS_Subset
<1>4. Cardinality(S) \in Nat BY <1>3, FS_CardinalityType
<1>5. Cardinality(Holding') <= Workers BY DEF Inv, Counters, TypeOK
<1>6. F!Cardinality(S) = Cardinality(S) BY SameCardinality
<1> HIDE DEF S
<1>7. Cardinality(S) <= Workers BY <1>2, <1>3, <1>4, <1>5, WorkersType
<1> QED BY <1>6, <1>7 DEF S

LEMMA ReadsType == ASSUME Inv PROVE Reads \in [Ops -> F!States]
BY DEF Reads, Inv, TypeOK, Buffers, F!States, WorkerStates

LEMMA AdvanceRefines ==
  ASSUME FetcherInput, Inv, Inv', pc # "returned", NEW i \in Ops, NEW s,
         <<Reads[i], s>> \in F!Moves, s \in F!States,
         Reads' = [Reads EXCEPT ![i] = s], UNCHANGED <<canceled, result>>
  PROVE  F!Advance
<1>1. result = F!Pending BY DEF Inv, Answered
<1>2. Reads \in [Ops -> F!States] BY ReadsType
<1>3. Reads' \in [Ops -> F!States] BY <1>2
<1>4. \A j \in Ops : <<Reads[j], Reads'[j]>> \in F!Moves BY <1>2 DEF F!Moves
<1>5. F!Cardinality({j \in Ops : Reads'[j] = "reading"}) <= Workers BY ReadsBounded
<1> QED BY <1>1, <1>3, <1>4, <1>5 DEF F!Advance

LEMMA DispatchRefines == ASSUME FetcherInput, Inv, Inv', Dispatch PROVE F!Advance
<1>1. /\ pc = "loop" /\ next <= N /\ worker' = [worker EXCEPT ![next] = "reading"]
      /\ UNCHANGED <<bufs, canceled, result>>
  BY DEF Dispatch
<1>2. next \in Ops /\ worker \in [Ops -> WorkerStates] BY <1>1 DEF Inv, TypeOK, Ops
<1>3. Reads[next] = "unread" BY <1>2, ReadsOf DEF Inv, Dispatched, TypeOK, Ops
<1>4. Reads' = [Reads EXCEPT ![next] = "reading"] BY <1>1, <1>2 DEF Reads
<1>5. <<Reads[next], "reading">> \in F!Moves /\ "reading" \in F!States
  BY <1>3 DEF F!Moves, F!States
<1> QED BY <1>1, <1>2, <1>4, <1>5, AdvanceRefines

LEMMA ReadAtRefines ==
  ASSUME FetcherInput, Inv, Inv', NEW i \in Ops, ReadAt(i)
  PROVE  F!Advance
<1>1. /\ worker[i] = "reading" /\ UNCHANGED <<pc, wg, canceled, result>>
      /\ worker \in [Ops -> WorkerStates] /\ bufs \in [Ops -> {"empty", "full", "failed"}]
  BY DEF ReadAt, Inv, TypeOK
<1>2. PICK b \in {"full", "failed"}, s \in {"leaving", "failing"} :
        bufs' = [bufs EXCEPT ![i] = b] /\ worker' = [worker EXCEPT ![i] = s]
  BY DEF ReadAt
<1>3. Reads' = [Reads EXCEPT ![i] = b] BY <1>1, <1>2 DEF Reads
<1>4. Reads[i] = "reading" BY <1>1, ReadsOf
<1>5. <<Reads[i], b>> \in F!Moves /\ b \in F!States BY <1>4 DEF F!Moves, F!States
<1>6. pc # "returned"
  <2>1. i \in Running BY <1>1 DEF Running
  <2>2. wg # 0 BY <2>1, NobodyRuns
  <2> QED BY <2>2 DEF Inv, Answered
<1> QED BY <1>1, <1>3, <1>5, <1>6, AdvanceRefines

(* The rest of a goroutine is invisible. *)
LEMMA RestRefines ==
  ASSUME Inv, NEW i \in Ops,
         SetErr(i) \/ CancelContext(i) \/ ReleaseToken(i) \/ WgDone(i)
  PROVE  UNCHANGED <<Reads, canceled, result>>
<1>1. PICK s \in WorkerStates \ {"none", "reading"} : worker' = [worker EXCEPT ![i] = s]
  BY DEF SetErr, CancelContext, ReleaseToken, WgDone, WorkerStates
<1>2. UNCHANGED <<bufs, canceled, result>> /\ worker[i] \notin {"none", "reading"}
  BY DEF SetErr, CancelContext, ReleaseToken, WgDone
<1>3. worker \in [Ops -> WorkerStates] BY DEF Inv, TypeOK
<1>4. Reads' = Reads BY <1>1, <1>2, <1>3 DEF Reads
<1> QED BY <1>2, <1>4

(* Execute returns an error only if it happened. *)
LEMMA ErrorRefines ==
  ASSUME FetcherInput, Inv, wg = 0, pc # "returned", firstErr # NoErr, result' = firstErr,
         UNCHANGED <<worker, bufs, canceled>>
  PROVE  \E answer \in {F!Ok, F!Canceled} \cup {F!Error(i) : i \in Ops} : F!Return(answer)
<1>1. Running = {} BY NobodyRuns
<1>2. F!Reading = {} BY <1>1, ReadsOf DEF F!Reading, Running
<1>3. result = F!Pending BY DEF Inv, Answered
<1>4. Reads' = Reads BY DEF Reads
<1>5. CASE firstErr = F!Canceled
  <2>1. canceled BY <1>5 DEF Inv, ErrorKept
  <2>2. F!Return(F!Canceled) BY <1>2, <1>3, <1>4, <1>5, <2>1 DEF F!Return
  <2> QED BY <2>2
<1>6. CASE firstErr \in Errors
  <2>1. PICK i \in Ops : firstErr = F!Error(i) BY <1>6 DEF Errors
  <2>2. Reads[i] = "failed" BY <2>1, ReadsOf DEF Inv, ErrorKept
  <2>3. F!Return(F!Error(i)) BY <1>2, <1>3, <1>4, <2>1, <2>2 DEF F!Return
  <2> QED BY <2>3
<1> QED BY <1>5, <1>6 DEF Inv, TypeOK

(* It returns the buffers only if they are all complete. *)
LEMMA OkRefines ==
  ASSUME FetcherInput, Inv, wg = 0, pc = "wait", firstErr = NoErr, result' = F!Ok,
         UNCHANGED <<worker, bufs, canceled>>
  PROVE  F!Return(F!Ok)
<1>1. Running = {} BY NobodyRuns
<1>2. F!Reading = {} BY <1>1, ReadsOf DEF F!Reading, Running
<1>3. result = F!Pending BY DEF Inv, Answered
<1>4. Reads' = Reads BY DEF Reads
<1>5. ASSUME NEW i \in Ops PROVE Reads[i] = "full"
  <2>1. worker[i] # "none" BY DEF Inv, Dispatched, Ops, FetcherInput
  <2>2. worker[i] = "done" BY <1>1, <2>1 DEF Running, Inv, TypeOK, WorkerStates
  <2>3. bufs[i] \in {"full", "failed"} BY <2>2 DEF Inv, Buffers
  <2>4. bufs[i] # "failed" BY <2>2 DEF Inv, ErrorKept
  <2> QED BY <2>3, <2>4, ReadsOf
<1> QED BY <1>2, <1>3, <1>4, <1>5 DEF F!Return

LEMMA NextRefines == ASSUME FetcherInput, Inv, [Next]_vars PROVE [F!Next]_(F!vars)
<1>0. Inv' BY NextInv
<1>1. CASE Dispatch BY <1>0, <1>1, DispatchRefines DEF F!Next
<1>2. CASE SeeDone \/ EndLoop
  <2>1. UNCHANGED <<worker, bufs, canceled, result>> BY <1>2 DEF SeeDone, EndLoop
  <2> QED BY <2>1 DEF F!vars, Reads
<1>3. CASE ReturnError
  <2>1. pc = "drain" /\ wg = 0 /\ result' = firstErr /\ UNCHANGED <<worker, bufs, canceled>>
    BY <1>3 DEF ReturnError
  <2>2. firstErr # NoErr BY <2>1 DEF Inv, ErrorKept
  <2> QED BY <2>1, <2>2, ErrorRefines DEF F!Next
<1>4. CASE Return
  <2>1. /\ pc = "wait" /\ wg = 0 /\ result' = IF firstErr # NoErr THEN firstErr ELSE F!Ok
        /\ UNCHANGED <<worker, bufs, canceled>>
    BY <1>4 DEF Return
  <2>2. CASE firstErr # NoErr BY <2>1, <2>2, ErrorRefines DEF F!Next
  <2>3. CASE firstErr = NoErr BY <2>1, <2>3, OkRefines DEF F!Next
  <2> QED BY <2>2, <2>3
<1>5. CASE \E i \in Ops : Worker(i)
  <2>1. PICK i \in Ops : Worker(i) BY <1>5
  <2>2. CASE ReadAt(i) BY <1>0, <2>2, ReadAtRefines DEF F!Next
  <2>3. CASE SetErr(i) \/ CancelContext(i) \/ ReleaseToken(i) \/ WgDone(i)
    BY <2>3, RestRefines DEF F!vars
  <2> QED BY <2>1, <2>2, <2>3 DEF Worker
<1>6. CASE CallerCancels
  <2>1. F!Cancel BY <1>6 DEF CallerCancels, F!Cancel, Reads
  <2> QED BY <2>1 DEF F!Next
<1>7. CASE UNCHANGED vars BY <1>7 DEF vars, F!vars, Reads
<1> QED BY <1>1, <1>2, <1>3, <1>4, <1>5, <1>6, <1>7 DEF Next, Dispatcher, Done

(* Execute implements Fetch: never more reads in progress than workers, an *)
(* answer only when none is, all the buffers only if all are complete, and *)
(* an error only if that read failed or the caller cancelled.              *)
THEOREM Refinement == ASSUME FetcherInput PROVE Spec => ImplementsFetch
<1>1. Init => F!Init BY InitRefines
<1>2. Inv /\ [Next]_vars => [F!Next]_(F!vars) BY FetcherInput, NextRefines
<1> QED BY <1>1, <1>2, Invariance, PTL DEF Spec, F!Spec, ImplementsFetch
=============================================================================
