----------------------------- MODULE FetchPool -----------------------------
(***************************************************************************)
(* fetchAll of the TypeScript SDK (ts/src/read_fetcher.ts): a pool of      *)
(* async functions that take the next op until there is none or one has    *)
(* failed.  JavaScript runs them on one thread: from one await to the next *)
(* nothing else happens.                                                   *)
(***************************************************************************)
EXTENDS Integers, FiniteSets

CONSTANTS
  N,               \* number of ops, not 0
  MaxConcurrency   \* as passed by the caller

(* What the caller passes: fetchAll answers no ops at once. *)
FetchPoolInput == N \in Nat \ {0} /\ MaxConcurrency \in Int

Ops == 1 .. N
Workers == IF MaxConcurrency > 0 THEN MaxConcurrency ELSE 1
Pool == 1 .. (IF Workers < N THEN Workers ELSE N)

VARIABLES
  pc,        \* the caller: "start", "awaiting", "returned"
  nextIdx,   \* nextIdx, from 1
  at,        \* the op each runOne awaits; 0 before it runs and when it has returned
  out,       \* what became of each op: "empty", "full", "failed"
  firstErr,
  result

vars == <<pc, nextIdx, at, out, firstErr, result>>

Awaited == {at[w] : w \in Pool} \ {0}
Reads == [i \in Ops |-> IF i \in Awaited THEN "reading"
                        ELSE IF out[i] = "empty" THEN "unread" ELSE out[i]]

F == INSTANCE Fetch WITH Limit <- Workers, reads <- Reads, canceled <- FALSE

NoErr == F!Pending

Init ==
  /\ pc = "start"
  /\ nextIdx = 1
  /\ at = [w \in Pool |-> 0]
  /\ out = [i \in Ops |-> "empty"]
  /\ firstErr = NoErr
  /\ result = F!Pending

(* Each runOne of the pool runs until its first await: it asks for an op.  *)
Begin ==
  /\ pc = "start"
  /\ pc' = "awaiting"
  /\ at' = [w \in Pool |-> w]
  /\ nextIdx' = Cardinality(Pool) + 1
  /\ UNCHANGED <<out, firstErr, result>>

(* Mutant: the next op is asked for without looking at firstErr. *)
GoesOnAnyway(w) ==
  /\ nextIdx' = nextIdx + 1
  /\ at' = [at EXCEPT ![w] = IF nextIdx <= N THEN nextIdx ELSE 0]

(* The while loop once more: stop if an op failed, or when there is none   *)
(* left; i = nextIdx++ moves the index in that case too.                   *)
GoesOn(w) ==
  \/ /\ firstErr' = NoErr
     /\ nextIdx' = nextIdx + 1
     /\ at' = [at EXCEPT ![w] = IF nextIdx <= N THEN nextIdx ELSE 0]
  \/ /\ firstErr' # NoErr
     /\ at' = [at EXCEPT ![w] = 0]
     /\ UNCHANGED nextIdx

(* The read of runOne w has all its bytes. *)
Full(w) ==
  /\ at[w] # 0
  /\ out' = [out EXCEPT ![at[w]] = "full"]
  /\ firstErr' = firstErr
  /\ GoesOn(w)
  /\ UNCHANGED <<pc, result>>

(* It was rejected or short: the first error is kept, runOne returns. *)
Failed(w) ==
  /\ at[w] # 0
  /\ out' = [out EXCEPT ![at[w]] = "failed"]
  /\ firstErr' = IF firstErr = NoErr THEN F!Error(at[w]) ELSE firstErr
  /\ at' = [at EXCEPT ![w] = 0]
  /\ UNCHANGED <<pc, nextIdx, result>>

(* Mutant: the first runOne to return settles the batch. *)
AwaitAny ==
  /\ pc = "awaiting" /\ \E w \in Pool : at[w] = 0
  /\ pc' = "returned"
  /\ result' = IF firstErr = NoErr THEN F!Ok ELSE firstErr
  /\ UNCHANGED <<nextIdx, at, out, firstErr>>

(* Mutant: it polls until every op has been read. *)
AwaitEveryRead ==
  /\ pc = "awaiting" /\ \A w \in Pool : at[w] = 0
  /\ \/ /\ \A i \in Ops : out[i] # "empty"
        /\ pc' = "returned"
        /\ result' = IF firstErr = NoErr THEN F!Ok ELSE firstErr
     \/ UNCHANGED <<pc, result>>
  /\ UNCHANGED <<nextIdx, at, out, firstErr>>

(* Promise.all(pool), then the error or the buffers. *)
Await ==
  /\ pc = "awaiting" /\ \A w \in Pool : at[w] = 0
  /\ pc' = "returned"
  /\ result' = IF firstErr = NoErr THEN F!Ok ELSE firstErr
  /\ UNCHANGED <<nextIdx, at, out, firstErr>>

Turn(w) == Full(w) \/ Failed(w)
Step == Begin \/ (\E w \in Pool : Turn(w)) \/ Await
Done == pc = "returned" /\ UNCHANGED vars
Next == Step \/ Done

Fairness == WF_vars(Begin \/ Await) /\ \A w \in Pool : WF_vars(Turn(w))
Spec == Init /\ [][Next]_vars
FairSpec == Init /\ [][Next]_vars /\ Fairness
-----------------------------------------------------------------------------
(* fetchAll is a Fetch with as many reads in progress as asked for. *)
TsImplementsFetch == F!Spec

(* Once a read has failed no other one is started. *)
TsStopsAfterError == [][firstErr # NoErr => nextIdx' = nextIdx]_vars

(* fetchAll settles, whatever fails. *)
TsReturns == <>(result # F!Pending)
=============================================================================
