------------------------------ MODULE Fetcher ------------------------------
(***************************************************************************)
(* Fetcher.Execute of the Go SDK (internal/iorange/fetcher.go): one        *)
(* dispatcher goroutine takes a token per op from a channel and starts a   *)
(* goroutine that reads it; a failed read sets the error, then cancels     *)
(* the context the dispatcher selects on.                                  *)
(***************************************************************************)
EXTENDS Integers, FiniteSets

CONSTANTS
  N,               \* number of ops
  MaxConcurrency   \* as given to NewFetcher

(* What NewFetcher and Execute may be given. *)
FetcherInput == N \in Nat /\ MaxConcurrency \in Int

Ops == 1 .. N

(* NewFetcher: maxConcurrency <= 0 means 1. *)
Workers == IF MaxConcurrency <= 0 THEN 1 ELSE MaxConcurrency

VARIABLES
  next,      \* index of the op the dispatcher is at
  pc,        \* the dispatcher: "loop", "drain" (after ctx.Done), "wait", "returned"
  worker,    \* the goroutine of each op
  bufs,      \* what became of each buffer: "empty", "full" or "failed"
  tokens,    \* tokens in the channel
  wg,        \* the WaitGroup's counter
  firstErr,
  ctxDone,   \* the derived context is cancelled
  canceled,  \* the caller's context is cancelled
  result

vars == <<next, pc, worker, bufs, tokens, wg, firstErr, ctxDone, canceled, result>>

Reads == [i \in Ops |-> IF worker[i] = "none" THEN "unread"
                        ELSE IF worker[i] = "reading" THEN "reading" ELSE bufs[i]]

F == INSTANCE Fetch WITH Limit <- Workers, reads <- Reads

NoErr == [kind |-> "none", op |-> 0]

Init ==
  /\ next = 1
  /\ pc = "loop"
  /\ worker = [i \in Ops |-> "none"]
  /\ bufs = [i \in Ops |-> "empty"]
  /\ tokens = 0
  /\ wg = 0
  /\ firstErr = NoErr
  /\ ctxDone = FALSE
  /\ canceled = FALSE
  /\ result = F!Pending
-----------------------------------------------------------------------------
(* The caller cancels: the derived context follows its parent. *)
CallerCancels ==
  /\ canceled' = TRUE
  /\ ctxDone' = TRUE
  /\ UNCHANGED <<next, pc, worker, bufs, tokens, wg, firstErr, result>>

(* The select, when a token is free: it may take the token although the    *)
(* context is done, the choice between ready cases is random.              *)
Dispatch ==
  /\ pc = "loop" /\ next <= N
  /\ tokens < Workers
  /\ tokens' = tokens + 1
  /\ wg' = wg + 1
  /\ worker' = [worker EXCEPT ![next] = "reading"]
  /\ next' = next + 1
  /\ UNCHANGED <<pc, bufs, firstErr, ctxDone, canceled, result>>

(* The select, when the context is done. *)
SeeDone ==
  /\ pc = "loop" /\ next <= N
  /\ ctxDone
  /\ firstErr' = IF firstErr = NoErr THEN F!Canceled ELSE firstErr
  /\ pc' = "drain"
  /\ UNCHANGED <<next, worker, bufs, tokens, wg, ctxDone, canceled, result>>

EndLoop ==
  /\ pc = "loop" /\ next > N
  /\ pc' = "wait"
  /\ UNCHANGED <<next, worker, bufs, tokens, wg, firstErr, ctxDone, canceled, result>>

(* Mutant: the error path returns without waiting. *)
ReturnErrorAtOnce ==
  /\ pc = "drain"
  /\ pc' = "returned"
  /\ result' = firstErr
  /\ UNCHANGED <<next, worker, bufs, tokens, wg, firstErr, ctxDone, canceled>>

(* wg.Wait and return after ctx.Done was seen. *)
ReturnError ==
  /\ pc = "drain" /\ wg = 0
  /\ pc' = "returned"
  /\ result' = firstErr
  /\ UNCHANGED <<next, worker, bufs, tokens, wg, firstErr, ctxDone, canceled>>

(* wg.Wait and return when every op was dispatched. *)
Return ==
  /\ pc = "wait" /\ wg = 0
  /\ pc' = "returned"
  /\ result' = IF firstErr # NoErr THEN firstErr ELSE F!Ok
  /\ UNCHANGED <<next, worker, bufs, tokens, wg, firstErr, ctxDone, canceled>>

Dispatcher == Dispatch \/ SeeDone \/ EndLoop \/ ReturnError \/ Return
-----------------------------------------------------------------------------
(* ReadAt returns: all the bytes (an EOF with all the bytes is none), or   *)
(* an error, or fewer bytes, which is one too.                             *)
ReadAt(i) ==
  /\ worker[i] = "reading"
  /\ \/ /\ bufs' = [bufs EXCEPT ![i] = "full"]
        /\ worker' = [worker EXCEPT ![i] = "leaving"]
     \/ /\ bufs' = [bufs EXCEPT ![i] = "failed"]
        /\ worker' = [worker EXCEPT ![i] = "failing"]
  /\ UNCHANGED <<next, pc, tokens, wg, firstErr, ctxDone, canceled, result>>

(* Mutant: the context is cancelled before the error is set. *)
CancelFirst(i) ==
  /\ worker[i] = "failing"
  /\ ctxDone' = TRUE
  /\ worker' = [worker EXCEPT ![i] = "canceling"]
  /\ UNCHANGED <<next, pc, bufs, tokens, wg, firstErr, canceled, result>>

(* setErr: the first error is kept. *)
SetErr(i) ==
  /\ worker[i] = "failing"
  /\ firstErr' = IF firstErr = NoErr THEN F!Error(i) ELSE firstErr
  /\ worker' = [worker EXCEPT ![i] = "canceling"]
  /\ UNCHANGED <<next, pc, bufs, tokens, wg, ctxDone, canceled, result>>

CancelContext(i) ==
  /\ worker[i] = "canceling"
  /\ ctxDone' = TRUE
  /\ worker' = [worker EXCEPT ![i] = "leaving"]
  /\ UNCHANGED <<next, pc, bufs, tokens, wg, firstErr, canceled, result>>

(* Mutants: the token is kept, or given back twice. *)
LeakToken(i) ==
  /\ worker[i] = "leaving"
  /\ worker' = [worker EXCEPT ![i] = "exiting"]
  /\ UNCHANGED <<next, pc, bufs, tokens, wg, firstErr, ctxDone, canceled, result>>
ReleaseTwice(i) ==
  /\ worker[i] = "leaving"
  /\ tokens' = tokens - 2
  /\ worker' = [worker EXCEPT ![i] = "exiting"]
  /\ UNCHANGED <<next, pc, bufs, wg, firstErr, ctxDone, canceled, result>>

(* The deferred calls, last one first: the token, then wg.Done. *)
ReleaseToken(i) ==
  /\ worker[i] = "leaving"
  /\ tokens' = tokens - 1
  /\ worker' = [worker EXCEPT ![i] = "exiting"]
  /\ UNCHANGED <<next, pc, bufs, wg, firstErr, ctxDone, canceled, result>>

WgDone(i) ==
  /\ worker[i] = "exiting"
  /\ wg' = wg - 1
  /\ worker' = [worker EXCEPT ![i] = "done"]
  /\ UNCHANGED <<next, pc, bufs, tokens, firstErr, ctxDone, canceled, result>>

Worker(i) == ReadAt(i) \/ SetErr(i) \/ CancelContext(i) \/ ReleaseToken(i) \/ WgDone(i)
-----------------------------------------------------------------------------
Done == pc = "returned" /\ UNCHANGED vars

Next == CallerCancels \/ Dispatcher \/ (\E i \in Ops : Worker(i)) \/ Done

Spec == Init /\ [][Next]_vars

(* Goroutines are scheduled and every ReadAt returns at some time. *)
Fairness == WF_vars(Dispatcher) /\ \A i \in Ops : WF_vars(Worker(i))

FairSpec == Spec /\ Fairness
-----------------------------------------------------------------------------
WorkerStates == {"none", "reading", "failing", "canceling", "leaving", "exiting", "done"}
Errors == {F!Error(i) : i \in Ops}

(* Types of the variables; a channel of Workers tokens holds no more. *)
TypeOK ==
  /\ next \in 1 .. N + 1
  /\ pc \in {"loop", "drain", "wait", "returned"}
  /\ worker \in [Ops -> WorkerStates]
  /\ bufs \in [Ops -> {"empty", "full", "failed"}]
  /\ tokens \in 0 .. Workers
  /\ wg \in Nat
  /\ firstErr \in Errors \cup {NoErr, F!Canceled}
  /\ ctxDone \in BOOLEAN
  /\ canceled \in BOOLEAN
  /\ result \in Errors \cup {F!Pending, F!Ok, F!Canceled}

(* Execute is a Fetch with as many reads in progress as there are workers. *)
ImplementsFetch == F!Spec

(* No goroutine outlives Execute, and every token was given back. *)
QuietWhenReturned ==
  pc = "returned" => /\ \A i \in Ops : worker[i] \in {"none", "done"}
                     /\ tokens = 0 /\ wg = 0

(* Execute returns, whatever fails and whenever the caller cancels. *)
Returns == <>(result # F!Pending)

(* The comment on Execute: on the first error it stops dispatching new     *)
(* ops.  Once a failed read has cancelled the context no goroutine starts. *)
StopsAfterError == [][ctxDone /\ firstErr \in Errors => next' = next]_vars
=============================================================================
