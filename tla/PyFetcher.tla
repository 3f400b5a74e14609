----------------------------- MODULE PyFetcher -----------------------------
(***************************************************************************)
(* Fetcher.execute of the Python SDK (py/turbodata/_iorange.py): a pool of *)
(* threads takes the ops from a queue; the caller waits for the first      *)
(* exception, cancels the futures that were not done when it woke up, and  *)
(* leaves through the shutdown of the pool.  One worker, or one op, is     *)
(* read by the caller itself.                                              *)
(***************************************************************************)
EXTENDS Integers, FiniteSets

CONSTANTS
  N,        \* number of ops, not 0
  Workers   \* max_concurrency, clamped to 1

(* What execute works on: it answers no ops at once. *)
PyFetcherInput == N \in Nat \ {0} /\ Workers \in Nat \ {0}

Ops == 1 .. N

VARIABLES
  pc,        \* the caller: "serial", "submit", "wait", "cancel", "shutdown", "returned"
  future,    \* of each op: "none", "pending", "running", "full", "failed", "cancelled"
  notDone,   \* what wait returned as not done and is still to be cancelled
  raised,    \* the op whose exception is raised, or 0
  result

vars == <<pc, future, notDone, raised, result>>

Reads == [i \in Ops |-> IF future[i] \in {"none", "pending", "cancelled"} THEN "unread"
                        ELSE IF future[i] = "running" THEN "reading" ELSE future[i]]

F == INSTANCE Fetch WITH Limit <- Workers, reads <- Reads, canceled <- FALSE

In(states) == {i \in Ops : future[i] \in states}

Init ==
  /\ pc = IF Workers = 1 \/ N = 1 THEN "serial" ELSE "submit"
  /\ future = [i \in Ops |-> "none"]
  /\ notDone = {}
  /\ raised = 0
  /\ result = F!Pending
-----------------------------------------------------------------------------
(* The list comprehension of the serial path: the first _read_one that     *)
(* raises ends it.                                                         *)
SerialRead ==
  /\ pc = "serial" /\ In({"running", "failed"}) = {} /\ In({"none"}) # {}
  /\ \E i \in In({"none"}) : /\ \A j \in In({"none"}) : i <= j
                             /\ future' = [future EXCEPT ![i] = "running"]
  /\ UNCHANGED <<pc, notDone, raised, result>>

SerialReturn ==
  /\ pc = "serial" /\ In({"running"}) = {}
  /\ \/ \E i \in In({"failed"}) : result' = F!Error(i)
     \/ In({"full"}) = Ops /\ result' = F!Ok
  /\ pc' = "returned"
  /\ UNCHANGED <<future, notDone, raised>>

(* pool.submit, in the order of the ops. *)
Submit ==
  /\ pc = "submit"
  /\ \E i \in In({"none"}) : /\ \A j \in In({"none"}) : i <= j
                             /\ future' = [future EXCEPT ![i] = "pending"]
                             /\ pc' = IF i = N THEN "wait" ELSE pc
  /\ UNCHANGED <<notDone, raised, result>>

(* wait returns: done holds an exception, one of which is picked, or       *)
(* everything is done.                                                     *)
Wake ==
  /\ pc = "wait"
  /\ \/ /\ In({"failed"}) # {}
        /\ raised' \in In({"failed"})
        /\ notDone' = In({"pending", "running"})
        /\ pc' = "cancel"
     \/ /\ In({"full"}) = Ops
        /\ pc' = "shutdown"
        /\ UNCHANGED <<notDone, raised>>
  /\ UNCHANGED <<future, result>>

(* Mutants: the pool is left without waiting; a future that was not        *)
(* cancelled is waited for until it is.                                    *)
LeaveAtOnce ==
  /\ pc = "shutdown"
  /\ pc' = "returned"
  /\ result' = IF raised = 0 THEN F!Ok ELSE F!Error(raised)
  /\ UNCHANGED <<future, notDone, raised>>
CancelUntilGone ==
  /\ pc = "cancel"
  /\ \/ \E i \in notDone :
          /\ future[i] = "pending"
          /\ notDone' = notDone \ {i}
          /\ future' = [future EXCEPT ![i] = "cancelled"]
          /\ pc' = pc
     \/ notDone = {} /\ pc' = "shutdown" /\ UNCHANGED <<future, notDone>>
     \/ UNCHANGED <<pc, future, notDone>>
  /\ UNCHANGED <<raised, result>>

(* nd.cancel() on each: only a future no thread has taken is cancelled. *)
Cancel ==
  /\ pc = "cancel"
  /\ \/ \E i \in notDone :
          /\ notDone' = notDone \ {i}
          /\ future' = IF future[i] = "pending" THEN [future EXCEPT ![i] = "cancelled"] ELSE future
          /\ pc' = pc
     \/ notDone = {} /\ pc' = "shutdown" /\ UNCHANGED <<future, notDone>>
  /\ UNCHANGED <<raised, result>>

(* The end of the with statement: shutdown(wait=True). *)
Shutdown ==
  /\ pc = "shutdown" /\ In({"pending", "running"}) = {}
  /\ pc' = "returned"
  /\ result' = IF raised = 0 THEN F!Ok ELSE F!Error(raised)
  /\ UNCHANGED <<future, notDone, raised>>

Caller == SerialRead \/ SerialReturn \/ Submit \/ Wake \/ Cancel \/ Shutdown
-----------------------------------------------------------------------------
(* A thread of the pool takes the oldest future of the queue. *)
Take ==
  /\ Cardinality(In({"running"})) < Workers
  /\ \E i \in In({"pending"}) : /\ \A j \in In({"pending"}) : i <= j
                                /\ future' = [future EXCEPT ![i] = "running"]
  /\ UNCHANGED <<pc, notDone, raised, result>>

(* _read_one ends: with all the bytes, or with an exception (a short read  *)
(* is one).                                                                *)
ReadOne(i) ==
  /\ future[i] = "running"
  /\ \E outcome \in {"full", "failed"} : future' = [future EXCEPT ![i] = outcome]
  /\ UNCHANGED <<pc, notDone, raised, result>>

Step == Caller \/ Take \/ \E i \in Ops : ReadOne(i)
Done == pc = "returned" /\ UNCHANGED vars
Next == Step \/ Done

Fairness == WF_vars(Caller) /\ WF_vars(Take) /\ \A i \in Ops : WF_vars(ReadOne(i))
Spec == Init /\ [][Next]_vars
FairSpec == Init /\ [][Next]_vars /\ Fairness
-----------------------------------------------------------------------------
(* execute is a Fetch, with as many reads in progress as there are workers.*)
PyImplementsFetch == F!Spec

(* execute ends, whatever fails. *)
PyReturns == <>(result # F!Pending)
=============================================================================
