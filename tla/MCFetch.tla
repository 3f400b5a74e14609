------------------------------ MODULE MCFetch ------------------------------
(***************************************************************************)
(* The parts of a cost-aware read, each on its own: Plan on every sequence *)
(* of a few ranges in a file of a few bytes; a batch of ops read by        *)
(* Fetcher.Execute of the Go SDK, by fetchAll of the TypeScript SDK, and   *)
(* by execute of the Python SDK with a pool of two threads and with one    *)
(* worker.  They share no state: a behaviour runs one of them.             *)
(***************************************************************************)
EXTENDS Planner

CONSTANTS MaxRanges, MaxOffset, MaxLength

Sorted(s) == \A i \in 1 .. Len(s) - 1 : s[i].offset <= s[i + 1].offset
AllRanges == [offset : 0 .. MaxOffset, length : 0 .. MaxLength]
AllInputs == UNION {{s \in [1 .. n -> AllRanges] : Sorted(s)} : n \in 0 .. MaxRanges}

VARIABLES
  runs,      \* the part that runs
  goNext, goPc, goWorker, goBufs, goTokens, goWg, goErr, goDone, goCanceled, goResult,
  tsPc, tsNextIdx, tsAt, tsOut, tsErr, tsResult,
  poolPc, poolFuture, poolNotDone, poolRaised, poolResult,
  onePc, oneFuture, oneNotDone, oneRaised, oneResult

planVars == <<ranges, coalesceGap, splitThreshold, pc, idx, groups, gi, k, op, ops, locations>>
goVars   == <<goNext, goPc, goWorker, goBufs, goTokens, goWg, goErr, goDone, goCanceled, goResult>>
tsVars   == <<tsPc, tsNextIdx, tsAt, tsOut, tsErr, tsResult>>
poolVars == <<poolPc, poolFuture, poolNotDone, poolRaised, poolResult>>
oneVars  == <<onePc, oneFuture, oneNotDone, oneRaised, oneResult>>
allVars  == <<runs, planVars, goVars, tsVars, poolVars, oneVars>>

Go == INSTANCE Fetcher WITH N <- 4, MaxConcurrency <- 2, next <- goNext, pc <- goPc,
        worker <- goWorker, bufs <- goBufs, tokens <- goTokens, wg <- goWg, firstErr <- goErr,
        ctxDone <- goDone, canceled <- goCanceled, result <- goResult
Ts == INSTANCE FetchPool WITH N <- 3, MaxConcurrency <- 2, pc <- tsPc, nextIdx <- tsNextIdx,
        at <- tsAt, out <- tsOut, firstErr <- tsErr, result <- tsResult
Threads == INSTANCE PyFetcher WITH N <- 3, Workers <- 2, pc <- poolPc, future <- poolFuture,
             notDone <- poolNotDone, raised <- poolRaised, result <- poolResult
One == INSTANCE PyFetcher WITH N <- 2, Workers <- 1, pc <- onePc, future <- oneFuture,
         notDone <- oneNotDone, raised <- oneRaised, result <- oneResult

AllInit ==
  /\ runs \in {"plan", "go", "ts", "threads", "one"}
  /\ Init /\ Go!Init /\ Ts!Init /\ Threads!Init /\ One!Init
  /\ runs # "plan" => ranges = <<>> /\ coalesceGap = 0 /\ splitThreshold = 0

AllNext ==
  /\ \/ runs = "plan" /\ Next /\ UNCHANGED <<goVars, tsVars, poolVars, oneVars>>
     \/ runs = "go" /\ Go!Next /\ UNCHANGED <<planVars, tsVars, poolVars, oneVars>>
     \/ runs = "ts" /\ Ts!Next /\ UNCHANGED <<planVars, goVars, poolVars, oneVars>>
     \/ runs = "threads" /\ Threads!Next /\ UNCHANGED <<planVars, goVars, tsVars, oneVars>>
     \/ runs = "one" /\ One!Next /\ UNCHANGED <<planVars, goVars, tsVars, poolVars>>
  /\ UNCHANGED runs

(* The fairness of each part (Fairness of its module), when it runs. *)
AllFairness ==
  /\ WF_goVars(runs = "go" /\ Go!Dispatcher)
  /\ \A i \in Go!Ops : WF_goVars(runs = "go" /\ Go!Worker(i))
  /\ WF_tsVars(runs = "ts" /\ (Ts!Begin \/ Ts!Await))
  /\ \A w \in Ts!Pool : WF_tsVars(runs = "ts" /\ Ts!Turn(w))
  /\ WF_poolVars(runs = "threads" /\ Threads!Caller) /\ WF_poolVars(runs = "threads" /\ Threads!Take)
  /\ \A i \in Threads!Ops : WF_poolVars(runs = "threads" /\ Threads!ReadOne(i))
  /\ WF_oneVars(runs = "one" /\ One!Caller) /\ WF_oneVars(runs = "one" /\ One!Take)
  /\ \A i \in One!Ops : WF_oneVars(runs = "one" /\ One!ReadOne(i))

AllSpec == AllInit /\ [][AllNext]_allVars /\ AllFairness
-----------------------------------------------------------------------------
(* Fetcher.Execute: the token channel and the WaitGroup keep their types.  *)
TypeOK == Go!TypeOK

(* No goroutine outlives Execute, and every token was given back. *)
QuietWhenReturned == Go!QuietWhenReturned

(* Execute is a Fetch, and returns. *)
ImplementsFetch == Go!ImplementsFetch
Returns == runs = "go" => Go!Returns

(* So is fetchAll, which starts no read once one has failed. *)
TsImplementsFetch == Ts!TsImplementsFetch
TsStopsAfterError == Ts!TsStopsAfterError
TsReturns == runs = "ts" => Ts!TsReturns

(* execute answers as a Fetch does and ends, with a pool and without. *)
PyImplementsFetch == Threads!PyImplementsFetch /\ One!PyImplementsFetch
PyReturns == (runs = "threads" => Threads!PyReturns) /\ (runs = "one" => One!PyReturns)
=============================================================================
