------------------------------- MODULE Fetch -------------------------------
(***************************************************************************)
(* What a batch of reads promises, in each of the three SDKs: at most      *)
(* Limit reads are in progress at a time, the answer comes when none is,   *)
(* it is all the buffers only if every read was complete, and an error is  *)
(* one that really happened: that of a read which failed, or a             *)
(* cancellation the caller asked for.                                      *)
(***************************************************************************)
EXTENDS Integers, FiniteSets

CONSTANTS
  Ops,     \* the reads of the batch
  Limit    \* how many may be in progress

VARIABLES
  reads,     \* what became of each read
  canceled,  \* the caller cancelled the context
  result     \* the answer to the caller

Pending  == [kind |-> "pending", op |-> 0]
Ok       == [kind |-> "ok", op |-> 0]
Canceled == [kind |-> "canceled", op |-> 0]
Error(i) == [kind |-> "error", op |-> i]

States == {"unread", "reading", "full", "failed"}
Moves == {<<s, s>> : s \in States}
           \cup {<<"unread", "reading">>, <<"reading", "full">>, <<"reading", "failed">>}

Reading == {i \in Ops : reads[i] = "reading"}

Init ==
  /\ reads = [i \in Ops |-> "unread"]
  /\ canceled = FALSE
  /\ result = Pending

Cancel ==
  /\ canceled' = TRUE
  /\ UNCHANGED <<reads, result>>

(* Reads start, and reads in progress end, several at once if need be. *)
Advance ==
  /\ result = Pending
  /\ reads' \in [Ops -> States]
  /\ \A i \in Ops : <<reads[i], reads'[i]>> \in Moves
  /\ Cardinality({i \in Ops : reads'[i] = "reading"}) <= Limit
  /\ UNCHANGED <<canceled, result>>

Return(answer) ==
  /\ result = Pending
  /\ Reading = {}
  /\ \/ answer = Ok /\ \A i \in Ops : reads[i] = "full"
     \/ answer = Canceled /\ canceled
     \/ \E i \in Ops : answer = Error(i) /\ reads[i] = "failed"
  /\ result' = answer
  /\ UNCHANGED <<reads, canceled>>

Next ==
  \/ Cancel
  \/ Advance
  \/ \E answer \in {Ok, Canceled} \cup {Error(i) : i \in Ops} : Return(answer)

vars == <<reads, canceled, result>>
Spec == Init /\ [][Next]_vars
=============================================================================
