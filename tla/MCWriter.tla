------------------------------ MODULE MCWriter ------------------------------
(***************************************************************************)
(* Small instances of the Go and the Python Writer for TLC.  A run         *)
(* explores several callers, one after the other: each is a small bound on *)
(* everything but what it is about.                                        *)
(***************************************************************************)
EXTENDS PyWriter

CONSTANTS a, b, v, w

Request(names, mode, limit, compressed, video) ==
  [names |-> names, metadatas |-> Len(names), optionFails |-> FALSE, mode |-> mode, limit |-> limit, compressed |-> compressed, video |-> video]

(* Two message groups, the first shared by two topics and compressed. *)
PlainRequests ==
  {Request(<<a, b>>, "size", 3, TRUE, FALSE), Request(<<v>>, "count", 2, FALSE, FALSE)}

(* A message group and a video group, for the runs whose output fails. *)
FaultRequests ==
  {Request(<<a>>, "count", 2, FALSE, FALSE), Request(<<v>>, "size", 2, FALSE, TRUE)}

(* The three threshold modes on one topic, and on a video topic. *)
ModeRequests ==
  {Request(<<a>>, m, 2, FALSE, FALSE) : m \in Modes}
VideoRequests ==
  {Request(<<v>>, m, 2, FALSE, TRUE) : m \in Modes}

SignedTimes == {-1, 0, 1, 2}

(* A group of two topics, for payloads of no bytes, and two groups that    *)
(* have more topics together than there are ids.                           *)
TieRequests == {Request(<<a, b>>, m, 2, FALSE, FALSE) : m \in {"size", "count"}}
ManyRequests == {Request(<<a, b>>, "count", 1, FALSE, FALSE), Request(<<v, w>>, "count", 1, FALSE, FALSE)}

(* Requests the guards refuse: none, metadata for no name, an option that  *)
(* fails, a repeated name, a video group of two topics, a compressed one.  *)
BadRequests ==
  {Request(<<>>, "count", 2, FALSE, FALSE),
   [Request(<<>>, "count", 2, FALSE, FALSE) EXCEPT !.metadatas = 1],
   [Request(<<b>>, "count", 2, FALSE, FALSE) EXCEPT !.optionFails = TRUE],
   Request(<<a, a>>, "count", 2, FALSE, FALSE),
   Request(<<v, w>>, "count", 2, FALSE, TRUE), Request(<<w>>, "count", 2, TRUE, TRUE),
   Request(<<v>>, "count", 2, FALSE, TRUE), Request(<<a>>, "count", 2, FALSE, FALSE)}
-----------------------------------------------------------------------------
VARIABLE caller

Callers ==
  { \* two groups, one of two topics and compressed; ids wrap
    [sdk |-> "go", requests |-> PlainRequests, lens |-> {1, 2}, times |-> {0, 1}, packed |-> {1, 2},
     msgs |-> 3, closes |-> 1, faults |-> FALSE],
    \* the output fails, in any call, and Close is tried again
    [sdk |-> "go", requests |-> FaultRequests, lens |-> {1}, times |-> {1}, packed |-> {1, 2},
     msgs |-> 3, closes |-> 2, faults |-> TRUE],
    \* the three thresholds and payloads of no bytes
    [sdk |-> "go", requests |-> ModeRequests, lens |-> {0, 1, 2}, times |-> SignedTimes, packed |-> {1},
     msgs |-> 3, closes |-> 1, faults |-> FALSE],
    \* the same for video
    [sdk |-> "go", requests |-> VideoRequests, lens |-> {0, 1}, times |-> {0, 2}, packed |-> {1},
     msgs |-> 4, closes |-> 1, faults |-> FALSE],
    \* calls the Writer refuses, and the panics that may follow
    [sdk |-> "go", requests |-> BadRequests, lens |-> {1}, times |-> {0, 1}, packed |-> {1},
     msgs |-> 3, closes |-> 2, faults |-> FALSE],
    \* two topics that share offsets
    [sdk |-> "go", requests |-> TieRequests, lens |-> {0, 1}, times |-> {0, 1}, packed |-> {1},
     msgs |-> 3, closes |-> 1, faults |-> FALSE],
    \* more topics than ids
    [sdk |-> "go", requests |-> ManyRequests, lens |-> {1}, times |-> {0}, packed |-> {1},
     msgs |-> 3, closes |-> 1, faults |-> FALSE],
    \* Python: the same, and a compressed group of two topics
    [sdk |-> "py", requests |-> TieRequests, lens |-> {0, 1}, times |-> {0, 1}, packed |-> {1},
     msgs |-> 3, closes |-> 1, faults |-> FALSE],
    [sdk |-> "py", requests |-> {Request(<<a, b>>, "size", 3, TRUE, FALSE)}, lens |-> {2}, times |-> {0, 1},
     packed |-> {1, 2}, msgs |-> 3, closes |-> 1, faults |-> FALSE],
    \* an output that fails, also by taking a part, and callers that go on
    [sdk |-> "py", requests |-> FaultRequests, lens |-> {1}, times |-> {1}, packed |-> {1},
     msgs |-> 3, closes |-> 1, faults |-> TRUE],
    \* and that close again
    [sdk |-> "py", requests |-> FaultRequests, lens |-> {2}, times |-> {1}, packed |-> {2},
     msgs |-> 1, closes |-> 2, faults |-> TRUE],
    \* calls it refuses
    [sdk |-> "py", requests |-> BadRequests, lens |-> {1}, times |-> {0, 1}, packed |-> {1},
     msgs |-> 3, closes |-> 1, faults |-> FALSE] }

AllRequests == UNION {c.requests : c \in Callers}

Opens(c, r) == /\ ~r.optionFails /\ DOMAIN c.ids = ToSet(r.names)
               /\ <<c.mode, c.limit, c.compressed, c.video>>
                    = <<r.mode, r.limit, r.compressed, r.video>>

(* A step this caller may bring about: only what the step adds is looked at. *)
ByCaller ==
  /\ log' # log => LET m == Last(log') IN m.len \in caller.lens /\ m.ts \in caller.times
  /\ Len(log') <= caller.msgs /\ closes' <= caller.closes
  /\ sinkFailed' => caller.faults
  /\ ret' \in OpenErrors \ {"ErrTopicAlreadyOpen"} => caller.requests = BadRequests
  /\ config' # config => \E r \in caller.requests : Opens(config', r)
  /\ stream' # stream => LET r == Last(stream')
                         IN  r.kind \in {"index", "summary"} => r.len \in caller.packed

MCInit == PyInit /\ caller \in Callers
MCNext == /\ \/ caller.sdk = "go" /\ Next /\ UNCHANGED marred
             \/ caller.sdk = "py" /\ PyNext
          /\ UNCHANGED caller /\ ByCaller
MCSpec == MCInit /\ [][MCNext]_<<pyVars, caller>>
-----------------------------------------------------------------------------
(* What a Close that reports no error vouches for, of either SDK. *)
CloseMeansComplete == IF caller.sdk = "go" THEN NilMeansComplete ELSE PyCloseComplete

(* writer.py: "Validate up front so a rejected call leaves the Writer      *)
(* unchanged and reusable."  In Python this holds, of a refused video      *)
(* group too.                                                              *)
PyRejectedOpenChangesNothing ==
  [][caller.sdk = "py" /\ ret' \in OpenErrors =>
       UNCHANGED <<topicVars, chunkVars, fileVars, count, closeVars, pc, sinkVars, log>>]_pyVars
=============================================================================
