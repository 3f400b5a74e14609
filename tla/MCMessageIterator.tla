------------------------- MODULE MCMessageIterator -------------------------
(***************************************************************************)
(* Small files of a group of two topics and of a video, each query of      *)
(* which is served twice, lazily and then cost-aware, by the iterator of   *)
(* each SDK.                                                               *)
(***************************************************************************)
EXTENDS PortIterator, SmallFiles

CONSTANTS
  Contents,   \* sequences of [compressed, video, ids, chunks], chunks of messages
  Sdks        \* whose iterators: "go", "ts", "py"

VARIABLES
  lazily,     \* what the lazy iterator delivered, when it reached io.EOF
  told        \* history: some call returned an error

ContentFiles == {FileOf(c) : c \in Contents}

(* Two topics in two chunks, the second of one message, and a video with   *)
(* two groups of pictures in two chunks; times may be equal.               *)
Sensors(ids, t, len, compressed) ==
  [compressed |-> compressed, video |-> FALSE, ids |-> {1, 2},
   chunks |-> << <<Msg(ids[1], t[1], 1, len[1], FALSE), Msg(ids[2], t[2], 2, len[2], FALSE)>>,
                 <<Msg(ids[3], t[3], 3, len[3], FALSE)>> >>]
Video(t) ==
  [compressed |-> FALSE, video |-> TRUE, ids |-> {3},
   chunks |-> << <<Msg(3, t[1], 4, 1, TRUE), Msg(3, t[2], 5, 1, FALSE)>>,
                 <<Msg(3, t[3], 6, 2, TRUE), Msg(3, t[4], 7, 1, FALSE)>> >>]

(* A topic that has no message in the second of three chunks. *)
Skipped ==
  [compressed |-> FALSE, video |-> FALSE, ids |-> {1, 2},
   chunks |-> << <<Msg(1, 1, 1, 1, FALSE)>>, <<Msg(2, 2, 2, 1, FALSE)>>,
                 <<Msg(1, 2, 3, 1, FALSE), Msg(1, 3, 8, 1, FALSE), Msg(1, 4, 9, 1, FALSE)>> >>]


(* Videos with more groups of pictures: two in one chunk, a delta frame    *)
(* with the time of the next key frame in the same chunk and in the chunk  *)
(* before, and a gap between two chunks.                                   *)
Pictures(t) ==
  [compressed |-> TRUE, video |-> TRUE, ids |-> {3},
   chunks |-> << <<Msg(3, t[1], 4, 1, TRUE), Msg(3, t[2], 5, 1, FALSE), Msg(3, t[3], 6, 1, TRUE)>>,
                 <<Msg(3, t[4], 7, 1, TRUE), Msg(3, t[5], 8, 1, FALSE)>> >>]

(* In one chunk a message of no bytes and a later one of another topic     *)
(* that follows it at the same offset.                                     *)
Tied ==
  [compressed |-> TRUE, video |-> FALSE, ids |-> {1, 2},
   chunks |-> << <<Msg(2, 1, 1, 0, FALSE), Msg(1, 2, 2, 1, FALSE)>>, <<Msg(2, 3, 3, 1, FALSE)>> >>]

AllContents ==
  {<<Sensors(ids, t, <<1, 2, 1>>, c), Video(u)>> :
     ids \in {<<1, 2, 1>>, <<2, 1, 1>>}, t \in {<<1, 2, 3>>, <<2, 2, 2>>, <<1, 1, 3>>},
     u \in {<<1, 2, 3, 4>>, <<2, 2, 2, 3>>}, c \in BOOLEAN}
  \cup {<<Sensors(<<1, 2, 1>>, <<1, 2, 2>>, <<0, 2, 0>>, TRUE), Video(<<1, 2, 3, 4>>)>>,
        <<Skipped, Video(<<1, 2, 3, 4>>)>>, <<Tied, Video(<<1, 2, 3, 4>>)>>}
  \cup {<<Pictures(t)>> : t \in {<<1, 2, 3, 4, 5>>, <<1, 2, 2, 4, 5>>, <<1, 1, 2, 2, 3>>, <<1, 1, 1, 4, 5>>}}

(* A file in which nothing is special. *)
PlainContents == {<<Sensors(<<1, 2, 1>>, <<1, 2, 3>>, <<1, 2, 1>>, FALSE)>>}

(* A video with a gap between its two chunks. *)
GapContents == {<<Video(<<1, 2, 4, 5>>)>>}

(* A payload of no bytes in a group that is not compressed. *)
EmptyContents == {<<Sensors(ids, <<1, 2, 3>>, <<0, 1, 1>>, FALSE)>> : ids \in {<<1, 2, 1>>, <<1, 1, 1>>}}

AllQueries ==
  {[ids |-> ids, start |-> r[1], end |-> r[2], reverse |-> rev, videoDecodable |-> v, costAware |-> FALSE] :
     ids \in {{1, 2, 3}, {1, 3}, {2}, {9}}, r \in {<<1, 4>>, <<2, 2>>, <<3, 4>>, <<4, 5>>, <<3, 5>>}, rev \in BOOLEAN, v \in BOOLEAN}

MCInit == SdkInit /\ sdk \in Sdks /\ lazily = <<>> /\ told = FALSE

(* The same query again, with a ReadStrategy. *)
Again ==
  /\ result = "eof" /\ ~failed /\ ~query.costAware
  /\ lazily' = delivered
  /\ query' = [query EXCEPT !.costAware = TRUE]
  /\ pc' = "start" /\ iters' = <<>> /\ pulled' = 0 /\ heap' = <<>> /\ loaded' = FALSE
  /\ popped' = NoMessage /\ ranges' = <<>> /\ delivered' = <<>> /\ result' = "none"
  /\ UNCHANGED <<file, failed, sdk, told>>

MCNext == \/ SdkNext /\ UNCHANGED lazily /\ told' = (told \/ result' = "error")
          \/ Again
MCSpec == MCInit /\ [][MCNext]_<<portVars, lazily, told>>
-----------------------------------------------------------------------------
(* The cost-aware path delivers what the default path does, in the same    *)
(* order and with the same bytes, whatever the heap does with ties, as     *)
(* long as no read or decompression has failed.                            *)
PathsAgree == query.costAware /\ ~failed => IF result = "eof" THEN delivered = lazily ELSE IsPrefix(delivered, lazily)

(* io.EOF hides nothing: if no call has returned an error, all that was    *)
(* asked for was delivered.  A lazy read that fails with io.EOF is taken   *)
(* for the end of its group.                                               *)
EofHidesNothing ==
  result = "eof" /\ ~told =>
    \A g \in DOMAIN file : \A id \in file[g].ids : Len(Of(id)) = Len(Expected(g, id))

(* A call of NextInto, of next() or of __next__ ends: every step of it     *)
(* either returns to the caller or leaves less to do.                      *)
Running == pc \in {"pull", "chunk", "pop"}
CallsEnd == [][Running => ~Running' \/ Todo(sdk # "py")' < Todo(sdk # "py")]_portVars
=============================================================================
