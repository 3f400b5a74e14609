--------------------------- MODULE MCMultiReader ---------------------------
(***************************************************************************)
(* The sessions TLC explores: pairs of small files with the remaps of      *)
(* their Readers, and the calls a program makes on them.                   *)
(***************************************************************************)
EXTENDS MultiReader, SmallFiles

(* Topics 1 and 2 in one group: topic 1 skips a chunk and comes late in    *)
(* the last one; a video of three groups of pictures; a group of a topic   *)
(* that was never written.                                                 *)
Long(c) ==
  [compressed |-> c, video |-> FALSE, ids |-> {1, 2},
   chunks |-> << <<Msg(1, 1, 1, 1, FALSE), Msg(2, 3, 2, 2, FALSE)>>,
                 <<Msg(2, 4, 3, 1, FALSE)>>,
                 <<Msg(2, 5, 4, 1, FALSE), Msg(1, 6, 5, 1, FALSE)>> >>]
Brief(c, len) ==
  [compressed |-> c, video |-> FALSE, ids |-> {1, 2},
   chunks |-> << <<Msg(2, 2, 11, len, FALSE), Msg(1, 3, 12, 1, FALSE)>>,
                 <<Msg(2, 5, 13, 1, FALSE)>> >>]
Video(t, n) ==
  [compressed |-> FALSE, video |-> TRUE, ids |-> {3},
   chunks |-> << <<Msg(3, t[1], n, 1, TRUE), Msg(3, t[2], n + 1, 2, FALSE), Msg(3, t[3], n + 2, 1, FALSE)>>,
                 <<Msg(3, t[4], n + 3, 1, TRUE), Msg(3, t[5], n + 4, 1, TRUE)>> >>]
Silent == [compressed |-> FALSE, video |-> FALSE, ids |-> {4}, chunks |-> <<>>]

NoRemap == [n \in {} |-> n]
OnDisk(content, summaryLen, remap) ==
  [groups |-> FileOf(content), size |-> 200 + summaryLen + FooterLen, summaryLen |-> summaryLen,
   valid |-> TRUE, remap |-> remap]
First(c) == OnDisk(<<Long(c), Video(<<1, 2, 2, 3, 5>>, 21)>>, 7, NoRemap)
Second(c, len, u, m) == OnDisk(<<Brief(c, len), Video(u, 31), Silent>>, 9, m)

(* The second video comes after the first, or begins with its last frame;  *)
(* its Reader has no remap, renames a topic or lets two collapse.          *)
Apart == <<6, 7, 7, 8, 9>>
Touching == <<5, 6, 6, 7, 8>>
Pairs == {<<First(c), Second(~c, 1, u, m)>> :
            c \in BOOLEAN, u \in {Apart, Touching}, m \in {NoRemap, 2 :> 7, 2 :> 1}}
EmptyPayload == <<Second(FALSE, 0, Apart, NoRemap), First(FALSE)>>
Foreign == [First(TRUE) EXCEPT !.valid = FALSE]
Short == [First(TRUE) EXCEPT !.size = 4]

Query(topic, ts) == [topic |-> topic, ts |-> ts]
Samples(op, r, queries) ==
  {[NoCall EXCEPT !.op = op, !.reader = r, !.queries = q, !.videoDecodable = v] :
     q \in queries, v \in BOOLEAN}
Sensors == <<Query(1, <<0, 2, 5, 9>>), Query(2, <<1, 3>>)>>
Camera == <<Query(3, <<1, 2, 4, 7, 8>>)>>
Bad == {<<Query(8, <<1>>)>>, <<Query(1, <<1>>), Query(1, <<2>>)>>, <<Query(1, <<2, 2>>)>>, <<Query(4, <<3>>)>>}
SampleCalls == Samples("sample", 1, {Sensors, Camera}) \cup Samples("multiSample", 1, {Sensors, Camera, <<>>})
ReadCalls ==
  {[NoCall EXCEPT !.op = "read", !.topics = t, !.videoDecodable = v, !.reverse = rev] :
     t \in {{}, {1, 3}, {2}}, v \in BOOLEAN, rev \in BOOLEAN}
SummaryCall(r) == [NoCall EXCEPT !.op = "summary", !.reader = r]
Odd == Samples("sample", 2, Bad \cup {Sensors, <<Query(7, <<1, 3>>)>>}) \cup Samples("multiSample", 1, Bad)
Hinted(p) == [NoCall EXCEPT !.op = "sample", !.queries = <<Query(2, <<3>>)>>, !.prefetch = p]

Scripts(disks, scripts) == {[disk |-> d, script |-> s] : d \in disks, s \in scripts}

TwoFiles ==
  Scripts(Pairs, {<<c>> : c \in SampleCalls \cup ReadCalls})
  \cup Scripts({EmptyPayload}, {<<c>> : c \in SampleCalls})
  \cup Scripts({<<First(TRUE), Second(FALSE, 1, Apart, m)>> : m \in {NoRemap, 2 :> 7, 2 :> 1}},
               {<<SummaryCall(2), c>> : c \in Odd}
               \cup {<<c, SummaryCall(2)>> : c \in Samples("multiSample", 1, {Sensors})}
               \cup {<<c, c>> : c \in Samples("multiSample", 1, {Camera})})
  \cup Scripts({<<f>> : f \in {First(TRUE), Foreign, Short}},
               {<<Hinted(p), Hinted(q)>> : p \in {0, 5, 13, 19, 20, 300}, q \in {0, 20}})
=============================================================================
