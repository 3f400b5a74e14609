------------------------------- MODULE Reader -------------------------------
(***************************************************************************)
(* Reader (go/turbodata/reader.go, and what sampler.go and multi_reader.go *)
(* add to it): the summary at the end of a file, read once and kept, and   *)
(* the names under which topics are exposed.                               *)
(*                                                                         *)
(* A file on disk is [groups, size, summaryLen, valid, remap]: the groups  *)
(* that its summary describes, its length and that of the summary in       *)
(* bytes, whether its footer has the magic number, and the remap its       *)
(* Reader was given, from names to exposed names.  In a file, a topic's id *)
(* stands for its name.                                                    *)
(***************************************************************************)
EXTENDS Sampler

VARIABLES
  disk,      \* the files, one per Reader
  readers,   \* [size, summary, rename, bounded]: the fields of the Readers
  step       \* of summaryWithHint: "size", "tail", "rest"; "ready", "failed", "panic"

readerVars == <<disk, readers, step>>

FooterLen == 13
NoSummary == [from |-> 0, len |-> 0]

(* The fields of NewReader.  A size of 0 is not known yet; the summary is  *)
(* the bytes it was decoded from; rename is "none" before prepareRename,   *)
(* then "ok" or "clash"; bounded tells whether topicBounds is cached.      *)
NewReader == [size |-> 0, summary |-> NoSummary, rename |-> "none", bounded |-> FALSE]
-----------------------------------------------------------------------------
(* summaryWithHint. *)

(* Mutant: a Reader that knows the size has loaded. *)
SizeIsEnough(r) == IF readers[r].size = 0 THEN "size" ELSE "ready"

StepFor(r) == IF readers[r].summary # NoSummary THEN "ready" ELSE IF readers[r].size = 0 THEN "size" ELSE "tail"

Seek(r) ==
  /\ step = "size"
  /\ \/ readers' = [readers EXCEPT ![r].size = disk[r].size] /\ step' = "tail"
     \/ step' = "failed" /\ UNCHANGED readers

(* Mutant: the footer is not taken off. *)
SummaryAtEnd(window, len) == window - len

(* Where the summary begins in the last bytes of a file. *)
SummaryStart(window, len) == window - FooterLen - len

Window(r, hint) ==
  LET n == IF hint <= 0 THEN FooterLen ELSE hint
  IN  IF n > readers[r].size THEN readers[r].size ELSE n

(* What decompression and decoding make of len bytes: they fail unless     *)
(* those are the summary.                                                  *)
Decode(r, from, len) ==
  /\ readers' = [readers EXCEPT ![r].summary = [from |-> from, len |-> len]]
  /\ step' = "ready"

(* A window that is shorter than the footer is sliced below its start. *)
ReadTail(r, hint) ==
  LET n == Window(r, hint)
      len == disk[r].summaryLen
  IN  /\ step = "tail"
      /\ \/ step' = "failed" /\ UNCHANGED readers
         \/ /\ readers[r].size >= FooterLen /\ n < FooterLen
            /\ step' = "panic" /\ UNCHANGED readers
         \/ /\ readers[r].size >= FooterLen /\ n >= FooterLen /\ disk[r].valid
            /\ IF n >= len + FooterLen
               THEN Decode(r, readers[r].size - n + SummaryStart(n, len), len)
               ELSE step' = "rest" /\ UNCHANGED readers

ReadRest(r) ==
  /\ step = "rest"
  /\ \/ step' = "failed" /\ UNCHANGED readers
     \/ Decode(r, SummaryStart(readers[r].size, disk[r].summaryLen), disk[r].summaryLen)

LoadSummary(r, hint) ==
  /\ Seek(r) \/ ReadTail(r, hint) \/ ReadRest(r)
  /\ UNCHANGED disk
-----------------------------------------------------------------------------
(* Names. *)

Groups(r) == disk[r].groups
Names(r) == UNION {Groups(r)[g].ids : g \in DOMAIN Groups(r)}
Exposed(r, name) == IF name \in DOMAIN disk[r].remap THEN disk[r].remap[name] ELSE name

(* Mutant: the second call does not see the error of the first. *)
RenameFailsOnce(r) ==
  /\ readers[r].rename = "none"
  /\ \E a, b \in Names(r) : a # b /\ Exposed(r, a) = Exposed(r, b)

(* prepareRename fails if two topics get the same exposed name; it is      *)
(* asked once, and its answer is kept.                                     *)
RenameFails(r) ==
  IF readers[r].rename # "none" THEN readers[r].rename = "clash"
  ELSE \E a, b \in Names(r) : a # b /\ Exposed(r, a) = Exposed(r, b)
Renamed(r) == [readers EXCEPT ![r].rename = IF RenameFails(r) THEN "clash" ELSE "ok"]

(* The callers ask only if there is a remap; topicBounds asks always. *)
HasRemap(r) == DOMAIN disk[r].remap # {}
RenameRefused(r) == HasRemap(r) /\ RenameFails(r)
AfterRename(r) == IF HasRemap(r) THEN Renamed(r) ELSE readers

(* A name that is not exposed passes through. *)
InFile(r, name) ==
  IF \E n \in Names(r) : Exposed(r, n) = name THEN CHOOSE n \in Names(r) : Exposed(r, n) = name
  ELSE name

(* topicBounds: groups without chunks are left out. *)
Bounds(r) ==
  LET written == {g \in DOMAIN Groups(r) : Groups(r)[g].chunks # <<>>}
      Of(name) == CHOOSE g \in written : \E n \in Groups(r)[g].ids : Exposed(r, n) = name
      Bound(g) == [video |-> Groups(r)[g].video,
                   min |-> Min({c.start : c \in ToSet(Groups(r)[g].chunks)}),
                   max |-> Max({c.end : c \in ToSet(Groups(r)[g].chunks)})]
  IN  [name \in {Exposed(r, n) : n \in UNION {Groups(r)[g].ids : g \in written}} |-> Bound(Of(name))]

(* validateSampleQueries and validateMultiSampleQueries. *)
ValidQueries(queries, known) ==
  /\ \A i \in DOMAIN queries :
       /\ queries[i].topic \in known
       /\ \A j \in 1 .. Len(queries[i].ts) - 1 : queries[i].ts[j] < queries[i].ts[j + 1]
  /\ \A i, j \in DOMAIN queries : queries[i].topic = queries[j].topic => i = j
-----------------------------------------------------------------------------
(* The summary a Reader keeps is the one its file ends with, whatever was  *)
(* prefetched and however many reads failed before.                        *)
SummaryIsTheFiles ==
  \A r \in DOMAIN readers :
    readers[r].summary # NoSummary =>
      /\ disk[r].valid
      /\ readers[r].summary.from + readers[r].summary.len + FooterLen = disk[r].size
      /\ readers[r].summary.len = disk[r].summaryLen
=============================================================================
