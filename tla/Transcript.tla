------------------------------ MODULE Transcript ------------------------------
(***************************************************************************)
(* Reading a page of a Claude transcript backwards from a byte position    *)
(* (internal/claude/transcript_history.go).  A file is                     *)
(* [recs, tail, ids, binding]: whole records, the bytes of the one being   *)
(* written, how many were ever written, and the registration.  A record is *)
(* [id, size, blocks]; a block is [kind, tool, text].  Records that are    *)
(* not shown (later than the registration, side chains) have no blocks; no *)
(* record has more than MaxRows of them.                                   *)
(***************************************************************************)
EXTENDS Integers, Sequences, FiniteSets, SequencesExt, FiniteSetsExt

CONSTANTS
  Window,       \* maxSessionBytes: what one read may take
  Anchor,       \* the bytes before a position that a cursor remembers
  MaxRows       \* maxRows

Failed == [ok |-> FALSE]
NoCursor == [kind |-> "none"]

RecordEnd(f, i) == MapThenSumSet(LAMBDA k : f.recs[k].size, 1..i)
FileSize(f) == RecordEnd(f, Len(f.recs)) + f.tail
(* The records that end, newline included, in the bytes lo..hi-1.            *)
EndingIn(f, lo, hi) == {i \in DOMAIN f.recs : lo < RecordEnd(f, i) /\ RecordEnd(f, i) <= hi}

(* transcriptAnchor(): what stands in the last bytes before a position.      *)
TranscriptAnchor(f, pos) ==
  LET n == Len(f.recs)
      id(k) == IF k > n THEN f.ids + 1 ELSE f.recs[k].id
      end(k) == IF k > n THEN FileSize(f) ELSE RecordEnd(f, k) IN
  {<<id(k), RecordEnd(f, k - 1) - pos>> : k \in {i \in 1..(n + 1) : RecordEnd(f, i - 1) < pos /\ end(i) > pos - Anchor}}

TranscriptCursor(f, before, through, live) ==
  [kind |-> "transcript", binding |-> f.binding, before |-> before, through |-> through, live |-> live,
   anchor |-> TranscriptAnchor(f, before), throughAnchor |-> TranscriptAnchor(f, through)]

(* decodeTranscriptCursor() and the comparison with the file as it is.       *)
CursorHolds(f, c) ==
  /\ c.kind = "transcript" /\ c.binding = f.binding
  /\ c.before <= c.through /\ c.through <= FileSize(f)
  /\ c.anchor = TranscriptAnchor(f, c.before) /\ c.throughAnchor = TranscriptAnchor(f, c.through)

(* indexTranscriptTools() over some records, in order: a call is settled by *)
(* one later result; a second call or result leaves it open.                *)
BlocksOf(f, S, kind, tool) ==
  {p \in UNION {{i} \X DOMAIN f.recs[i].blocks : i \in S} :
     f.recs[p[1]].blocks[p[2]].kind = kind /\ f.recs[p[1]].blocks[p[2]].tool = tool}
Settled(f, S, tool) ==
  LET calls == BlocksOf(f, S, "call", tool)
      results == {r \in BlocksOf(f, S, "result", tool) : \E c \in calls : c[1] < r[1]} IN
  Cardinality(calls) = 1 /\ Cardinality(results) = 1

Message(id, text, result) == [id |-> id, text |-> text, result |-> result]

(* transcriptMessages(): thoughts and calls in order, then the texts as one. *)
RecordMessages(f, i, S) ==
  LET r == f.recs[i]
      shown == SelectSeq([b \in DOMAIN r.blocks |-> b], LAMBDA b :
        \/ r.blocks[b].kind = "thought"
        \/ r.blocks[b].kind = "call" /\ Cardinality(BlocksOf(f, S, "call", r.blocks[b].tool)) = 1)
      texts == SelectSeq(r.blocks, LAMBDA b : b.kind = "text") IN
  [k \in DOMAIN shown |-> Message(<<r.id, shown[k]>>, r.blocks[shown[k]].text,
     r.blocks[shown[k]].kind = "call" /\ Settled(f, S, r.blocks[shown[k]].tool))]
  \o IF texts = <<>> THEN <<>>
     ELSE <<Message(<<r.id, 0>>, FlattenSeq([k \in DOMAIN texts |-> texts[k].text]), FALSE)>>

(* readTranscript(): the whole lines of the window before the cursor, from  *)
(* its end, as many as fit; the next page begins where this one stopped.    *)
Start(c) == IF c.before > Window THEN c.before - Window ELSE 0
FirstByte(f, start, before) == IF start = 0 THEN 0 ELSE Min({RecordEnd(f, i) : i \in EndingIn(f, start, before)})
Rows(f, k, lines, scanned) ==
  FlattenSeq([n \in 1..Cardinality({i \in lines : i >= k}) |-> RecordMessages(f, k + n - 1, scanned)])
Page(f, c, before, rows) ==
  [ok |-> TRUE, msgs |-> rows, replay |-> TranscriptCursor(f, c.before, c.through, c.live),
   next |-> IF before = 0 THEN NoCursor ELSE TranscriptCursor(f, before, c.through, FALSE)]
Fitted(f, c, first, lines, scanned, fitting) ==
  IF fitting = lines
  THEN Page(f, c, first, IF lines = {} THEN <<>> ELSE Rows(f, Min(lines), lines, scanned))
  ELSE Page(f, c, RecordEnd(f, Min(fitting) - 1), Rows(f, Min(fitting), lines, scanned))
Scanned(f, c, first, lines, scanned) ==
  Fitted(f, c, first, lines, scanned, {k \in lines : Len(Rows(f, k, lines, scanned)) <= MaxRows})
ReadLines(f, c, first, lines) ==
  Scanned(f, c, first, lines, lines \cup EndingIn(f, c.before, Min({c.through, c.before + Window})))
ReadAt(f, c, first) == ReadLines(f, c, first, EndingIn(f, first, c.before))
ReadTranscript(f, c) ==
  IF \/ c.kind /= "none" /\ ~CursorHolds(f, c)
     \/ Start(c) > 0 /\ EndingIn(f, Start(c), c.before - 1) = {}
  THEN Failed
  ELSE ReadAt(f, c, FirstByte(f, Start(c), c.before))
ReadLatest(f) == ReadTranscript(f, TranscriptCursor(f, FileSize(f), FileSize(f), TRUE))
=============================================================================
