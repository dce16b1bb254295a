----------------------------- MODULE ClaudeRows -----------------------------
(***************************************************************************)
(* The rows of a stream-json session (internal/claude/native_stream.go and *)
(* native_rows.go): a message is streamed block by block, then repeated as *)
(* complete blocks, one at a time or as a whole; rows and session have a   *)
(* size limit.  Every event is handled under NativeSession.mu, so that it  *)
(* is one step.  A text is the sequence of the pieces it was put together  *)
(* from; the complete text of a block of n pieces is <<1, ..., n>>.        *)
(***************************************************************************)
EXTENDS Naturals, Sequences, FiniteSets, SequencesExt, FiniteSetsExt

CONSTANTS
  Plans,        \* turns: sequences of messages [stream, blocks]; a block is [kind, size]
  MaxRows,      \* maxRows
  MaxText,      \* maxRowBytes: the size of a text or thought row
  MaxTool,      \* the size of a tool row
  MaxBytes,     \* maxSessionBytes
  MaxRepeats    \* bound: envelopes the process writes twice

VARIABLES
  plan,      \* the turn the process is about to write
  at,        \* the message being written
  phase,     \* per block: how many pieces are written, closed, its envelope, its result
  started,   \* its message_start is written
  complete,  \* the envelope of the whole message is written
  left,      \* envelopes that may still be repeated
  rows,      \* NativeSession.rows
  rowBytes,  \* NativeSession.rowBytes
  stream,    \* NativeSession.stream: the blocks of the current message
  turn       \* "waiting" for the replay, "active", "ended"

native == <<plan, at, phase, started, complete, left>>
vars == <<plan, at, phase, started, complete, left, rows, rowBytes, stream, turn>>

Text(n) == [i \in 1..n |-> i]
Unwritten == [opened |-> FALSE, pieces |-> 0, closed |-> FALSE, final |-> FALSE, result |-> FALSE]
Blocks == plan[at].blocks
NoStream == [msg |-> 0, of |-> <<>>]
NoBlock == [in |-> FALSE, kind |-> "none", row |-> <<>>, uuid |-> <<>>, closed |-> FALSE, final |-> FALSE, omitted |-> FALSE]

Init ==
  /\ plan \in Plans /\ at = 1
  /\ phase = [b \in DOMAIN plan[1].blocks |-> Unwritten]
  /\ started = FALSE /\ complete = FALSE /\ left = MaxRepeats
  /\ rows = <<>> /\ rowBytes = 0 /\ stream = NoStream /\ turn = "waiting"

-----------------------------------------------------------------------------
(* putNativeRow() and nativeRow(), on [rows, bytes].                        *)

Size(r) == 1 + Len(r.text) + (IF r.result THEN 1 ELSE 0)
Limit(r) == IF r.kind = "tool_use" THEN MaxTool ELSE MaxText
Find(rs, id) == {i \in DOMAIN rs : rs[i].id = id}
Bytes(rs) == FoldLeft(LAMBDA n, r : n + Size(r), 0, rs)

(* The oldest rows go until the rest fits.                                  *)
Evict(rs, bytes) ==
  LET dropped(k) == Bytes(SubSeq(rs, 1, k))
      fits(k) == Len(rs) - k <= MaxRows /\ bytes - dropped(k) <= MaxBytes
      k == CHOOSE n \in 0..Len(rs) : fits(n) /\ \A m \in 0..(n - 1) : ~fits(m) IN
  [rows |-> SubSeq(rs, k + 1, Len(rs)), bytes |-> bytes - dropped(k), ok |-> TRUE]

Put(s, r) ==
  LET p == Find(s.rows, r.id)
      rest == IF p = {} THEN s.bytes ELSE s.bytes - Size(s.rows[CHOOSE i \in p : TRUE]) IN
  IF Size(r) > Limit(r) THEN [rows |-> SelectSeq(s.rows, LAMBDA x : x.id # r.id), bytes |-> rest, ok |-> FALSE]
  ELSE IF p = {} THEN Evict(Append(s.rows, r), rest + Size(r))
  ELSE Evict([s.rows EXCEPT ![CHOOSE i \in p : TRUE] = r], rest + Size(r))

Now == [rows |-> rows, bytes |-> rowBytes, ok |-> TRUE]
Set(s) == rows' = s.rows /\ rowBytes' = s.bytes
Row(id) == rows[CHOOSE i \in Find(rows, id) : TRUE]

(* newNativeBlock(): of is the block a row stands for (history).            *)
RowOf(id, b, text) ==
  [id |-> id, kind |-> Blocks[b].kind, of |-> <<at, b>>, text |-> text, result |-> FALSE,
   state |-> IF Blocks[b].kind = "text" THEN "none" ELSE "running"]
StreamId(b) == IF Blocks[b].kind = "tool_use" THEN <<"tool", at, b>> ELSE <<"block", at, b>>

-----------------------------------------------------------------------------
(* The replay of the input puts the user's row and starts the turn.         *)
Replay ==
  /\ turn = "waiting" /\ turn' = "active"
  /\ Set(Put(Now, [id |-> <<"user">>, kind |-> "user", of |-> <<0, 0>>, text |-> <<1>>, result |-> FALSE, state |-> "none"]))
  /\ UNCHANGED <<native, stream>>

(* streamEvent().                                                           *)
MessageStart ==
  /\ turn = "active" /\ plan[at].stream /\ ~started
  /\ started' = TRUE
  /\ stream' = [msg |-> at, of |-> [b \in DOMAIN Blocks |-> NoBlock]]
  /\ UNCHANGED <<plan, at, phase, complete, left, rows, rowBytes, turn>>

BlockStart(b) ==
  LET put == Put(Now, RowOf(StreamId(b), b, <<>>)) IN
  /\ turn = "active" /\ started /\ ~phase[b].opened
  /\ \A a \in 1..(b - 1) : phase[a].closed
  /\ phase' = [phase EXCEPT ![b].opened = TRUE]
  /\ stream' = [stream EXCEPT !.of[b] = [NoBlock EXCEPT !.in = TRUE, !.kind = Blocks[b].kind, !.row = StreamId(b), !.omitted = ~put.ok]]
  /\ Set(put)
  /\ UNCHANGED <<plan, at, started, complete, left, turn>>

(* Mutant: a piece of a block whose row is gone starts a new row.           *)
DeltaRowNew(b) ==
  IF Find(rows, stream.of[b].row) # {} THEN {Row(stream.of[b].row)} ELSE {RowOf(stream.of[b].row, b, <<>>)}

(* The row a piece is added to, if it is still there.                       *)
DeltaRow(b) == IF stream.of[b].omitted \/ Find(rows, stream.of[b].row) = {} THEN {} ELSE {Row(stream.of[b].row)}

BlockDelta(b) ==
  LET n == phase[b].pieces + 1 IN
  /\ turn = "active" /\ started /\ phase[b].opened /\ ~phase[b].closed /\ n <= Blocks[b].size
  /\ phase' = [phase EXCEPT ![b].pieces = n]
  /\ IF stream.of[b].final \/ stream.of[b].closed \/ DeltaRow(b) = {} THEN UNCHANGED <<rows, rowBytes, stream>>
     ELSE LET row == CHOOSE r \in DeltaRow(b) : TRUE
              put == Put(Now, [row EXCEPT !.text = Append(@, n)]) IN
          Set(put) /\ stream' = [stream EXCEPT !.of[b].omitted = ~put.ok]
  /\ UNCHANGED <<plan, at, started, complete, left, turn>>

BlockStop(b) ==
  LET s == stream.of[b] IN
  /\ turn = "active" /\ started /\ phase[b].opened /\ ~phase[b].closed /\ phase[b].pieces = Blocks[b].size
  /\ phase' = [phase EXCEPT ![b].closed = TRUE]
  /\ IF s.final \/ s.closed THEN UNCHANGED <<rows, rowBytes, stream>>
     ELSE /\ stream' = [stream EXCEPT !.of[b].closed = TRUE]
          /\ IF s.kind = "thinking" /\ Find(rows, s.row) # {} THEN Set(Put(Now, [Row(s.row) EXCEPT !.state = "succeeded"]))
             ELSE UNCHANGED <<rows, rowBytes>>
  /\ UNCHANGED <<plan, at, started, complete, left, turn>>

-----------------------------------------------------------------------------
(* assistantBlocks(): the complete blocks of an envelope.  finalNativeBlock *)
(* names the streamed block that block i of n stands for.                   *)

Same(st, c, b) == st[c].in /\ st[c].kind = Blocks[b].kind /\ (Blocks[b].kind = "tool_use" => st[c].row = StreamId(b))

FinalBlock(st, b, whole, uuid) ==
  LET seen == {c \in DOMAIN st : Same(st, c, b) /\ st[c].uuid = uuid}
      open == {c \in DOMAIN st : Same(st, c, b) /\ ~st[c].final} IN
  IF whole THEN {c \in {b} : Same(st, c, b)}
  ELSE IF seen # {} THEN seen
  ELSE IF open # {} THEN {CHOOSE c \in open : \A d \in open : c <= d} ELSE {}

(* One block of an envelope, after the ones before it.                      *)
Finalize(x, b, whole, uuid) ==
  LET st == x.stream
      match == IF st.msg = at THEN FinalBlock(st.of, b, whole, uuid) ELSE {}
      own == IF Blocks[b].kind = "tool_use" THEN StreamId(b) ELSE Append(uuid, b)
      id == IF match = {} THEN own ELSE st.of[CHOOSE c \in match : TRUE].row
      old == Find(x.rows, id)
      kept == old # {} /\ x.rows[CHOOSE i \in old : TRUE].result
      row == [RowOf(id, b, Text(Blocks[b].size)) EXCEPT
                !.result = kept,
                !.state = CASE kept -> x.rows[CHOOSE i \in old : TRUE].state [] @ = "running" /\ Blocks[b].kind = "thinking" -> "succeeded" [] OTHER -> @]
      put == Put([rows |-> x.rows, bytes |-> x.bytes, ok |-> TRUE], row) IN
  [rows |-> put.rows, bytes |-> put.bytes,
   stream |-> [st EXCEPT !.of = [c \in DOMAIN st.of |->
                 IF c \in match THEN [st.of[c] EXCEPT !.final = TRUE, !.closed = TRUE, !.uuid = uuid, !.omitted = ~put.ok]
                 ELSE st.of[c]]]]

Envelope(blocks, whole, uuid) ==
  LET x == FoldLeft(LAMBDA y, b : Finalize(y, b, whole, uuid), [rows |-> rows, bytes |-> rowBytes, stream |-> stream], blocks) IN
  rows' = x.rows /\ rowBytes' = x.bytes /\ stream' = x.stream

(* Single blocks come before the message as a whole.                        *)
Assistant(b) ==
  /\ turn = "active" /\ ~complete
  /\ IF plan[at].stream THEN phase[b].opened /\ phase[b].pieces = Blocks[b].size ELSE TRUE
  /\ \A a \in 1..(b - 1) : phase[a].final
  /\ \/ ~phase[b].final /\ UNCHANGED left
     \/ phase[b].final /\ left > 0 /\ left' = left - 1
  /\ phase' = [phase EXCEPT ![b].final = TRUE]
  /\ Envelope(<<b>>, FALSE, <<"envelope", at, b>>)
  /\ UNCHANGED <<plan, at, started, complete, turn>>

(* A streamed message may be repeated as a whole.                           *)
AssistantWhole ==
  /\ turn = "active" /\ plan[at].stream /\ started /\ ~complete /\ Len(Blocks) > 1
  /\ \A b \in DOMAIN Blocks : phase[b].closed
  /\ complete' = TRUE
  /\ Envelope([b \in DOMAIN Blocks |-> b], TRUE, <<"whole", at>>)
  /\ UNCHANGED <<plan, at, phase, started, left, turn>>

(* toolResults().                                                           *)
ToolResult(b) ==
  /\ turn = "active" /\ Blocks[b].kind = "tool_use" /\ ~phase[b].result
  /\ phase[b].final \/ phase[b].closed
  /\ phase' = [phase EXCEPT ![b].result = TRUE]
  /\ IF Find(rows, StreamId(b)) = {} THEN UNCHANGED <<rows, rowBytes>>
     ELSE Set(Put(Now, [Row(StreamId(b)) EXCEPT !.state = "succeeded", !.result = TRUE]))
  /\ UNCHANGED <<plan, at, started, complete, left, stream, turn>>

(* The process goes on with its next message.                               *)
NextMessage ==
  /\ turn = "active" /\ at < Len(plan)
  /\ \A b \in DOMAIN Blocks : phase[b].final \/ complete
  /\ at' = at + 1 /\ phase' = [b \in DOMAIN plan[at + 1].blocks |-> Unwritten]
  /\ started' = FALSE /\ complete' = FALSE
  /\ UNCHANGED <<plan, left, rows, rowBytes, stream, turn>>

(* finishActivities(): the result of the turn, which may cut it short.      *)
Settled(s, r) == IF r.state = "running" THEN Put(s, [r EXCEPT !.state = "stopped"]) ELSE s

Result ==
  /\ turn = "active" /\ turn' = "ended"
  /\ Set(FoldLeft(Settled, Now, rows))
  /\ stream' = NoStream /\ UNCHANGED native

Next ==
  \/ Replay \/ MessageStart \/ AssistantWhole \/ NextMessage \/ Result
  \/ \E b \in DOMAIN Blocks : BlockStart(b) \/ BlockDelta(b) \/ BlockStop(b) \/ Assistant(b) \/ ToolResult(b)

Spec == Init /\ [][Next]_vars

-----------------------------------------------------------------------------
(* The size the limits are compared with is the size of the rows, within    *)
(* the limits, and nothing runs on after its turn.                          *)
RowsBounded ==
  /\ rowBytes = Bytes(rows) /\ rowBytes <= MaxBytes /\ Len(rows) <= MaxRows
  /\ turn = "ended" => \A i \in DOMAIN rows : rows[i].state # "running"

(* "Overflow removes the whole row; a discarded prefix must never reappear  *)
(* as an apparently complete suffix" (putNativeRow): a row is the beginning *)
(* of its block, and no block is shown twice or in the row of another one,  *)
(* however often and in which form its envelope comes; limits are kept.     *)
RowsTrue ==
  /\ RowsBounded
  /\ \A i \in DOMAIN rows : rows[i].text = Text(Len(rows[i].text))
  /\ \A i, j \in DOMAIN rows : i # j => rows[i].of # rows[j].of /\ rows[i].id # rows[j].id
  /\ \A i \in DOMAIN rows : rows[i].of[1] = at /\ rows[i].of[2] # 0 /\ (phase[rows[i].of[2]].final \/ complete) =>
       rows[i].text = Text(plan[at].blocks[rows[i].of[2]].size)
=============================================================================
