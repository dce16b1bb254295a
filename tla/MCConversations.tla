--------------------------- MODULE MCConversations ---------------------------
(***************************************************************************)
(* Five questions about conversations, which share no state a property     *)
(* looks at.  Of Claude: the Mod's commands and events around one or two   *)
(* requests, a session the broker creates and the requests that follow,    *)
(* repeat or race with it, and the rows of one turn.  Of both families:    *)
(* the pages and the bodies of a conversation that goes on, and the store  *)
(* of attachments.                                                         *)
(***************************************************************************)
EXTENDS ClaudeMod, ClaudeExecutor
CONSTANTS
  p1, p2, p3,
  MaxRows, MaxText, MaxTool, MaxBytes, MaxRepeats,
  ItemLimit, PageMessages, PageBytes, PartUnits, CacheBytes, Window, Anchor, PageRows,
  MaxIds, MaxPending, MaxStored, ReceiptSize, MaxFaults
VARIABLES
  part,
  plan, at, phase, started, complete, repeats, rows, rowBytes, stream, turn,
  hist, walk, cache, bytes, load, more,
  up, pending, used, parts, files, receipts, renamed, begun, told, faults

(* The bridge: lost exchanges and a repeated push, the end of the native     *)
(* session, an expired lease, a typed text equal to the input, a scope that  *)
(* ends, a full queue.                                                       *)
Ask(op, client) == [op |-> op, client |-> client]
Case(one, two, some) == [jobs |-> (p1 :> one) @@ (p2 :> two), left |-> some @@ [k \in Kinds |-> 0]]
Nobody == Ask("none", "a")
Bridges == {
  Case(Ask("send", "a"), Ask("send", "a"), [pump |-> 2, turn |-> 1]),
  Case(Ask("send", "a"), Ask("send", "b"), [pump |-> 4, fault |-> 1]),
  Case(Ask("send", "a"), Nobody, [pump |-> 3, late |-> 1, turn |-> 1, typed |-> 1]),
  Case(Ask("send", "a"), Nobody, [pump |-> 3, fault |-> 1, turn |-> 1, typed |-> 1]),
  Case(Ask("send", "a"), Nobody, [pump |-> 3, life |-> 1]),
  Case(Ask("send", "a"), Ask("rename", "a"), [pump |-> 2, expire |-> 1, context |-> 1]),
  Case(Ask("stop", "a"), Nobody, [pump |-> 4, turn |-> 2, context |-> 1]),
  Case(Ask("stop", "a"), Ask("settings", "a"), [pump |-> 2, turn |-> 1, expire |-> 1]),
  Case(Ask("settings", "a"), Nobody, [pump |-> 3, turn |-> 1, step |-> 1]),
  Case(Ask("settings", "a"), Nobody, [pump |-> 2, turn |-> 1, step |-> 1, life |-> 1]),
  Case(Ask("rename", "a"), Nobody, [pump |-> 3, sync |-> 1, scope |-> 1, fault |-> 1]),
  Case(Nobody, Nobody, [pump |-> 4, turn |-> 1, block |-> 3, repeat |-> 1, title |-> 1]),
  Case(Nobody, Nobody, [pump |-> 3, turn |-> 1, block |-> 2, bad |-> 1, fault |-> 1])}

(* The broker.                                                               *)
Do(op, client, effort) == [op |-> op, client |-> client, effort |-> effort]
Tale(one, two, three, some) ==
  [jobs |-> (p1 :> one) @@ (p2 :> two) @@ (p3 :> three), left |-> some @@ [k \in Troubles |-> 0]]
Rest == Do("none", "a", FALSE)
First == Do("create", "a", FALSE)
AllStories == {
  Tale(First, First, Rest, [context |-> 2, exit |-> 1, early |-> 1]),
  Tale(Do("create", "a", TRUE), First, Rest, [override |-> 1, context |-> 1, garble |-> 1]),
  Tale(First, Do("create", "b", FALSE), Do("create", "c", FALSE), [exit |-> 1]),
  Tale(First, Do("send", "b", FALSE), Do("stop", "a", FALSE), [finish |-> 2, context |-> 1]),
  Tale(First, Do("send", "b", FALSE), Do("send", "b", FALSE), [finish |-> 2, exit |-> 1]),
  Tale(First, Do("effort", "a", FALSE), Do("send", "b", FALSE), [finish |-> 1, override |-> 1, context |-> 1]),
  Tale(First, Do("model", "a", FALSE), Do("send", "b", FALSE), [finish |-> 1, ask |-> 1, exit |-> 1]),
  Tale(First, Do("rename", "a", FALSE), Do("stop", "a", FALSE), [finish |-> 1, exit |-> 1, override |-> 1]),
  Tale(First, Do("stop", "a", FALSE), Do("effort", "a", FALSE), [finish |-> 1, garble |-> 1, override |-> 1])}

(* The rows.                                                                 *)
Piece(k, n) == [kind |-> k, size |-> n]
Message(streamed, blocks) == [stream |-> streamed, blocks |-> blocks]
Turns == {
  <<Message(TRUE, <<Piece("text", 5), Piece("text", 1), Piece("tool_use", 4)>>), Message(TRUE, <<Piece("thinking", 2), Piece("text", 3)>>)>>,
  <<Message(TRUE, <<Piece("thinking", 1), Piece("text", 2), Piece("text", 1)>>)>>,
  <<Message(TRUE, <<Piece("text", 3), Piece("tool_use", 2)>>), Message(TRUE, <<Piece("text", 2)>>)>>,
  <<Message(FALSE, <<Piece("text", 2), Piece("tool_use", 1)>>), Message(TRUE, <<Piece("tool_use", 3), Piece("text", 1)>>)>>,
  <<Message(TRUE, <<Piece("tool_use", 1)>>), Message(FALSE, <<Piece("thinking", 1), Piece("text", 4)>>)>>}
rowVars == <<plan, at, phase, started, complete, repeats, rows, rowBytes, stream, turn>>
R == INSTANCE ClaudeRows WITH Plans <- Turns, left <- repeats
RowsTrue == R!RowsTrue

(* The pages.                                                                *)
PageKinds == {"arrive", "grow", "rollback", "again", "load", "result"}
one == <<"c">>
pair == <<"h", "l">>
three == <<"c", "h", "l">>
NoFile == [recs |-> <<>>, tail |-> 0, ids |-> 0, binding |-> 1]
Talk(texts, layers) ==
  [source |-> "items", layers |-> layers, ids |-> Len(texts), file |-> NoFile,
   items |-> [i \in DOMAIN texts |-> [id |-> <<i, 0>>, text |-> texts[i], result |-> FALSE]]]
Text(t) == [kind |-> "text", tool |-> 0, text |-> t]
Tool(k, t) == [kind |-> k, tool |-> t, text |-> <<>>]
Thought == [kind |-> "thought", tool |-> 0, text |-> one]
Rec(n, blocks) == [size |-> n, blocks |-> blocks]
Log(recs, tail, layers) ==
  [source |-> "transcript", layers |-> layers, items |-> <<>>, ids |-> 0,
   file |-> [recs |-> [i \in DOMAIN recs |-> [id |-> i] @@ recs[i]], tail |-> tail, ids |-> Len(recs), binding |-> 1]]
Reading(h, l) == [hist |-> h, left |-> l @@ [k \in PageKinds |-> 0]]
Readings == {
  Reading(Talk(<<one, three, <<"c", "c", "c">>, one>>, 1), [arrive |-> 2, grow |-> 1, again |-> 1]),
  Reading(Talk(<<one, three, <<"c", "c", "c">>, one>>, 2), [arrive |-> 1, grow |-> 1, rollback |-> 1]),
  Reading(Talk(<<one, three, <<"h", "l", "c">>, one>>, 2), [arrive |-> 2, again |-> 2, rollback |-> 1]),
  Reading(Talk(<<one, three, one>>, 1), [load |-> 1, arrive |-> 1, grow |-> 1]),
  Reading(Talk(<<one, three, one>>, 2), [load |-> 1, arrive |-> 1, rollback |-> 1]),
  Reading(Log(<<Rec(3, <<Text(one), Tool("call", 1)>>), Rec(2, <<Tool("result", 1)>>), Rec(3, <<Thought, Text(three)>>), Rec(2, <<Text(one)>>)>>, 1, 1),
          [arrive |-> 1, grow |-> 1, again |-> 1, rollback |-> 1]),
  Reading(Log(<<Rec(3, <<Text(one), Tool("call", 1)>>), Rec(3, <<Thought, Text(three)>>), Rec(2, <<>>), Rec(4, <<Text(one), Thought>>)>>, 0, 2),
          [arrive |-> 1, result |-> 2, again |-> 1]),
  Reading(Log(<<Rec(3, <<Tool("call", 1), Tool("call", 2)>>), Rec(3, <<Text(one)>>), Rec(2, <<Tool("result", 1)>>)>>, 1, 1),
          [load |-> 1, arrive |-> 1, result |-> 1])}
pageVars == <<hist, walk, cache, bytes, load, more>>
P == INSTANCE Pages WITH Scenarios <- Readings, Kinds <- PageKinds, MaxRows <- PageRows, Grown <- {one, pair}, left <- more
WalkExact == P!WalkExact
LoadTrue == P!LoadTrue

(* The store.                                                                *)
Declared == {[size |-> 2, sum |-> <<"a", "b">>], [size |-> 1, sum |-> <<"a">>], [size |-> 1, sum |-> <<"a", "b">>]}
storeVars == <<up, pending, used, parts, files, receipts, renamed, begun, told, faults>>
U == INSTANCE Uploads WITH Metas <- Declared, Chunks <- {<<"a">>, <<"b">>, <<"a", "b">>}
StoreTrue == U!StoreTrue

(* The parts a behaviour is not about stay at rest.                          *)
NoBridge == scn = Case(Nobody, Nobody, <<>>) /\ BridgeInit /\ mod = Unbound /\ obs = {} /\ wire = NoWire
            /\ native = Session /\ reader = <<>> /\ left = <<>>
NoBroker == story = Tale(Rest, Rest, Rest, <<>>) /\ asking = [p \in {p1, p2, p3} |-> IdleRequest]
            /\ creating = [c \in {"a", "b", "c"} |-> NoCreation] /\ sess = <<>> /\ proc = <<>> /\ troubles = <<>>
NoRows == plan = <<>> /\ at = 1 /\ phase = <<>> /\ started = FALSE /\ complete = FALSE /\ repeats = 0
          /\ rows = <<>> /\ rowBytes = 0 /\ stream = R!NoStream /\ turn = "waiting"
NoPages == hist = Talk(<<>>, 1) /\ walk = P!NoWalk /\ cache = <<>> /\ bytes = 0 /\ load = P!NoLoad /\ more = <<>>
MCInit == \/ part = "bridge" /\ Init /\ NoBroker /\ NoRows /\ NoPages /\ U!Init
          \/ part = "broker" /\ BrokerInit /\ NoBridge /\ NoRows /\ NoPages /\ U!Init
          \/ part = "rows" /\ R!Init /\ NoBridge /\ NoBroker /\ NoPages /\ U!Init
          \/ part = "pages" /\ P!Init /\ NoBridge /\ NoBroker /\ NoRows /\ U!Init
          \/ part = "store" /\ U!Init /\ NoBridge /\ NoBroker /\ NoRows /\ NoPages
MCNext == \/ part = "bridge" /\ Next /\ UNCHANGED <<part, brokerVars, rowVars, pageVars, storeVars>>
          \/ part = "broker" /\ BrokerNext /\ UNCHANGED <<part, vars, rowVars, pageVars, storeVars>>
          \/ part = "rows" /\ R!Next /\ UNCHANGED <<part, vars, brokerVars, pageVars, storeVars>>
          \/ part = "pages" /\ P!Next /\ UNCHANGED <<part, vars, brokerVars, rowVars, storeVars>>
          \/ part = "store" /\ U!Next /\ UNCHANGED <<part, vars, brokerVars, rowVars, pageVars>>
MCSpec == MCInit /\ [][MCNext]_<<part, vars, brokerVars, rowVars, pageVars, storeVars>>
=============================================================================
